------------------------------ MODULE MCGateway ------------------------------
(***************************************************************************)
(* Gateway for TLC: every call of every front end.  MaxTries and Burst are  *)
(* set so that a call can be tried again, with and without budget left.    *)
(***************************************************************************)
EXTENDS Gateway

MCCalls == LocalCalls \cup RemoteCalls \cup BareCalls \cup HttpCalls
=============================================================================
