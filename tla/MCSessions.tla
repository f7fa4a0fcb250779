----------------------------- MODULE MCSessions -----------------------------
(***************************************************************************)
(* An instance of Sessions for TLC: two commands, one change of keys.      *)
(***************************************************************************)
EXTENDS Sessions, TLC

MCSymmetry == Permutations(Commands)
=============================================================================
