---------------------------- MODULE MCAddresses ----------------------------
(***************************************************************************)
(* One run for all that computes addresses: an initial state is a call of  *)
(* free space (FreeSpace) or of a calculator (Calculators).                *)
(***************************************************************************)
EXTENDS FreeSpace, Calculators

\* The side that is not called.
NoCall ==
    /\ request = [tool |-> NULL] /\ pending = {} /\ rest = <<>> /\ cursor = 0 /\ cidrs = <<>>
    /\ reply = NULL /\ stage = "done"
NoSearch ==
    /\ op = NULL /\ block = NULL /\ occupied = {} /\ prefix = NULL /\ count = 0
    /\ unpassed = {} /\ from = 0 /\ gaps = <<>> /\ addr = 0 /\ sub = 0 /\ results = <<>> /\ pc = "done"

MCInit == (Init /\ NoCall) \/ (CalcInit /\ NoSearch)

MCNext == (Next /\ UNCHANGED calcVars) \/ (CalcNext /\ UNCHANGED vars)

MCSpec == MCInit /\ [][MCNext]_<<vars, calcVars>> /\ WF_<<vars, calcVars>>(MCNext)

\* Every calculation returns, and so do every search for addresses and every
\* report of IPv4, whatever prefix they are asked for, and the report of IPv6 for
\* a prefix of at most 128 and a block that leaves the first and the last address
\* alone.  The other reports of IPv6 are the exception: range_to_cidrs
\* (src/ipam/operations.rs:1198) and split_cidr_to_prefix (1233) may come round
\* to the first address and not end.
AllReturn ==
    (op # "report" \/ block.v4 \/ InWord) => <>(pc \in {"done", "refused"} /\ stage = "done")
=============================================================================
