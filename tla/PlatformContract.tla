-------------------------- MODULE PlatformContract --------------------------
(***************************************************************************)
(* What the platform promises about its administrators and tokens, without *)
(* requests, locks, clocks or tables (ADR-0006, ADR-0007): a directory     *)
(* that has an active platform admin keeps one, the seed runs once and     *)
(* takes nobody's role, and nobody holds more live tokens than the limit.  *)
(***************************************************************************)
EXTENDS Integers, FiniteSets

CONSTANTS People, Tokens, Most

VARIABLES
    admins,  \* the active platform admins
    seeded,  \* the seed ran
    live     \* by person, the tokens they may use

vars == <<admins, seeded, live>>

Init == admins = {} /\ seeded = FALSE /\ live = [p \in People |-> {}]

\* One person is appointed or dismissed, the last one excepted.
Change ==
    /\ admins' # admins /\ admins' # {}
    /\ \E p \in People : admins' = admins \cup {p} \/ admins' = admins \ {p}
    /\ UNCHANGED <<seeded, live>>

Seed ==
    /\ ~ seeded /\ seeded' = TRUE
    /\ admins \subseteq admins' /\ admins' \subseteq People
    /\ UNCHANGED live

\* A token nobody holds; or tokens that end, one by revocation or several by
\* the passing of time.
Mint ==
    \E p \in People, t \in Tokens :
        /\ Cardinality(live[p]) < Most /\ \A q \in People : t \notin live[q]
        /\ live' = [live EXCEPT ![p] = @ \cup {t}]

End ==
    /\ live' \in [People -> SUBSET Tokens]
    /\ \A p \in People : live'[p] \subseteq live[p]

Hold == live' # live /\ (Mint \/ End) /\ UNCHANGED <<admins, seeded>>

Next == Change \/ Seed \/ Hold

Spec == Init /\ [][Next]_vars
=============================================================================
