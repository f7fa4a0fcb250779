----------------------------- MODULE AtomicIpam -----------------------------
(***************************************************************************)
(* What the store promises about transaction units (ADR-0007): each takes  *)
(* effect at one instant, deciding on what the tables then hold, or not at *)
(* all; and a keyed one whose record is there has no effect.               *)
(***************************************************************************)
EXTENDS Mutations

CONSTANTS
    Requests,  \* the requests clients make
    TTL        \* how long an idempotency record is kept

VARIABLE clock

vars == <<tables, clock>>

Init == TablesInit /\ clock = 0

\* A unit for r, decided with the time `at' on the tables as they are.
Execute(r, at) ==
    \E m \in Resolutions(r) :
        /\ ~ Found(m, Snapshot(m))
        /\ Accepts(m, Snapshot(m))
        /\ \E plan \in Plans(m, Snapshot(m), at) :
              /\ ConstraintsHold(plan)
              /\ Apply(plan)
              /\ Remember(m, plan, at, TTL)
        /\ UNCHANGED clock

\* The sweep deletes the idempotency records that had expired when it began.
ReapIdempotency(now) ==
    /\ idem' = Restrict(idem, {k \in DOMAIN idem : idem[k].expiresAt > now})
    /\ UNCHANGED <<blocks, allocs, pointers, history, audit, nextId, clock>>

Tick == clock' = clock + 1 /\ UNCHANGED tables

Next ==
    \/ \E r \in Requests, at \in 0 .. clock : Execute(r, at)
    \/ \E now \in 0 .. clock : ReapIdempotency(now)
    \/ Tick

Spec == Init /\ [][Next]_vars
=============================================================================
