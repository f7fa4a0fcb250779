----------------------------- MODULE BatchClaim -----------------------------
(***************************************************************************)
(* One idempotency key of batch_allocate (batch_allocate_idempotent in     *)
(* src/ipam/operations.rs, claim, complete and abandon in                  *)
(* src/ipam/idempotency.rs).  A batch is one unit per item, so it claims   *)
(* its key in a unit of its own, runs its items, and completes the claim.  *)
(* A unit is one step: TxUnits checks that units are atomic.               *)
(*                                                                         *)
(* The batch runs in its caller's request, which the server ends at its    *)
(* request timeout (TimeoutLayer in src/api.rs).                           *)
(***************************************************************************)
EXTENDS Integers, FiniteSets

CONSTANTS
    Procs,        \* concurrent callers that share the key
    Bodies,       \* the request bodies they send, by hash
    Oversize,     \* those with more items than MAX_BATCH_SIZE
    Items,        \* items of a batch
    PENDING_TTL,  \* how long a claim blocks other requests
    TTL,          \* how long a result is kept
    Timeout,      \* the request timeout (at most MAX_TIMEOUT_SECONDS)
    MaxClock,     \* bound on time
    MaxLost,      \* bound on the runs that end without completing their claim
    NULL

IdemRecord == [request_hash : Bodies, status : {"pending", "done"}, expiresAt : Nat]

ASSUME ConstantsAssumption ==
    /\ Oversize \subseteq Bodies /\ NULL \notin Bodies /\ NULL \notin IdemRecord
    /\ Items \in Nat \ {0}
    /\ {PENDING_TTL, TTL, Timeout, MaxClock, MaxLost} \subseteq Nat

\* 300 seconds at most (MAX_TIMEOUT_SECONDS) against 15 minutes.
ASSUME TimeoutAssumption == Timeout < PENDING_TTL

VARIABLES
    clock,
    record,   \* the key's row in idempotency_keys, or NULL
    pc, body, \* where each caller is, and the request it sends
    now,      \* the time it captured before its current key unit
    elapsed,  \* how long its request has taken
    next,     \* the item its batch is at
    times,    \* history: how often each item of each body has been allocated
    lost      \* history: how many runs ended without completing their claim

callers == <<pc, body, now, elapsed, next>>
vars == <<clock, record, callers, times, lost>>

Record(b, status, at) == [request_hash |-> b, status |-> status, expiresAt |-> at]

Init ==
    /\ clock = 0 /\ record = NULL /\ lost = 0
    /\ pc = [p \in Procs |-> "idle"] /\ body = [p \in Procs |-> NULL]
    /\ now = [p \in Procs |-> 0] /\ elapsed = [p \in Procs |-> 0]
    /\ next = [p \in Procs |-> 0]
    /\ times = [b \in Bodies |-> [i \in 1 .. Items |-> 0]]

\* p moves to `label' and starts a unit there at the current time.
Enter(p, label) ==
    /\ pc' = [pc EXCEPT ![p] = label]
    /\ now' = [now EXCEPT ![p] = clock]
    /\ UNCHANGED <<elapsed, clock>>

Leave(p) ==
    /\ pc' = [pc EXCEPT ![p] = "idle"] /\ body' = [body EXCEPT ![p] = NULL]
    /\ now' = [now EXCEPT ![p] = 0] /\ elapsed' = [elapsed EXCEPT ![p] = 0]
    /\ next' = [next EXCEPT ![p] = 0] /\ UNCHANGED clock

Submit(p, b) ==
    /\ pc[p] = "idle"
    /\ body' = [body EXCEPT ![p] = b]
    /\ Enter(p, "claiming")
    /\ UNCHANGED <<record, next, times, lost>>

-----------------------------------------------------------------------------
\* A record stops counting at its expiry, by the time captured before.
is_expired(r, at) == r.expiresAt <= at

\* Mutant of Live: a claim that is not completed blocks nobody.
LiveWhenDone(p) ==
    record # NULL /\ record.status = "done" /\ ~ is_expired(record, now[p])

Live(p) == record # NULL /\ ~ is_expired(record, now[p])

TakeKey(p) == record' = Record(body[p], "pending", now[p] + PENDING_TTL)

Claim(p) ==
    /\ pc[p] = "claiming" /\ ~ Live(p)
    /\ TakeKey(p)
    /\ next' = [next EXCEPT ![p] = 1]
    /\ Enter(p, IF body[p] \in Oversize THEN "abandoning" ELSE "running")
    /\ UNCHANGED <<body, times, lost>>

\* A live record answers instead: IdempotencyConflict, IdempotencyInProgress
\* or the result of the completed batch.
Answer(p) ==
    /\ pc[p] = "claiming" /\ Live(p)
    /\ Leave(p) /\ UNCHANGED <<record, times, lost>>

Allocate(p) == times' = [times EXCEPT ![body[p]][next[p]] = @ + 1]

\* One unit per item.  An item that fails is reported in the result and does
\* not end the batch.
RunItem(p) ==
    /\ pc[p] = "running"
    /\ Allocate(p) \/ UNCHANGED times
    /\ IF next[p] = Items
       THEN Enter(p, "completing") /\ UNCHANGED next
       ELSE Enter(p, "running") /\ next' = [next EXCEPT ![p] = @ + 1]
    /\ UNCHANGED <<record, body, lost>>

\* Mutant of PutResult: the result expires as it is stored, as when abandoned.
PutExpired(p) == record' = Record(body[p], "done", now[p])

PutResult(p) == record' = Record(body[p], "done", now[p] + TTL)

Complete(p) ==
    /\ pc[p] = "completing"
    /\ PutResult(p)
    /\ Leave(p) /\ UNCHANGED <<times, lost>>

Abandon(p) ==
    /\ pc[p] = "abandoning"
    /\ record' = Record(body[p], "pending", now[p])
    /\ Leave(p) /\ UNCHANGED <<times, lost>>

-----------------------------------------------------------------------------
(* A request ends early: its key unit fails with StoreBusy, it times out,   *)
(* its caller goes away or its server stops.  A claim it made stays.        *)

Stop(p) ==
    /\ pc[p] # "idle"
    /\ IF pc[p] \in {"running", "completing"}
       THEN lost < MaxLost /\ lost' = lost + 1
       ELSE UNCHANGED lost
    /\ Leave(p) /\ UNCHANGED <<record, times>>

\* SQLite's unit outlives the request that began it.
StopAndOutlive(p) ==
    /\ \/ pc[p] = "claiming" /\ ~ Live(p) /\ TakeKey(p) /\ UNCHANGED <<times, lost>>
       \/ /\ pc[p] = "running" /\ lost < MaxLost
          /\ Allocate(p) /\ lost' = lost + 1 /\ UNCHANGED record
       \/ pc[p] = "completing" /\ PutResult(p) /\ UNCHANGED <<times, lost>>
    /\ Leave(p)

\* Mutant of Reap: the sweep deletes live records too.
ReapAll(at) ==
    /\ record # NULL
    /\ record' = NULL /\ UNCHANGED <<clock, callers, times, lost>>

\* The sweep, begun at `at'.
Reap(at) ==
    /\ record # NULL /\ is_expired(record, at)
    /\ record' = NULL /\ UNCHANGED <<clock, callers, times, lost>>

\* No request outlasts its timeout.
Tick ==
    /\ clock < MaxClock
    /\ \A p \in Procs : pc[p] # "idle" => elapsed[p] < Timeout
    /\ clock' = clock + 1
    /\ elapsed' = [p \in Procs |-> IF pc[p] = "idle" THEN 0 ELSE elapsed[p] + 1]
    /\ UNCHANGED <<record, pc, body, now, next, times, lost>>

Next ==
    \/ \E p \in Procs :
        \/ \E b \in Bodies : Submit(p, b)
        \/ Claim(p) \/ Answer(p) \/ RunItem(p) \/ Complete(p) \/ Abandon(p)
        \/ Stop(p) \/ StopAndOutlive(p)
    \/ \E at \in 0 .. clock : Reap(at)
    \/ Tick

Spec == Init /\ [][Next]_vars

-----------------------------------------------------------------------------
Running == {p \in Procs : pc[p] \in {"running", "completing"}}

\* "A replay that arrives while the first batch request is still running also
\* returns 409 instead of allocating twice" (README.md:1099): two batches of
\* a key never run at once.
RunsAlone == Cardinality(Running) <= 1

\* "Side effects run exactly once" (src/ipam/idempotency.rs:12), as far as no
\* run is lost: no item of a request is allocated again but for a lost run.
RepeatsOnlyLost == \A b \in Bodies : \A i \in 1 .. Items : times[b][i] <= 1 + lost

\* "The key is bound to the first payload it saw" (src/ipam/idempotency.rs:13):
\* while a record is live no other request takes the key.
KeyBound ==
    [][record # NULL /\ ~ is_expired(record, clock) =>
        record' # NULL /\ record'.request_hash = record.request_hash]_vars
=============================================================================
