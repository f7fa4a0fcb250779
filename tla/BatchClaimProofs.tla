-------------------------- MODULE BatchClaimProofs --------------------------
(***************************************************************************)
(* Two batches of a key never run at once, and a live record keeps its     *)
(* request, for every number of callers, bodies and items and every        *)
(* PENDING_TTL above the request timeout.                                  *)
(***************************************************************************)
EXTENDS BatchClaim, FiniteSetTheorems, TLAPS

\* A caller that has claimed the key and not given it back.
Holds(p) == pc[p] \in {"running", "completing", "abandoning"}

\* Type correctness.
TypeInv ==
    /\ clock \in Nat
    /\ record \in IdemRecord \cup {NULL}
    /\ pc \in [Procs -> {"idle", "claiming", "running", "completing", "abandoning"}]
    /\ body \in [Procs -> Bodies \cup {NULL}]
    /\ now \in [Procs -> Nat]
    /\ elapsed \in [Procs -> Nat]
    /\ \A p \in Procs : pc[p] # "idle" => body[p] \in Bodies

\* A caller's captured time is in the past, by no more than its request has
\* lasted, and its request has not outlasted the timeout.
TimeInv ==
    \A p \in Procs :
        /\ elapsed[p] <= Timeout
        /\ pc[p] # "idle" => now[p] <= clock /\ clock <= now[p] + elapsed[p]

\* A holder's claim is the record, and outlives what is left of its request.
ClaimInv ==
    \A p \in Procs : Holds(p) =>
        /\ record # NULL /\ record.request_hash = body[p]
        /\ clock + PENDING_TTL <= record.expiresAt + elapsed[p]

OneHolder == \A p, q \in Procs : Holds(p) /\ Holds(q) => p = q

IInv == TypeInv /\ TimeInv /\ ClaimInv /\ OneHolder

-----------------------------------------------------------------------------
\* The record of a holder has not expired, at any time up to now.
LEMMA HeldIsLive ==
    ASSUME IInv, NEW p \in Procs, Holds(p)
    PROVE  record \in IdemRecord /\ \A at \in Nat : at <= clock => ~ is_expired(record, at)
  <1>1. record \in IdemRecord /\ record.expiresAt \in Nat
    BY DEF IInv, TypeInv, ClaimInv, IdemRecord
  <1>2. clock + PENDING_TTL <= record.expiresAt + elapsed[p]
    BY DEF IInv, ClaimInv
  <1>3. elapsed[p] <= Timeout /\ elapsed[p] \in Nat /\ clock \in Nat
    BY DEF IInv, TimeInv, TypeInv, Holds
  <1>4. clock < record.expiresAt
    BY <1>1, <1>2, <1>3, ConstantsAssumption, TimeoutAssumption
  <1> QED
    BY <1>1, <1>3, <1>4 DEF is_expired

\* A caller that finds the key free finds nobody holding it.
LEMMA FreeIsUnheld ==
    ASSUME IInv, NEW p \in Procs, pc[p] = "claiming", ~ Live(p)
    PROVE  \A q \in Procs : ~ Holds(q)
  <1>1. now[p] \in Nat /\ now[p] <= clock
    BY DEF IInv, TypeInv, TimeInv
  <1>2. record = NULL \/ is_expired(record, now[p])
    BY DEF Live
  <1>3. ASSUME NEW q \in Procs, Holds(q) PROVE FALSE
    <2>1. record # NULL
      BY <1>3 DEF IInv, ClaimInv
    <2> QED
      BY <1>1, <1>2, <1>3, <2>1, HeldIsLive
  <1> QED
    BY <1>3

\* The invariant holds initially.
LEMMA InitIInv == Init => IInv
  BY ConstantsAssumption DEF Init, IInv, TypeInv, TimeInv, ClaimInv, OneHolder, Holds

-----------------------------------------------------------------------------
\* A new record of p's request is a record.
LEMMA RecordType ==
    ASSUME NEW b \in Bodies, NEW s \in {"pending", "done"}, NEW at \in Nat
    PROVE  /\ Record(b, s, at) \in IdemRecord
           /\ Record(b, s, at) # NULL
           /\ Record(b, s, at).request_hash = b
           /\ Record(b, s, at).expiresAt = at
  BY ConstantsAssumption DEF Record, IdemRecord

\* A caller that leaves without touching the record preserves the invariant.
LEMMA LeaveIInv ==
    ASSUME IInv, NEW p \in Procs, Leave(p), UNCHANGED record
    PROVE  IInv'
  BY ConstantsAssumption DEF IInv, TypeInv, TimeInv, ClaimInv, OneHolder, Holds, Leave

\* A caller that leaves and writes the record preserves the invariant when
\* nobody else holds the key.
LEMMA LeaveWithRecord ==
    ASSUME IInv, NEW p \in Procs, Leave(p), record' \in IdemRecord,
           \A q \in Procs \ {p} : ~ Holds(q)
    PROVE  IInv'
  BY ConstantsAssumption DEF IInv, TypeInv, TimeInv, ClaimInv, OneHolder, Holds, Leave

\* Every step preserves the invariant.
LEMMA NextIInv == IInv /\ [Next]_vars => IInv'
  <1> SUFFICES ASSUME IInv, [Next]_vars PROVE IInv'
    OBVIOUS
  <1> USE ConstantsAssumption
  <1>1. ASSUME NEW p \in Procs, NEW b \in Bodies, Submit(p, b) PROVE IInv'
    BY <1>1 DEF IInv, TypeInv, TimeInv, ClaimInv, OneHolder, Holds, Submit, Enter
  <1>2. ASSUME NEW p \in Procs, Claim(p) PROVE IInv'
    <2>1. \A q \in Procs : ~ Holds(q)
      BY <1>2, FreeIsUnheld DEF Claim
    <2>2. body[p] \in Bodies /\ now[p] \in Nat /\ now[p] <= clock
          /\ clock <= now[p] + elapsed[p]
      BY <1>2 DEF IInv, TypeInv, TimeInv, Claim
    <2>3. /\ record' \in IdemRecord /\ record' # NULL
          /\ record'.request_hash = body[p]
          /\ record'.expiresAt = now[p] + PENDING_TTL
      BY <1>2, <2>2, RecordType DEF Claim, TakeKey
    <2>4. TypeInv'
      BY <1>2, <2>3 DEF IInv, TypeInv, Claim, Enter
    <2>5. TimeInv'
      BY <1>2, <2>2 DEF IInv, TypeInv, TimeInv, Claim, Enter
    <2>6. (\A q \in Procs : Holds(q) => q = p)'
      BY <1>2, <2>1 DEF IInv, TypeInv, Holds, Claim, Enter
    <2>7. ClaimInv'
      BY <1>2, <2>2, <2>3, <2>6 DEF IInv, TypeInv, ClaimInv, Claim, Enter
    <2> QED
      BY <2>4, <2>5, <2>6, <2>7 DEF IInv, OneHolder
  <1>3. ASSUME NEW p \in Procs, Answer(p) PROVE IInv'
    BY <1>3, LeaveIInv DEF Answer
  <1>4. ASSUME NEW p \in Procs, RunItem(p) PROVE IInv'
    BY <1>4 DEF IInv, TypeInv, TimeInv, ClaimInv, OneHolder, Holds, RunItem, Enter
  <1>5. ASSUME NEW p \in Procs, Complete(p) PROVE IInv'
    BY <1>5, LeaveWithRecord, RecordType
       DEF IInv, TypeInv, OneHolder, Holds, Complete, PutResult
  <1>6. ASSUME NEW p \in Procs, Abandon(p) PROVE IInv'
    BY <1>6, LeaveWithRecord, RecordType DEF IInv, TypeInv, OneHolder, Holds, Abandon
  <1>7. ASSUME NEW p \in Procs, Stop(p) PROVE IInv'
    BY <1>7, LeaveIInv DEF Stop
  <1>8. ASSUME NEW p \in Procs, StopAndOutlive(p) PROVE IInv'
    <2>1. Leave(p)
      BY <1>8 DEF StopAndOutlive
    <2>2. CASE pc[p] = "claiming" /\ ~ Live(p) /\ TakeKey(p)
      BY <2>1, <2>2, FreeIsUnheld, LeaveWithRecord, RecordType DEF IInv, TypeInv, TakeKey
    <2>3. CASE UNCHANGED record
      BY <2>1, <2>3, LeaveIInv
    <2>4. CASE pc[p] = "completing" /\ PutResult(p)
      BY <2>1, <2>4, LeaveWithRecord, RecordType
         DEF IInv, TypeInv, OneHolder, Holds, PutResult
    <2> QED
      BY <1>8, <2>2, <2>3, <2>4 DEF StopAndOutlive
  <1>9. ASSUME NEW at \in 0 .. clock, Reap(at) PROVE IInv'
    <2>1. at \in Nat /\ at <= clock
      BY DEF IInv, TypeInv
    <2>2. \A q \in Procs : ~ Holds(q)
      BY <1>9, <2>1, HeldIsLive DEF Reap
    <2> QED
      BY <1>9, <2>2 DEF IInv, TypeInv, TimeInv, ClaimInv, OneHolder, Holds, Reap, callers
  <1>10. CASE Tick
    BY <1>10 DEF IInv, TypeInv, TimeInv, ClaimInv, OneHolder, Holds, Tick, IdemRecord
  <1>11. CASE UNCHANGED vars
    BY <1>11 DEF IInv, TypeInv, TimeInv, ClaimInv, OneHolder, Holds, vars, callers
  <1> QED
    BY <1>1, <1>2, <1>3, <1>4, <1>5, <1>6, <1>7, <1>8, <1>9, <1>10, <1>11 DEF Next

\* The invariant of the batch claim.
THEOREM BatchInvariant == Spec => []IInv
  BY InitIInv, NextIInv, PTL DEF Spec

-----------------------------------------------------------------------------
\* "A replay that arrives while the first batch request is still running also
\* returns 409 instead of allocating twice" (README.md:1099): a claim lasts
\* longer than any request that holds it, so no two batches of the key run at
\* once.
THEOREM BatchRunsAlone == Spec => []RunsAlone
  <1>1. IInv => RunsAlone
    <2> SUFFICES ASSUME IInv PROVE RunsAlone
      OBVIOUS
    <2>1. \A p, q \in Running : p = q
      BY DEF IInv, OneHolder, Holds, Running
    <2>2. CASE Running = {}
      BY <2>2, FS_EmptySet DEF RunsAlone
    <2>3. CASE Running # {}
      <3>1. PICK p \in Running : TRUE
        BY <2>3
      <3>2. Running = {p}
        BY <2>1, <3>1
      <3> QED
        BY <3>2, FS_Singleton DEF RunsAlone
    <2> QED
      BY <2>2, <2>3
  <1> QED
    BY <1>1, BatchInvariant, PTL

\* "The key is bound to the first payload it saw" (src/ipam/idempotency.rs:13):
\* a live record is neither reaped nor taken by another request, and its own
\* batch completes it with its own request.
THEOREM BatchKeyBound == Spec => KeyBound
  <1> DEFINE Bound ==
        record # NULL /\ ~ is_expired(record, clock) =>
          record' # NULL /\ record'.request_hash = record.request_hash
  <1>1. IInv /\ [Next]_vars => [Bound]_vars
    <2> SUFFICES ASSUME IInv, Next, record # NULL, ~ is_expired(record, clock)
                 PROVE  record' # NULL /\ record'.request_hash = record.request_hash
      OBVIOUS
    <2>1. record.expiresAt \in Nat /\ clock \in Nat
      BY DEF IInv, TypeInv, IdemRecord
    <2>2. \A at \in Nat : at <= clock => ~ is_expired(record, at)
      BY <2>1 DEF is_expired
    <2>3. \A p \in Procs : pc[p] = "claiming" => Live(p)
      BY <2>2 DEF IInv, TypeInv, TimeInv, Live
    <2>4. ASSUME NEW p \in Procs, Holds(p), NEW s \in {"pending", "done"}, NEW at \in Nat,
                 record' = Record(body[p], s, at)
          PROVE  record' # NULL /\ record'.request_hash = record.request_hash
      BY <2>4, RecordType DEF IInv, TypeInv, ClaimInv, Holds
    <2>5. ASSUME NEW p \in Procs, Complete(p) \/ Abandon(p)
          PROVE  record' # NULL /\ record'.request_hash = record.request_hash
      BY <2>4, <2>5, ConstantsAssumption
         DEF IInv, TypeInv, Complete, PutResult, Abandon, Holds
    <2>6. ASSUME NEW p \in Procs, StopAndOutlive(p)
          PROVE  record' # NULL /\ record'.request_hash = record.request_hash
      BY <2>3, <2>4, <2>6, ConstantsAssumption
         DEF IInv, TypeInv, StopAndOutlive, PutResult, Holds
    <2>7. ASSUME NEW at \in 0 .. clock, Reap(at) PROVE FALSE
      BY <2>1, <2>2, <2>7 DEF Reap
    <2>8. ASSUME NEW p \in Procs, Claim(p) PROVE FALSE
      BY <2>3, <2>8 DEF Claim
    <2> QED
      BY <2>5, <2>6, <2>7, <2>8 DEF Next, Submit, Answer, RunItem, Stop, Tick
  <1> QED
    BY <1>1, BatchInvariant, PTL DEF Spec, KeyBound

-----------------------------------------------------------------------------
(* Items are not repeated.                                                  *)

\* Type correctness of the history.
CountsTyped ==
    /\ times \in [Bodies -> [1 .. Items -> Nat]] /\ lost \in Nat
    /\ next \in [Procs -> Nat]
    /\ \A p \in Procs : pc[p] = "running" => next[p] \in 1 .. Items

Done == record # NULL /\ record.status = "done"

\* The batch that runs, of body b, has item i behind it.
Past(p, b, i) ==
    body[p] = b /\ (pc[p] = "completing" \/ (pc[p] = "running" /\ next[p] > i))

\* An item was allocated as often as runs were lost, and in the batch that runs.
Paid(b, i) == times[b][i] <= lost \/ \E p \in Procs : Past(p, b, i)

\* Once a batch is done its result is there until TTL, and before that every
\* allocation is of a lost run or of the one that holds the key.
RepeatInv ==
    /\ CountsTyped
    /\ \A p \in Procs : Holds(p) => ~ Done
    /\ Done => record.expiresAt >= TTL
    /\ clock < TTL =>
          \A b \in Bodies : \A i \in 1 .. Items :
             times[b][i] <= 1 + lost /\ (~ Done => Paid(b, i))

\* What has been allocated when a batch begins, or where nobody holds the key.
LEMMA UnheldIsPaid ==
    ASSUME RepeatInv, clock < TTL, ~ Done, \A p \in Procs : ~ Holds(p)
    PROVE  \A b \in Bodies : \A i \in 1 .. Items : times[b][i] <= lost
  BY DEF RepeatInv, Paid, Past, Holds

\* A key that is free before TTL is not done.
LEMMA FreeIsUndone ==
    ASSUME IInv, RepeatInv, clock < TTL, NEW at \in Nat, at <= clock,
           record = NULL \/ is_expired(record, at)
    PROVE  ~ Done
  <1>1. Done => record.expiresAt \in Nat /\ record.expiresAt >= TTL
    BY DEF IInv, TypeInv, IdemRecord, RepeatInv, Done
  <1> QED
    BY <1>1, ConstantsAssumption DEF IInv, TypeInv, is_expired, Done

\* An item of the batch that runs, when it is at it.
LEMMA ItemIsNew ==
    ASSUME IInv, RepeatInv, clock < TTL, NEW p \in Procs, pc[p] = "running"
    PROVE  /\ body[p] \in Bodies /\ next[p] \in 1 .. Items /\ ~ Done
           /\ times[body[p]][next[p]] <= lost
  <1>1. body[p] \in Bodies /\ next[p] \in 1 .. Items /\ Holds(p)
    BY DEF IInv, TypeInv, RepeatInv, CountsTyped, Holds
  <1>2. ~ Done /\ Paid(body[p], next[p])
    BY <1>1 DEF RepeatInv
  <1>3. ASSUME NEW q \in Procs, Past(q, body[p], next[p]) PROVE FALSE
    <2>1. q = p
      BY <1>1, <1>3 DEF IInv, OneHolder, Holds, Past
    <2> QED
      BY <1>1, <1>3, <2>1 DEF Past
  <1> QED
    BY <1>1, <1>2, <1>3 DEF Paid

\* What an item adds.
LEMMA AllocateAdds ==
    ASSUME CountsTyped, NEW p \in Procs, body[p] \in Bodies, next[p] \in 1 .. Items,
           Allocate(p) \/ UNCHANGED times
    PROVE  /\ times' \in [Bodies -> [1 .. Items -> Nat]]
           /\ \A b \in Bodies : \A i \in 1 .. Items :
                 IF b = body[p] /\ i = next[p] THEN times'[b][i] <= times[b][i] + 1
                 ELSE times'[b][i] = times[b][i]
  <1>1. CASE UNCHANGED times
    <2>1. \A b \in Bodies : \A i \in 1 .. Items : times[b][i] \in Nat
      BY DEF CountsTyped
    <2> QED
      BY <1>1, <2>1 DEF CountsTyped
  <1>2. CASE Allocate(p)
    <2>1. times[body[p]] \in [1 .. Items -> Nat] /\ times[body[p]][next[p]] \in Nat
      BY DEF CountsTyped
    <2>2. times' = [times EXCEPT ![body[p]] =
                       [times[body[p]] EXCEPT ![next[p]] = times[body[p]][next[p]] + 1]]
      BY <1>2 DEF Allocate
    <2>3. [times[body[p]] EXCEPT ![next[p]] = times[body[p]][next[p]] + 1]
             \in [1 .. Items -> Nat]
      BY <2>1
    <2>4. times' \in [Bodies -> [1 .. Items -> Nat]]
      BY <2>2, <2>3 DEF CountsTyped
    <2>5. /\ \A b \in Bodies \ {body[p]} : times'[b] = times[b]
          /\ times'[body[p]] =
                [times[body[p]] EXCEPT ![next[p]] = times[body[p]][next[p]] + 1]
      BY <2>2 DEF CountsTyped
    <2>6. /\ times'[body[p]][next[p]] = times[body[p]][next[p]] + 1
          /\ \A i \in 1 .. Items : i # next[p] => times'[body[p]][i] = times[body[p]][i]
      BY <2>1, <2>5
    <2>7. ASSUME NEW b \in Bodies, NEW i \in 1 .. Items, ~ (b = body[p] /\ i = next[p])
          PROVE  times'[b][i] = times[b][i]
      <3>1. CASE b = body[p]
        BY <2>6, <2>7, <3>1
      <3>2. CASE b # body[p]
        BY <2>5, <3>2
      <3> QED
        BY <3>1, <3>2
    <2>8. times'[body[p]][next[p]] <= times[body[p]][next[p]] + 1
      BY <2>1, <2>6
    <2> QED
      BY <2>4, <2>7, <2>8
  <1> QED
    BY <1>1, <1>2

\* A caller that holds nothing leaves: everything is as paid as before.
LEMMA LeaveRepeats ==
    ASSUME IInv, RepeatInv, NEW p \in Procs, ~ Holds(p), Leave(p),
           UNCHANGED <<record, times, lost>>
    PROVE  RepeatInv'
  <1>1. /\ pc'[p] = "idle" /\ \A q \in Procs \ {p} : pc'[q] = pc[q] /\ next'[q] = next[q]
        /\ \A q \in Procs \ {p} : body'[q] = body[q]
        /\ next' \in [Procs -> Nat] /\ clock' = clock
    BY DEF Leave, IInv, TypeInv, RepeatInv, CountsTyped
  <1>2. \A q \in Procs : Holds(q)' <=> Holds(q)
    BY <1>1 DEF Holds
  <1>3. \A q \in Procs : \A b \in Bodies : \A i \in 1 .. Items : Past(q, b, i) => Past(q, b, i)'
    BY <1>1 DEF Past, Holds
  <1>4. \A b \in Bodies : \A i \in 1 .. Items : Paid(b, i) => Paid(b, i)'
    BY <1>3 DEF Paid
  <1> QED
    BY <1>1, <1>2, <1>4 DEF RepeatInv, CountsTyped, Done

\* The holder leaves, and its run is lost or its result is there.
LEMMA HolderLeaves ==
    ASSUME IInv, RepeatInv, NEW p \in Procs, Holds(p), Leave(p),
           times' \in [Bodies -> [1 .. Items -> Nat]], lost' \in Nat,
           Done' => record'.expiresAt >= TTL,
           clock < TTL => \A b \in Bodies : \A i \in 1 .. Items :
                             times'[b][i] <= 1 + lost' /\ (~ Done' => times'[b][i] <= lost')
    PROVE  RepeatInv'
  <1>1. /\ pc'[p] = "idle" /\ \A q \in Procs \ {p} : pc'[q] = pc[q]
        /\ next' \in [Procs -> Nat] /\ clock' = clock
    BY DEF Leave, IInv, TypeInv, RepeatInv, CountsTyped
  <1>2. \A q \in Procs : ~ Holds(q)'
    BY <1>1 DEF IInv, OneHolder, Holds
  <1>3. CountsTyped'
    BY <1>1, <1>2 DEF CountsTyped, Holds
  <1> QED
    BY <1>1, <1>2, <1>3 DEF RepeatInv, Paid

\* The history holds initially.
LEMMA InitRepeats == Init => RepeatInv
  BY ConstantsAssumption DEF Init, RepeatInv, CountsTyped, Done, Holds, Paid

\* A caller takes the key.
LEMMA TakeRepeats ==
    ASSUME IInv, RepeatInv, NEW p \in Procs, pc[p] = "claiming", ~ Live(p), TakeKey(p)
    PROVE  /\ ~ Done' /\ \A q \in Procs : ~ Holds(q)
           /\ clock < TTL => \A b \in Bodies : \A i \in 1 .. Items : times[b][i] <= lost
  <1>1. \A q \in Procs : ~ Holds(q)
    BY FreeIsUnheld
  <1>2. now[p] \in Nat /\ now[p] <= clock
    BY DEF IInv, TypeInv, TimeInv
  <1>3. clock < TTL => ~ Done
    BY <1>2, FreeIsUndone DEF Live
  <1>4. ~ Done'
    BY DEF TakeKey, Record, Done
  <1> QED
    BY <1>1, <1>3, <1>4, UnheldIsPaid

\* A batch begins.
LEMMA ClaimRepeats ==
    ASSUME IInv, RepeatInv, NEW p \in Procs, Claim(p)
    PROVE  RepeatInv'
  <1>1. /\ ~ Done' /\ \A q \in Procs : ~ Holds(q)
        /\ clock < TTL => \A b \in Bodies : \A i \in 1 .. Items : times[b][i] <= lost
    BY TakeRepeats DEF Claim
  <1>2. next' = [next EXCEPT ![p] = 1] /\ UNCHANGED <<clock, times, lost>>
    BY DEF Claim, Enter
  <1>3. CountsTyped'
    <2>1. \A q \in Procs : pc'[q] = "running" => q = p
      BY <1>1 DEF Claim, Enter, IInv, TypeInv, Holds
    <2> QED
      BY <1>2, <2>1, ConstantsAssumption DEF RepeatInv, CountsTyped
  <1>4. clock < TTL => \A b \in Bodies : \A i \in 1 .. Items :
           times'[b][i] <= 1 + lost' /\ times'[b][i] <= lost'
    <2>1. \A b \in Bodies : \A i \in 1 .. Items : times[b][i] \in Nat /\ lost \in Nat
      BY DEF RepeatInv, CountsTyped
    <2> QED
      BY <1>1, <1>2, <2>1
  <1> QED
    BY <1>1, <1>2, <1>3, <1>4 DEF RepeatInv, Paid

\* An item is behind the batch that runs.
LEMMA ItemRepeats ==
    ASSUME IInv, RepeatInv, NEW p \in Procs, RunItem(p)
    PROVE  RepeatInv'
  <1>1. pc[p] = "running" /\ UNCHANGED <<record, body, lost, clock>>
    BY DEF RunItem, Enter
  <1>2. body[p] \in Bodies /\ next[p] \in 1 .. Items /\ ~ Done /\ Holds(p) /\ lost \in Nat
    BY <1>1 DEF IInv, TypeInv, RepeatInv, CountsTyped, Holds
  <1>3. \/ next[p] = Items /\ pc'[p] = "completing" /\ next' = next
        \/ next[p] # Items /\ pc'[p] = "running" /\ next' = [next EXCEPT ![p] = next[p] + 1]
    BY DEF RunItem, Enter, IInv, TypeInv
  <1>4. \A q \in Procs \ {p} : pc'[q] = pc[q]
    BY DEF RunItem, Enter, IInv, TypeInv
  <1>5. next' \in [Procs -> Nat]
        /\ (pc'[p] = "running" => next'[p] = next[p] + 1 /\ next'[p] \in 1 .. Items)
        /\ \A q \in Procs \ {p} : next'[q] = next[q]
    BY <1>2, <1>3, ConstantsAssumption DEF RepeatInv, CountsTyped
  <1>6. /\ times' \in [Bodies -> [1 .. Items -> Nat]]
        /\ \A b \in Bodies : \A i \in 1 .. Items :
              IF b = body[p] /\ i = next[p] THEN times'[b][i] <= times[b][i] + 1
              ELSE times'[b][i] = times[b][i]
    BY <1>2, AllocateAdds DEF RunItem, RepeatInv
  <1>7. CountsTyped'
    BY <1>1, <1>4, <1>5, <1>6 DEF RepeatInv, CountsTyped
  <1>8. ASSUME NEW b \in Bodies, NEW i \in 1 .. Items, clock < TTL
        PROVE  times'[b][i] <= 1 + lost /\ Paid(b, i)'
    <2>1. times[b][i] \in Nat /\ times'[b][i] \in Nat
      BY <1>6 DEF RepeatInv, CountsTyped
    <2>2. CASE b = body[p] /\ i = next[p]
      <3>1. times[b][i] <= lost
        BY <1>1, <1>8, <2>2, ItemIsNew
      <3>2. times'[b][i] <= 1 + lost
        BY <1>2, <1>6, <2>1, <2>2, <3>1
      <3>3. Past(p, b, i)'
        BY <1>1, <1>2, <1>3, <1>5, <2>2 DEF Past
      <3> QED
        BY <3>2, <3>3 DEF Paid
    <2>3. CASE ~ (b = body[p] /\ i = next[p])
      <3>1. times'[b][i] = times[b][i]
        BY <1>6, <2>3
      <3>2. times[b][i] <= 1 + lost /\ Paid(b, i)
        BY <1>2, <1>8 DEF RepeatInv
      <3>3. ASSUME NEW q \in Procs, Past(q, b, i) PROVE Past(q, b, i)'
        <4>1. CASE q = p
          BY <1>1, <1>2, <1>3, <1>5, <3>3, <4>1 DEF Past
        <4>2. CASE q # p
          BY <1>1, <1>4, <1>5, <3>3, <4>2 DEF Past
        <4> QED
          BY <4>1, <4>2
      <3> QED
        BY <1>1, <3>1, <3>2, <3>3 DEF Paid
    <2> QED
      BY <2>2, <2>3
  <1>9. \A q \in Procs : Holds(q)' => Holds(q)
    BY <1>2, <1>4 DEF Holds
  <1> QED
    BY <1>1, <1>2, <1>7, <1>8, <1>9 DEF RepeatInv, Done

\* The holder leaves its result, or leaves it to the store.
LEMMA ResultRepeats ==
    ASSUME IInv, RepeatInv, NEW p \in Procs, pc[p] = "completing", PutResult(p), Leave(p),
           UNCHANGED <<times, lost>>
    PROVE  RepeatInv'
  <1>1. Holds(p) /\ body[p] \in Bodies /\ now[p] \in Nat /\ now[p] + TTL \in Nat
    BY ConstantsAssumption DEF Holds, IInv, TypeInv
  <1>2. Holds(p) /\ ~ Done
    BY <1>1 DEF RepeatInv
  <1>3. Done' /\ record'.expiresAt = now[p] + TTL
    BY <1>1, RecordType DEF PutResult, Record, Done
  <1>4. record'.expiresAt >= TTL
    BY <1>1, <1>3, ConstantsAssumption
  <1>5. times' \in [Bodies -> [1 .. Items -> Nat]] /\ lost' \in Nat
    BY DEF RepeatInv, CountsTyped
  <1>6. clock < TTL => \A b \in Bodies : \A i \in 1 .. Items : times'[b][i] <= 1 + lost'
    BY DEF RepeatInv
  <1> QED
    BY <1>1, <1>3, <1>4, <1>5, <1>6, HolderLeaves

\* The holder of a batch that never ran leaves.
LEMMA AbandonRepeats ==
    ASSUME IInv, RepeatInv, NEW p \in Procs, pc[p] = "abandoning", Leave(p), ~ Done',
           UNCHANGED <<times, lost>>
    PROVE  RepeatInv'
  <1>1. Holds(p) /\ ~ Done
    BY DEF Holds, RepeatInv
  <1>2. \A b \in Bodies : \A i \in 1 .. Items : ~ \E q \in Procs : Past(q, b, i)
    BY <1>1 DEF IInv, OneHolder, Holds, Past
  <1>3. times' \in [Bodies -> [1 .. Items -> Nat]] /\ lost' \in Nat
    BY DEF RepeatInv, CountsTyped
  <1>4. clock < TTL => \A b \in Bodies : \A i \in 1 .. Items :
           times'[b][i] <= 1 + lost' /\ times'[b][i] <= lost'
    BY <1>1, <1>2 DEF RepeatInv, Paid
  <1> QED
    BY <1>1, <1>3, <1>4, HolderLeaves

\* A caller stops, and leaves a claim it made.
LEMMA StopRepeats ==
    ASSUME IInv, RepeatInv, NEW p \in Procs, Stop(p)
    PROVE  RepeatInv'
  <1>1. Leave(p) /\ UNCHANGED <<record, times>> /\ (Done' <=> Done)
    BY DEF Stop, Done
  <1>2. CASE pc[p] \in {"running", "completing"}
    <2>1. Holds(p) /\ ~ Done /\ lost' = lost + 1 /\ lost \in Nat
      BY <1>2 DEF Stop, Holds, RepeatInv, CountsTyped
    <2>2. times' \in [Bodies -> [1 .. Items -> Nat]] /\ lost' \in Nat
      BY <1>1, <2>1 DEF RepeatInv, CountsTyped
    <2>3. clock < TTL => \A b \in Bodies : \A i \in 1 .. Items : times[b][i] <= 1 + lost
      BY DEF RepeatInv
    <2>4. \A b \in Bodies : \A i \in 1 .. Items : times[b][i] \in Nat
      BY DEF RepeatInv, CountsTyped
    <2>5. clock < TTL => \A b \in Bodies : \A i \in 1 .. Items :
             times'[b][i] <= 1 + lost' /\ times'[b][i] <= lost'
      BY <1>1, <2>1, <2>3, <2>4
    <2>6. ~ Done'
      BY <1>1, <2>1
    <2> QED
      BY <1>1, <2>1, <2>2, <2>5, <2>6, HolderLeaves
  <1>3. CASE pc[p] = "abandoning"
    <2>1. ~ Done /\ lost' = lost
      BY <1>3 DEF Holds, RepeatInv, Stop
    <2> QED
      BY <1>1, <1>3, <2>1, AbandonRepeats
  <1>4. CASE pc[p] = "claiming"
    BY <1>1, <1>4, LeaveRepeats DEF Stop, Holds
  <1> QED
    BY <1>2, <1>3, <1>4 DEF Stop, IInv, TypeInv

\* A key's unit outlives the request that began it.
LEMMA OutliveRepeats ==
    ASSUME IInv, RepeatInv, NEW p \in Procs, StopAndOutlive(p)
    PROVE  RepeatInv'
  <1>1. Leave(p)
    BY DEF StopAndOutlive
  <1>2. clock \in Nat /\ lost \in Nat /\ times \in [Bodies -> [1 .. Items -> Nat]]
    BY DEF IInv, TypeInv, RepeatInv, CountsTyped
  <1>3. CASE pc[p] = "claiming" /\ ~ Live(p) /\ TakeKey(p) /\ UNCHANGED <<times, lost>>
    <2>1. /\ ~ Done' /\ \A q \in Procs : ~ Holds(q)
          /\ clock < TTL => \A b \in Bodies : \A i \in 1 .. Items : times[b][i] <= lost
      BY <1>3, TakeRepeats
    <2>2. /\ pc'[p] = "idle" /\ \A q \in Procs \ {p} : pc'[q] = pc[q]
          /\ next' \in [Procs -> Nat] /\ clock' = clock
      BY <1>1 DEF Leave, IInv, TypeInv, RepeatInv, CountsTyped
    <2>3. \A q \in Procs : ~ Holds(q)'
      BY <2>1, <2>2 DEF Holds
    <2>4. CountsTyped'
      BY <1>2, <1>3, <2>2, <2>3 DEF CountsTyped, Holds
    <2>5. \A b \in Bodies : \A i \in 1 .. Items : times[b][i] \in Nat
      BY <1>2
    <2>6. clock' < TTL => \A b \in Bodies : \A i \in 1 .. Items :
             times'[b][i] <= 1 + lost' /\ times'[b][i] <= lost'
      BY <1>2, <1>3, <2>1, <2>2, <2>5
    <2> QED
      BY <2>1, <2>3, <2>4, <2>6 DEF RepeatInv, Paid
  <1>4. CASE /\ pc[p] = "running" /\ lost < MaxLost
             /\ Allocate(p) /\ lost' = lost + 1 /\ UNCHANGED record
    <2>1. body[p] \in Bodies /\ next[p] \in 1 .. Items /\ ~ Done /\ Holds(p)
      BY <1>4 DEF IInv, TypeInv, RepeatInv, CountsTyped, Holds
    <2>2. /\ times' \in [Bodies -> [1 .. Items -> Nat]]
          /\ \A b \in Bodies : \A i \in 1 .. Items :
                IF b = body[p] /\ i = next[p] THEN times'[b][i] <= times[b][i] + 1
                ELSE times'[b][i] = times[b][i]
      BY <1>4, <2>1, AllocateAdds DEF RepeatInv
    <2>3. ASSUME NEW b \in Bodies, NEW i \in 1 .. Items, clock < TTL
          PROVE  times'[b][i] <= 1 + lost' /\ times'[b][i] <= lost'
      <3>1. times[b][i] \in Nat /\ times'[b][i] \in Nat
        BY <1>2, <2>2
      <3>2. CASE b = body[p] /\ i = next[p]
        BY <1>2, <1>4, <2>2, <2>3, <3>1, <3>2, ItemIsNew
      <3>3. CASE ~ (b = body[p] /\ i = next[p])
        BY <1>2, <1>4, <2>2, <2>3, <3>1, <3>3 DEF RepeatInv
      <3> QED
        BY <3>2, <3>3
    <2>4. ~ Done'
      BY <1>4, <2>1 DEF Done
    <2>5. lost' \in Nat
      BY <1>2, <1>4
    <2> QED
      BY <1>1, <2>1, <2>2, <2>3, <2>4, <2>5, HolderLeaves
  <1>5. CASE pc[p] = "completing" /\ PutResult(p) /\ UNCHANGED <<times, lost>>
    BY <1>1, <1>5, ResultRepeats DEF Holds
  <1> QED
    BY <1>3, <1>4, <1>5 DEF StopAndOutlive

\* The sweep leaves what is done before TTL.
LEMMA ReapRepeats ==
    ASSUME IInv, RepeatInv, NEW at \in 0 .. clock, Reap(at)
    PROVE  RepeatInv'
  <1>1. at \in Nat /\ at <= clock /\ is_expired(record, at)
    BY DEF IInv, TypeInv, Reap
  <1>2. clock < TTL => ~ Done
    BY <1>1, FreeIsUndone
  <1>3. ~ Done' /\ UNCHANGED <<clock, pc, body, next, times, lost>>
    BY DEF Reap, Done, callers
  <1> QED
    BY <1>2, <1>3 DEF RepeatInv, CountsTyped, Holds, Paid, Past

\* Every step keeps the history.
LEMMA NextRepeats == IInv /\ RepeatInv /\ [Next]_vars => RepeatInv'
  <1> SUFFICES ASSUME IInv, RepeatInv, [Next]_vars PROVE RepeatInv'
    OBVIOUS
  <1>1. ASSUME NEW p \in Procs, NEW b \in Bodies, Submit(p, b) PROVE RepeatInv'
    <2>1. /\ pc[p] = "idle" /\ pc'[p] = "claiming"
          /\ \A q \in Procs \ {p} : pc'[q] = pc[q] /\ body'[q] = body[q]
          /\ UNCHANGED <<record, next, times, lost, clock>>
      BY <1>1 DEF Submit, Enter, IInv, TypeInv
    <2>2. \A q \in Procs : Holds(q)' <=> Holds(q)
      BY <2>1 DEF Holds
    <2>3. \A q \in Procs : \A c \in Bodies : \A i \in 1 .. Items :
             Past(q, c, i) => Past(q, c, i)'
      BY <2>1 DEF Past
    <2>4. \A c \in Bodies : \A i \in 1 .. Items : Paid(c, i) => Paid(c, i)'
      BY <2>1, <2>3 DEF Paid
    <2> QED
      BY <2>1, <2>2, <2>4 DEF RepeatInv, CountsTyped, Done
  <1>2. ASSUME NEW p \in Procs, Answer(p) PROVE RepeatInv'
    BY <1>2, LeaveRepeats DEF Answer, Holds
  <1>3. ASSUME NEW p \in Procs, Complete(p) PROVE RepeatInv'
    BY <1>3, ResultRepeats DEF Complete, Holds
  <1>4. ASSUME NEW p \in Procs, Abandon(p) PROVE RepeatInv'
    <2>1. ~ Done' /\ Leave(p) /\ UNCHANGED <<times, lost>>
      BY <1>4 DEF Abandon, Record, Done
    <2> QED
      BY <1>4, <2>1, AbandonRepeats DEF Abandon
  <1>5. ASSUME NEW p \in Procs, Stop(p) PROVE RepeatInv'
    BY <1>5, StopRepeats
  <1>6. CASE Tick
    <2>1. UNCHANGED <<record, pc, body, next, times, lost>>
      BY <1>6 DEF Tick
    <2>2. clock' < TTL => clock < TTL
      BY <1>6, ConstantsAssumption DEF Tick, IInv, TypeInv
    <2>3. (Done' <=> Done) /\ (CountsTyped' <=> CountsTyped)
      BY <2>1 DEF Done, CountsTyped
    <2>4. \A b \in Bodies : \A i \in 1 .. Items : Paid(b, i)' <=> Paid(b, i)
      BY <2>1 DEF Paid, Past
    <2>5. \A p \in Procs : Holds(p)' <=> Holds(p)
      BY <2>1 DEF Holds
    <2> QED
      BY <2>1, <2>2, <2>3, <2>4, <2>5 DEF RepeatInv
  <1>7. CASE UNCHANGED vars
    BY <1>7 DEF RepeatInv, CountsTyped, Done, Holds, Paid, Past, vars, callers
  <1> QED
    BY <1>1, <1>2, <1>3, <1>4, <1>5, <1>6, <1>7, ClaimRepeats, ItemRepeats,
       OutliveRepeats, ReapRepeats DEF Next

\* Nothing is allocated twice but by lost runs, while no result has expired.
THEOREM BatchHistory == Spec => [](IInv /\ RepeatInv)
  BY InitIInv, NextIInv, InitRepeats, NextRepeats, PTL DEF Spec

\* "Side effects run exactly once" (src/ipam/idempotency.rs:12), as far as no
\* run is lost: until a result can have been stored for TTL, no item of a
\* request is allocated again but for a lost run.  After that the key is free
\* again by design, and the request is a new one.
THEOREM BatchRepeatsOnlyLost == Spec => [](clock < TTL => RepeatsOnlyLost)
  <1>1. RepeatInv => (clock < TTL => RepeatsOnlyLost)
    BY DEF RepeatInv, RepeatsOnlyLost
  <1> QED
    BY <1>1, BatchHistory, PTL
=============================================================================
