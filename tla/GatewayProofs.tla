--------------------------- MODULE GatewayProofs ---------------------------
(***************************************************************************)
(* For any calls, any number of tries and any loss of requests, replies and *)
(* handlers: under an Idempotency-Key no part of a call is done twice, and  *)
(* what a caller is told of a call is what happened.                       *)
(***************************************************************************)
EXTENDS Gateway, FiniteSetTheorems, TLAPS

Tries == 1 .. MaxTries
Runs == [at : Nat \ {0}, count : Nat]

\* Type correctness of what the proof speaks of.
TypeInv ==
    /\ phase \in {"ready", "waiting", "over"}
    /\ tries \in 0 .. MaxTries
    /\ wire \subseteq 1 .. tries
    /\ runs \in [Tries -> Runs \cup {NULL}]
    /\ late \subseteq [try : Tries, at : Nat \ {0}, count : Nat]
    /\ record \in Nat \cup {PENDING, NULL}
    /\ done \subseteq [try : Tries, at : Nat \ {0}, sure : BOOLEAN]

\* Nothing has been done for a try but on its way.
LateOf(t) == \E s \in late : s.try = t
DoneOf(t) == \E e \in done : e.try = t
Untouched(t) == runs[t] = NULL /\ ~LateOf(t) /\ ~DoneOf(t)

\* A try is handled once; only callers of HTTP have more than one.
TriesInv ==
    /\ \A t \in Tries : t > tries \/ t \in wire => Untouched(t)
    /\ \A t \in Tries : runs[t] # NULL =>
          /\ ~LateOf(t)
          /\ Claims /\ At(t) <= 2 => ~DoneOf(t)
    /\ phase = "ready" /\ call.ask.via # "http" => tries = 0

\* A try that has claimed the key, or whose claim is behind it.
Claimed(t) ==
    \/ runs[t] # NULL /\ At(t) >= 2
    \/ \E s \in late : s.try = t /\ s.at >= 2
    \/ DoneOf(t)

\* One try claims, and nobody takes its claim away.
ClaimInv ==
    Claims =>
        /\ \A t, u \in Tries : Claimed(t) /\ Claimed(u) => t = u
        /\ \A t \in Tries : Claimed(t) => record # NULL

\* A unit that has committed has left its record, and no other has committed.
UnitInv ==
    Keyed /\ ~Claims =>
        /\ done # {} => record # NULL
        /\ \A e, f \in done : e = f

IInv == TypeInv /\ TriesInv /\ ClaimInv /\ UnitInv

-----------------------------------------------------------------------------
\* A batch that claims begins with that.
LEMMA ClaimFirst == Claims => Steps[1] = "Claim"
  <1> SUFFICES ASSUME Claims PROVE Steps[1] = "Claim"
    OBVIOUS
  <1>1. Program("batch_allocate") = <<"AllocateAuto", "AllocateAuto">>
    <2>1. "batch_allocate" \in DOMAIN Programs
      BY DEF Programs
    <2>2. Programs["batch_allocate"] = <<"AllocateAuto", "AllocateAuto">>
      BY DEF Programs
    <2> QED
      BY <2>1, <2>2 DEF Program
  <1>2. Steps = <<"Claim">> \o <<"AllocateAuto", "AllocateAuto">> \o <<"Complete">>
    BY <1>1 DEF Claims, Steps
  <1> QED
    BY <1>2

\* A step does not change what is asked.
LEMMA SameCall ==
    ASSUME call' = call
    PROVE  /\ Keyed' <=> Keyed
           /\ Claims' <=> Claims
           /\ Steps' = Steps
  BY DEF Keyed, Claims, Served, Steps

\* The invariant holds initially.
LEMMA InitIInv == Init => IInv
  <1> SUFFICES ASSUME Init PROVE IInv
    OBVIOUS
  <1> USE NullAssumption, BoundsAssumption
  <1>1. TypeInv
    BY DEF Init, TypeInv, Tries
  <1>2. \A t \in Tries : Untouched(t) /\ ~Claimed(t)
    BY DEF Init, Untouched, LateOf, DoneOf, Claimed, Tries
  <1>3. TriesInv
    BY <1>2 DEF Init, TriesInv, Untouched
  <1>4. ClaimInv /\ UnitInv
    BY <1>2 DEF Init, ClaimInv, UnitInv
  <1> QED
    BY <1>1, <1>3, <1>4 DEF IInv

-----------------------------------------------------------------------------
\* The steps of callers and the network touch nothing of the server: a request
\* is on its way before it is handled.
LEMMA NetworkStep ==
    ASSUME IInv, call' = call, UNCHANGED server,
           phase' \in {"ready", "waiting", "over"}, tries' \in 0 .. MaxTries, tries <= tries',
           wire' \subseteq wire \cup (tries + 1 .. tries'),
           phase' = "ready" /\ call.ask.via # "http" => tries' = 0
    PROVE  IInv'
  <1>1. (Keyed' <=> Keyed) /\ (Claims' <=> Claims)
    BY SameCall
  <1>2. TypeInv'
    BY DEF IInv, TypeInv, server
  <1>3. \A t \in Tries : /\ Untouched(t)' <=> Untouched(t)
                         /\ LateOf(t)' <=> LateOf(t)
                         /\ DoneOf(t)' <=> DoneOf(t)
                         /\ At(t)' = At(t)
                         /\ runs'[t] = runs[t]
                         /\ Claimed(t)' <=> Claimed(t)
    BY DEF Untouched, LateOf, DoneOf, At, Claimed, server
  <1>4. \A t \in Tries : t > tries' \/ t \in wire' => t > tries \/ t \in wire
    BY BoundsAssumption DEF IInv, TypeInv, Tries
  <1>5. TriesInv'
    BY <1>1, <1>3, <1>4 DEF IInv, TriesInv
  <1>6. ClaimInv' /\ UnitInv'
    BY <1>1, <1>3 DEF IInv, ClaimInv, UnitInv, server
  <1> QED
    BY <1>2, <1>5, <1>6 DEF IInv

\* A step of the handler of one try leaves the others what they are.
LEMMA HandlerStep ==
    ASSUME IInv, call' = call, TypeInv', UnitInv', NEW t \in Tries,
           tries <= tries', t <= tries', wire' \subseteq wire, t \notin wire',
           phase' = "ready" /\ call.ask.via # "http" => tries' = 0,
           \A u \in Tries \ {t} :
              /\ runs'[u] = runs[u] /\ (LateOf(u)' <=> LateOf(u)) /\ (DoneOf(u)' <=> DoneOf(u))
              /\ Claimed(u)' <=> Claimed(u),
           runs'[t] # NULL => ~LateOf(t)' /\ (Claims /\ At(t)' <= 2 => ~DoneOf(t)'),
           Claims /\ Claimed(t)' => (Claimed(t) \/ record = NULL) /\ record' # NULL,
           Claims /\ record' = NULL => record = NULL \/ (Claimed(t) /\ ~Claimed(t)')
    PROVE  IInv'
  <1>1. (Keyed' <=> Keyed) /\ (Claims' <=> Claims)
    BY SameCall
  <1>2. \A u \in Tries : u > tries' \/ u \in wire' => u # t /\ (u > tries \/ u \in wire)
    BY BoundsAssumption DEF IInv, TypeInv, Tries
  <1>3. \A u \in Tries \ {t} : (Untouched(u)' <=> Untouched(u)) /\ At(u)' = At(u)
    BY DEF Untouched, At
  <1>4. TriesInv'
    <2>1. ASSUME NEW u \in Tries, u > tries' \/ u \in wire' PROVE Untouched(u)'
      BY <1>2, <1>3, <2>1 DEF IInv, TriesInv
    <2>2. ASSUME NEW u \in Tries, runs'[u] # NULL
          PROVE  ~LateOf(u)' /\ (Claims /\ At(u)' <= 2 => ~DoneOf(u)')
      BY <1>3, <2>2 DEF IInv, TriesInv
    <2> QED
      BY <1>1, <2>1, <2>2 DEF TriesInv
  <1>5. ClaimInv'
    <2> SUFFICES ASSUME Claims
                 PROVE  /\ \A u, v \in Tries : Claimed(u)' /\ Claimed(v)' => u = v
                        /\ \A u \in Tries : Claimed(u)' => record' # NULL
      BY <1>1 DEF ClaimInv
    <2>1. /\ \A u, v \in Tries : Claimed(u) /\ Claimed(v) => u = v
          /\ \A u \in Tries : Claimed(u) => record # NULL
      BY DEF IInv, ClaimInv
    <2> QED
      BY <2>1
  <1> QED
    BY <1>4, <1>5 DEF IInv

\* A try that is handled is under way no more.
LEMMA HandledOnce ==
    ASSUME IInv, NEW t \in Tries, runs[t] # NULL
    PROVE  /\ t <= tries /\ t \notin wire /\ ~LateOf(t)
           /\ Claims /\ At(t) <= 2 => ~DoneOf(t)
           /\ runs[t] \in Runs
  <1>1. ~(t > tries) /\ t \notin wire
    BY DEF IInv, TriesInv, Untouched
  <1> QED
    BY <1>1, BoundsAssumption DEF IInv, TriesInv, TypeInv, Tries

\* A handler that ends, with no more done.
LEMMA FinishStep ==
    ASSUME IInv, NEW t \in Tries, runs[t] # NULL, runs' = [runs EXCEPT ![t] = NULL],
           UNCHANGED <<call, phase, tries, wire, late, done>>,
           record' \in Nat \cup {PENDING, NULL}, record # NULL => record' # NULL
    PROVE  IInv'
  <1>1. TypeInv'
    BY DEF IInv, TypeInv
  <1>2. UnitInv'
    <2>1. (Keyed' <=> Keyed) /\ (Claims' <=> Claims)
      BY SameCall
    <2> QED
      BY <2>1 DEF IInv, UnitInv
  <1>3. runs'[t] = NULL /\ \A u \in Tries \ {t} : runs'[u] = runs[u]
    BY DEF IInv, TypeInv
  <1>4. \A u \in Tries : (LateOf(u)' <=> LateOf(u)) /\ (DoneOf(u)' <=> DoneOf(u))
    BY DEF LateOf, DoneOf
  <1>5. \A u \in Tries \ {t} : Claimed(u)' <=> Claimed(u)
    BY <1>3, <1>4 DEF Claimed, At
  <1>6. Claimed(t)' => Claimed(t)
    BY <1>3, <1>4 DEF Claimed
  <1>7. Claims /\ Claimed(t) => record # NULL
    BY DEF IInv, ClaimInv
  <1>8. t <= tries /\ t \notin wire
    BY HandledOnce
  <1>9. tries \in Nat /\ (phase = "ready" /\ call.ask.via # "http" => tries = 0)
    BY BoundsAssumption DEF IInv, TypeInv, TriesInv
  <1> QED
    BY <1>1, <1>2, <1>3, <1>4, <1>5, <1>6, <1>7, <1>8, <1>9, HandlerStep

\* A handler that goes on, with no more done: past the claim only by claiming.
LEMMA AdvanceStep ==
    ASSUME IInv, NEW t \in Tries, runs[t] # NULL, NEW gained \in Nat, Advance(t, gained),
           UNCHANGED <<call, phase, tries, wire, late, done>>,
           record' \in Nat \cup {PENDING, NULL}, record # NULL => record' # NULL,
           Claims /\ At(t) = 1 => record = NULL /\ record' # NULL
    PROVE  IInv'
  <1>1. runs[t] \in Runs /\ t <= tries /\ t \notin wire
        /\ ~LateOf(t) /\ (Claims /\ At(t) <= 2 => ~DoneOf(t))
    BY HandledOnce
  <1>2. Running(runs[t].at + 1, runs[t].count + gained) \in Runs
        /\ Running(runs[t].at + 1, runs[t].count + gained).at = runs[t].at + 1
    BY <1>1 DEF Running, Runs
  <1>3. /\ runs' \in [Tries -> Runs \cup {NULL}]
        /\ runs'[t] = Running(runs[t].at + 1, runs[t].count + gained)
        /\ \A u \in Tries \ {t} : runs'[u] = runs[u]
    BY <1>2 DEF IInv, TypeInv, Advance
  <1>4. At(t)' = At(t) + 1 /\ At(t) \in Nat \ {0}
    BY <1>1, <1>2, <1>3 DEF At, Runs
  <1>5. TypeInv'
    BY <1>3 DEF IInv, TypeInv
  <1>6. UnitInv'
    <2>1. (Keyed' <=> Keyed) /\ (Claims' <=> Claims)
      BY SameCall
    <2> QED
      BY <2>1 DEF IInv, UnitInv
  <1>7. \A u \in Tries : (LateOf(u)' <=> LateOf(u)) /\ (DoneOf(u)' <=> DoneOf(u))
    BY DEF LateOf, DoneOf
  <1>8. \A u \in Tries \ {t} : Claimed(u)' <=> Claimed(u)
    BY <1>3, <1>7 DEF Claimed, At
  <1>9. Claims => (Claimed(t) \/ (record = NULL /\ At(t) = 1))
    <2>1. At(t) >= 2 => Claimed(t)
      BY DEF Claimed
    <2>2. CASE At(t) >= 2
      BY <2>1, <2>2
    <2>3. CASE At(t) = 1
      BY <2>3
    <2> QED
      BY <1>4, <2>2, <2>3
  <1>10. Claims /\ Claimed(t) => record # NULL
    BY DEF IInv, ClaimInv
  <1>11. Claims => record' # NULL
    BY <1>9, <1>10
  <1>12. tries \in Nat /\ (phase = "ready" /\ call.ask.via # "http" => tries = 0)
    BY BoundsAssumption DEF IInv, TypeInv, TriesInv
  <1>13. Claims /\ At(t)' <= 2 => ~DoneOf(t)'
    BY <1>1, <1>4, <1>7
  <1> QED
    BY <1>1, <1>3, <1>5, <1>6, <1>7, <1>8, <1>9, <1>11, <1>12, <1>13, HandlerStep

\* A unit takes effect: with a key that its batch has not claimed, leaving the
\* record, and only when none was there.
LEMMA EffectUnit ==
    ASSUME IInv, call' = call, NEW e, done' = done \cup {e}, ~Replays(record),
           record' = IF Keyed /\ ~Claims THEN 1 ELSE record
    PROVE  UnitInv'
  <1>1. (Keyed' <=> Keyed) /\ (Claims' <=> Claims)
    BY SameCall
  <1>2. Keyed /\ ~Claims => done = {}
    BY DEF IInv, UnitInv, Replays
  <1>3. 1 # NULL
    BY NullAssumption
  <1> QED
    BY <1>1, <1>2, <1>3 DEF UnitInv

\* The unit of a handler takes effect, and the handler goes on or ends.
LEMMA EffectStep ==
    ASSUME IInv, NEW t \in Tries, runs[t] # NULL, NEW sure \in BOOLEAN,
           IsUnit(At(t)), ~Replays(record),
           done' = done \cup {Effect(t, At(t), sure)},
           record' = IF Keyed /\ ~Claims THEN 1 ELSE record,
           runs' = [runs EXCEPT ![t] = NULL] \/ \E gained \in Nat : Advance(t, gained),
           UNCHANGED <<call, phase, tries, wire, late>>
    PROVE  IInv'
  <1>1. runs[t] \in Runs /\ t <= tries /\ t \notin wire /\ ~LateOf(t)
    BY HandledOnce
  <1>2. At(t) \in Nat \ {0}
    BY <1>1 DEF At, Runs
  <1>3. /\ runs' \in [Tries -> Runs \cup {NULL}]
        /\ runs'[t] # NULL => runs'[t].at = runs[t].at + 1
        /\ \A u \in Tries \ {t} : runs'[u] = runs[u]
    <2>1. CASE runs' = [runs EXCEPT ![t] = NULL]
      BY <2>1 DEF IInv, TypeInv
    <2>2. ASSUME NEW gained \in Nat, Advance(t, gained)
          PROVE  /\ runs' \in [Tries -> Runs \cup {NULL}]
                 /\ runs'[t].at = runs[t].at + 1
                 /\ \A u \in Tries \ {t} : runs'[u] = runs[u]
      <3>1. Running(runs[t].at + 1, runs[t].count + gained) \in Runs
            /\ Running(runs[t].at + 1, runs[t].count + gained).at = runs[t].at + 1
        BY <1>1 DEF Running, Runs
      <3> QED
        BY <2>2, <3>1 DEF IInv, TypeInv, Advance
    <2> QED
      BY <2>1, <2>2
  <1>4. Effect(t, At(t), sure) \in [try : Tries, at : Nat \ {0}, sure : BOOLEAN]
        /\ Effect(t, At(t), sure).try = t
    BY <1>2 DEF Effect
  <1>5. TypeInv'
    BY <1>3, <1>4 DEF IInv, TypeInv
  <1>6. UnitInv'
    BY EffectUnit
  <1>7. \A u \in Tries : LateOf(u)' <=> LateOf(u)
    BY DEF LateOf
  <1>8. \A u \in Tries \ {t} : DoneOf(u)' <=> DoneOf(u)
    BY <1>4 DEF DoneOf
  <1>9. \A u \in Tries \ {t} : Claimed(u)' <=> Claimed(u)
    BY <1>3, <1>8 DEF Claimed, At
  <1>10. Claims => At(t) >= 2 /\ Claimed(t)
    <2>1. Claims => At(t) # 1
      BY ClaimFirst DEF IsUnit
    <2>2. Claims => At(t) >= 2
      BY <1>2, <2>1
    <2> QED
      BY <2>2 DEF Claimed
  <1>11. Claims => record # NULL /\ record' # NULL
    BY <1>10 DEF IInv, ClaimInv
  <1>12. tries \in Nat /\ (phase = "ready" /\ call.ask.via # "http" => tries = 0)
    BY BoundsAssumption DEF IInv, TypeInv, TriesInv
  <1>13. runs'[t] # NULL => ~LateOf(t)' /\ (Claims /\ At(t)' <= 2 => ~DoneOf(t)')
    <2>1. runs'[t] # NULL => At(t)' = At(t) + 1
      BY <1>3 DEF At
    <2> QED
      BY <1>1, <1>2, <1>7, <1>10, <2>1
  <1> QED
    BY <1>1, <1>3, <1>5, <1>6, <1>7, <1>8, <1>9, <1>10, <1>11, <1>12, <1>13, HandlerStep

\* A handler is dropped: what goes on is at the step it was at.
LEMMA DroppedStep ==
    ASSUME IInv, NEW t \in Tries, Dropped(t), call' = call, tries' = tries, wire' = wire,
           UNCHANGED <<record, done>>, phase' \in {phase, "over"}
    PROVE  IInv'
  <1>1. runs[t] # NULL /\ runs' = [runs EXCEPT ![t] = NULL]
    BY DEF Dropped
  <1>2. runs[t] \in Runs /\ t <= tries /\ t \notin wire
    BY <1>1, HandledOnce
  <1> DEFINE left == [try |-> t, at |-> At(t), count |-> runs[t].count]
  <1>3. left \in [try : Tries, at : Nat \ {0}, count : Nat] /\ left.try = t /\ left.at = At(t)
    BY <1>2 DEF At, Runs
  <1>4. late' = late \/ late' = late \cup {left}
    BY DEF Dropped
  <1> HIDE DEF left
  <1>5. runs'[t] = NULL /\ \A u \in Tries \ {t} : runs'[u] = runs[u]
    BY <1>1 DEF IInv, TypeInv
  <1>6. TypeInv'
    BY <1>1, <1>3, <1>4 DEF IInv, TypeInv
  <1>7. UnitInv'
    <2>1. (Keyed' <=> Keyed) /\ (Claims' <=> Claims)
      BY SameCall
    <2> QED
      BY <2>1 DEF IInv, UnitInv
  <1>8. \A u \in Tries : DoneOf(u)' <=> DoneOf(u)
    BY DEF DoneOf
  <1>9. \A u \in Tries \ {t} : LateOf(u)' <=> LateOf(u)
    BY <1>3, <1>4 DEF LateOf
  <1>10. \A u \in Tries \ {t} : Claimed(u)' <=> Claimed(u)
    BY <1>3, <1>4, <1>5, <1>8 DEF Claimed, At
  <1>11. Claimed(t)' => Claimed(t)
    BY <1>1, <1>3, <1>4, <1>5, <1>8 DEF Claimed
  <1>12. Claims /\ Claimed(t) => record # NULL
    BY DEF IInv, ClaimInv
  <1>13. tries \in Nat /\ (phase = "ready" /\ call.ask.via # "http" => tries = 0)
    BY BoundsAssumption DEF IInv, TypeInv, TriesInv
  <1> QED
    BY <1>2, <1>5, <1>6, <1>7, <1>8, <1>9, <1>10, <1>11, <1>12, <1>13, HandlerStep

\* A batch with too many items gives its claim up before it has done any.
LEMMA TooManyStep ==
    ASSUME IInv, NEW t \in Tries, TooMany(t)
    PROVE  IInv'
  <1>1. /\ runs[t] # NULL /\ runs' = [runs EXCEPT ![t] = NULL]
        /\ UNCHANGED <<call, phase, tries, wire, late, done>>
        /\ At(t) = (IF Claims THEN 2 ELSE 1)
        /\ record' \in IF Claims THEN {NULL, record} ELSE {record}
    BY DEF TooMany, Doing, Finish, caller
  <1>2. CASE record' = record
    BY <1>1, <1>2, FinishStep DEF IInv, TypeInv
  <1>3. CASE record' = NULL /\ Claims
    <2>1. t <= tries /\ t \notin wire /\ ~LateOf(t) /\ ~DoneOf(t) /\ Claimed(t)
      BY <1>1, <1>3, HandledOnce DEF Claimed
    <2>2. runs'[t] = NULL /\ \A u \in Tries \ {t} : runs'[u] = runs[u]
      BY <1>1 DEF IInv, TypeInv
    <2>3. TypeInv'
      BY <1>1, <1>3 DEF IInv, TypeInv
    <2>4. UnitInv'
      BY <1>1, <1>3, SameCall DEF UnitInv
    <2>5. \A u \in Tries : (LateOf(u)' <=> LateOf(u)) /\ (DoneOf(u)' <=> DoneOf(u))
      BY <1>1 DEF LateOf, DoneOf
    <2>6. \A u \in Tries \ {t} : Claimed(u)' <=> Claimed(u)
      BY <1>1, <2>2, <2>5 DEF Claimed, At
    <2>7. ~Claimed(t)'
      BY <1>1, <2>1, <2>2, <2>5 DEF Claimed, LateOf
    <2>8. tries \in Nat /\ (phase = "ready" /\ call.ask.via # "http" => tries = 0)
      BY BoundsAssumption DEF IInv, TypeInv, TriesInv
    <2> QED
      BY <1>1, <2>1, <2>2, <2>3, <2>4, <2>5, <2>6, <2>7, <2>8, HandlerStep
  <1> QED
    BY <1>1, <1>2, <1>3

\* A handler begins, at the first step of a try that nothing was done for.
LEMMA BeginStep ==
    ASSUME IInv, call' = call, NEW t \in Tries, Untouched(t), t <= tries', tries <= tries',
           tries' \in 0 .. MaxTries, wire' \subseteq wire, t \notin wire',
           phase' = "ready" /\ call.ask.via # "http" => tries' = 0,
           phase' \in {"ready", "waiting", "over"},
           runs' = [runs EXCEPT ![t] = Running(1, 0)], UNCHANGED <<late, record, done>>
    PROVE  IInv'
  <1>1. Running(1, 0) \in Runs /\ Running(1, 0).at = 1
    BY DEF Running, Runs
  <1>2. /\ runs' \in [Tries -> Runs \cup {NULL}]
        /\ runs'[t] = Running(1, 0) /\ \A u \in Tries \ {t} : runs'[u] = runs[u]
    BY <1>1 DEF IInv, TypeInv
  <1>3. TypeInv'
    <2>1. wire' \subseteq 1 .. tries'
      BY BoundsAssumption DEF IInv, TypeInv
    <2> QED
      BY <1>2, <2>1 DEF IInv, TypeInv
  <1>4. UnitInv'
    <2>1. (Keyed' <=> Keyed) /\ (Claims' <=> Claims)
      BY SameCall
    <2> QED
      BY <2>1 DEF IInv, UnitInv
  <1>5. \A u \in Tries : (LateOf(u)' <=> LateOf(u)) /\ (DoneOf(u)' <=> DoneOf(u))
    BY DEF LateOf, DoneOf
  <1>6. \A u \in Tries \ {t} : Claimed(u)' <=> Claimed(u)
    BY <1>2, <1>5 DEF Claimed, At
  <1>7. ~LateOf(t)' /\ ~DoneOf(t)'
    BY <1>5 DEF Untouched
  <1>8. ~Claimed(t)'
    BY <1>1, <1>2, <1>7 DEF Claimed, At, LateOf
  <1>9. Claims /\ record' = NULL => record = NULL
    OBVIOUS
  <1> QED
    BY <1>2, <1>3, <1>4, <1>5, <1>6, <1>7, <1>8, <1>9, HandlerStep

\* A step that outlived its handler ends, one way or the other.
LEMMA LateStep ==
    ASSUME IInv, LateCommit \/ LateFail
    PROVE  IInv'
  <1>1. PICK s \in late :
           /\ late' = late \ {s}
           /\ \/ UNCHANGED <<record, done>>
              \/ /\ Steps[s.at] = "Claim" /\ done' = done
                 /\ record' = IF record = NULL THEN PENDING ELSE record
              \/ done' = done /\ record' = s.count
              \/ /\ Steps[s.at] # "Claim" /\ ~Replays(record)
                 /\ done' = done \cup {Effect(s.try, s.at, FALSE)}
                 /\ record' = IF Keyed /\ ~Claims THEN 1 ELSE record
    <2>1. CASE LateFail
      BY <2>1 DEF LateFail
    <2>2. CASE LateCommit
      BY <2>2 DEF LateCommit
    <2> QED
      BY <2>1, <2>2
  <1>2. UNCHANGED <<call, phase, tries, wire, runs>>
    BY DEF LateCommit, LateFail, caller, network
  <1> DEFINE t == s.try
  <1>3. t \in Tries /\ s.at \in Nat \ {0} /\ s.count \in Nat
    BY DEF IInv, TypeInv
  <1>4. LateOf(t)
    BY DEF LateOf
  <1>5. runs[t] = NULL /\ ~(t > tries) /\ t \notin wire
    BY <1>3, <1>4 DEF IInv, TriesInv, Untouched
  <1>6. Effect(t, s.at, FALSE) \in [try : Tries, at : Nat \ {0}, sure : BOOLEAN]
        /\ Effect(t, s.at, FALSE).try = t
    BY <1>3 DEF Effect
  <1>7. /\ done' = done
           \/ (done' = done \cup {Effect(t, s.at, FALSE)} /\ Steps[s.at] # "Claim")
        /\ record' \in Nat \cup {PENDING, NULL}
        /\ Claims /\ record' = NULL => record = NULL
    <2>1. record \in Nat \cup {PENDING, NULL} /\ PENDING # NULL /\ s.count # NULL
      BY <1>3, NullAssumption DEF IInv, TypeInv
    <2>2. CASE UNCHANGED <<record, done>>
      BY <2>1, <2>2
    <2>3. CASE done' = done /\ record' = IF record = NULL THEN PENDING ELSE record
      BY <2>1, <2>3
    <2>4. CASE done' = done /\ record' = s.count
      BY <1>3, <2>1, <2>4
    <2>5. CASE /\ Steps[s.at] # "Claim" /\ done' = done \cup {Effect(t, s.at, FALSE)}
               /\ record' = IF Keyed /\ ~Claims THEN 1 ELSE record
      BY <2>1, <2>5
    <2> QED
      BY <1>1, <2>2, <2>3, <2>4, <2>5
  <1>8. TypeInv'
    BY <1>1, <1>2, <1>6, <1>7 DEF IInv, TypeInv
  <1>9. UnitInv'
    <2>1. (Keyed' <=> Keyed) /\ (Claims' <=> Claims)
      BY <1>2, SameCall
    <2>2. CASE done' = done /\ (record # NULL => record' # NULL)
      BY <2>1, <2>2 DEF IInv, UnitInv
    <2>3. CASE /\ ~Replays(record) /\ done' = done \cup {Effect(t, s.at, FALSE)}
               /\ record' = IF Keyed /\ ~Claims THEN 1 ELSE record
      BY <1>2, <2>3, EffectUnit
    <2> QED
      BY <1>1, <1>3, <2>2, <2>3, NullAssumption
  <1>10. \A u \in Tries \ {t} : (LateOf(u)' <=> LateOf(u)) /\ (DoneOf(u)' <=> DoneOf(u))
    BY <1>1, <1>6, <1>7 DEF LateOf, DoneOf
  <1>11. \A u \in Tries \ {t} : Claimed(u)' <=> Claimed(u)
    BY <1>1, <1>2, <1>10 DEF Claimed, At
  <1>12. Claims /\ Claimed(t)' => Claimed(t)
    <2>1. Claims /\ Steps[s.at] # "Claim" => s.at >= 2
      BY <1>3, ClaimFirst
    <2>2. CASE Claims /\ Steps[s.at] # "Claim"
      BY <2>1, <2>2 DEF Claimed
    <2>3. CASE done' = done
      BY <1>1, <1>2, <2>3 DEF Claimed, DoneOf, At
    <2> QED
      BY <1>7, <2>2, <2>3
  <1>13. Claims /\ Claimed(t)' => record' # NULL
    BY <1>3, <1>7, <1>12 DEF IInv, ClaimInv
  <1>14. tries \in Nat /\ t \in Nat /\ (phase = "ready" /\ call.ask.via # "http" => tries = 0)
    BY <1>3, BoundsAssumption DEF IInv, TypeInv, TriesInv, Tries
  <1>15. t <= tries /\ tries <= tries'
    BY <1>2, <1>5, <1>14
  <1> HIDE DEF t
  <1> QED
    BY <1>2, <1>3, <1>5, <1>7, <1>8, <1>9, <1>10, <1>11, <1>12, <1>13, <1>14, <1>15,
       HandlerStep

-----------------------------------------------------------------------------
\* A caller that hears nothing or an error tries again only over HTTP.
LEMMA CallerStep ==
    ASSUME IInv,
           \/ RefuseHere \/ Send \/ Deliver \/ GiveUp
           \/ LoseRequest \/ LoseReply \/ Replenish
           \/ \E t \in Tries : WrongOrigin(t) \/ RateLimited(t) \/ Refuse(t)
    PROVE  IInv'
  <1>1. call' = call /\ UNCHANGED server
    BY DEF RefuseHere, Send, Deliver, GiveUp, LoseRequest, LoseReply, Replenish, WrongOrigin,
           RateLimited, Refuse
  <1>2. /\ tries \in Nat /\ tries \in 0 .. MaxTries /\ MaxTries \in Nat
        /\ phase \in {"ready", "waiting", "over"}
        /\ phase = "ready" /\ call.ask.via # "http" => tries = 0
    BY BoundsAssumption DEF IInv, TypeInv, TriesInv
  <1>3. PhaseAfterError \subseteq {"over", "ready"}
        /\ (call.ask.via # "http" => PhaseAfterError = {"over"})
    BY DEF PhaseAfterError
  <1>4. CASE Send
    BY <1>1, <1>2, <1>4, NetworkStep DEF Send
  <1>5. CASE Deliver \/ GiveUp
    <2>1. UNCHANGED <<tries, wire>> /\ phase' \in {"over"} \cup PhaseAfterError
      BY <1>5 DEF Deliver, GiveUp, network
    <2> QED
      BY <1>1, <1>2, <1>3, <2>1, NetworkStep
  <1>6. CASE RefuseHere
    BY <1>1, <1>2, <1>6, NetworkStep DEF RefuseHere, network
  <1>7. CASE \/ LoseRequest \/ LoseReply \/ Replenish
             \/ \E t \in Tries : WrongOrigin(t) \/ RateLimited(t) \/ Refuse(t)
    <2>1. UNCHANGED <<tries, phase>> /\ wire' \subseteq wire
      BY <1>7 DEF LoseRequest, LoseReply, Replenish, WrongOrigin, RateLimited, Refuse, caller,
                  network
    <2> QED
      BY <1>1, <1>2, <2>1, NetworkStep
  <1> QED
    BY <1>4, <1>5, <1>6, <1>7

\* The steps of a handler.
LEMMA RunStep ==
    ASSUME IInv, NEW t \in Tries,
           \/ Read(t) \/ Commit(t) \/ Replay(t) \/ Fail(t) \/ CommitUnknown(t)
           \/ Claim(t) \/ Complete(t) \/ Return(t)
    PROVE  IInv'
  <1>1. runs[t] # NULL /\ UNCHANGED <<call, phase, tries, wire, late>>
    BY DEF Read, Commit, Replay, Fail, CommitUnknown, UnitFails, Claim, Complete, Return,
           Doing, caller, network
  <1>2. record \in Nat \cup {PENDING, NULL} /\ PENDING # NULL /\ 1 # NULL
    BY NullAssumption DEF IInv, TypeInv
  <1>3. Claims /\ At(t) = 1 => Steps[At(t)] = "Claim"
    BY ClaimFirst
  <1>4. CASE Read(t)
    BY <1>1, <1>2, <1>3, <1>4, FinishStep, AdvanceStep DEF Read, Finish
  <1>5. CASE Commit(t)
    BY <1>1, <1>5, EffectStep DEF Commit
  <1>6. CASE Replay(t)
    BY <1>1, <1>2, <1>6, FinishStep DEF Replay, Finish
  <1>7. CASE Fail(t)
    <2>1. IsUnit(At(t)) /\ record' = record /\ done' = done
      BY <1>7 DEF Fail, UnitFails
    <2>2. runs' = [runs EXCEPT ![t] = NULL] \/ Advance(t, 0)
      BY <1>7 DEF Fail, UnitFails, Finish
    <2>3. ~(Claims /\ At(t) = 1)
      BY <1>3, <2>1 DEF IsUnit
    <2> QED
      BY <1>1, <1>2, <2>1, <2>2, <2>3, FinishStep, AdvanceStep
  <1>8. CASE CommitUnknown(t)
    <2>1. /\ IsUnit(At(t)) /\ ~Replays(record)
          /\ done' = done \cup {Effect(t, At(t), FALSE)}
          /\ record' = IF Keyed /\ ~Claims THEN 1 ELSE record
      BY <1>8 DEF CommitUnknown, UnitFails
    <2>2. runs' = [runs EXCEPT ![t] = NULL] \/ Advance(t, 0)
      BY <1>8 DEF CommitUnknown, UnitFails, Finish
    <2> QED
      BY <1>1, <2>1, <2>2, EffectStep
  <1>9. CASE Claim(t)
    <2>1. done' = done
      BY <1>9 DEF Claim
    <2>2. CASE record = NULL /\ record' = PENDING /\ Advance(t, 0)
      BY <1>1, <1>2, <2>1, <2>2, AdvanceStep
    <2>3. CASE record' = record /\ runs' = [runs EXCEPT ![t] = NULL]
      BY <1>1, <1>2, <2>1, <2>3, FinishStep
    <2> QED
      BY <1>9, <2>2, <2>3 DEF Claim, Finish
  <1>10. CASE Complete(t)
    <2>1. runs[t].count \in Nat
      BY <1>1, HandledOnce DEF Runs
    <2>2. /\ done' = done /\ Advance(t, 0) /\ Steps[At(t)] = "Complete"
          /\ record' \in {record, runs[t].count}
      BY <1>10 DEF Complete
    <2>3. runs[t].count # NULL
      BY <2>1, NullAssumption
    <2>4. record' \in Nat \cup {PENDING, NULL} /\ (record # NULL => record' # NULL)
      BY <1>2, <2>1, <2>2, <2>3
    <2> QED
      BY <1>1, <1>3, <2>2, <2>4, AdvanceStep
  <1>11. CASE Return(t)
    BY <1>1, <1>2, <1>11, FinishStep DEF Return, Finish
  <1> QED
    BY <1>4, <1>5, <1>6, <1>7, <1>8, <1>9, <1>10, <1>11

\* Every step preserves the invariant.
LEMMA NextIInv == IInv /\ [Next]_vars => IInv'
  <1> SUFFICES ASSUME IInv, [Next]_vars PROVE IInv'
    OBVIOUS
  <1>0. /\ tries \in Nat /\ tries \in 0 .. MaxTries /\ MaxTries \in Nat \ {0}
        /\ phase \in {"ready", "waiting", "over"}
        /\ phase = "ready" /\ call.ask.via # "http" => tries = 0
    BY BoundsAssumption DEF IInv, TypeInv, TriesInv
  <1>1. CASE UNCHANGED vars
    BY <1>0, <1>1, NetworkStep DEF vars, caller, network
  <1>2. CASE \/ RefuseHere \/ Send \/ Deliver \/ GiveUp
             \/ LoseRequest \/ LoseReply \/ Replenish
             \/ \E t \in Tries : WrongOrigin(t) \/ RateLimited(t) \/ Refuse(t)
    BY <1>2, CallerStep
  <1>3. CASE LateCommit \/ LateFail
    BY <1>3, LateStep
  <1>4. CASE StartLocal
    <2>1. 1 \in Tries /\ tries = 0 /\ tries' = 1 /\ phase' = "waiting" /\ call' = call
      BY <1>0, <1>4 DEF StartLocal, Tries
    <2>2. Untouched(1)
      BY <2>1 DEF IInv, TriesInv
    <2>3. 1 \notin wire
      BY <2>1 DEF IInv, TypeInv
    <2>4. /\ runs' = [runs EXCEPT ![1] = Running(1, 0)]
          /\ UNCHANGED <<wire, late, record, done>>
      BY <1>4 DEF StartLocal, network
    <2>5. PICK t \in Tries : t = 1
      BY <2>1
    <2>6. /\ Untouched(t) /\ t \notin wire' /\ t <= tries' /\ tries <= tries'
          /\ runs' = [runs EXCEPT ![t] = Running(1, 0)]
      BY <2>1, <2>2, <2>3, <2>4, <2>5
    <2>7. tries' \in 0 .. MaxTries /\ phase' \in {"ready", "waiting", "over"}
          /\ phase' # "ready"
      BY <1>0, <2>1
    <2> QED
      BY <2>1, <2>4, <2>6, <2>7, BeginStep
  <1>5. CASE Kill
    BY <1>0, <1>5, DroppedStep DEF Kill, network, Tries
  <1>6. ASSUME NEW t \in Tries, Accept(t) PROVE IInv'
    <2>1. Untouched(t)
      BY <1>6 DEF Accept, IInv, TriesInv
    <2>2. t <= tries
      BY <1>6 DEF Accept, IInv, TypeInv
    <2>3. /\ UNCHANGED <<call, phase, tries, late, record, done>>
          /\ wire' \subseteq wire /\ t \notin wire'
          /\ runs' = [runs EXCEPT ![t] = Running(1, 0)]
      BY <1>6 DEF Accept, caller
    <2>4. t <= tries' /\ tries <= tries'
      BY <1>0, <2>2, <2>3
    <2> QED
      BY <1>0, <2>1, <2>3, <2>4, BeginStep
  <1>7. ASSUME NEW t \in Tries,
               \/ Read(t) \/ Commit(t) \/ Replay(t) \/ Fail(t) \/ CommitUnknown(t)
               \/ Claim(t) \/ Complete(t) \/ Return(t)
        PROVE  IInv'
    BY <1>7, RunStep
  <1>8. ASSUME NEW t \in Tries, TooMany(t) PROVE IInv'
    BY <1>8, TooManyStep
  <1>9. ASSUME NEW t \in Tries, Timeout(t) \/ Leave(t) PROVE IInv'
    BY <1>9, DroppedStep DEF Timeout, Leave, caller, network
  <1> QED
    BY <1>1, <1>2, <1>3, <1>4, <1>5, <1>6, <1>7, <1>8, <1>9 DEF Next, Tries

\* The invariant holds in every reachable state.
THEOREM Invariant == Spec => []IInv
  <1> QED
    BY InitIInv, NextIInv, PTL DEF Spec

\* However often a caller tries again with its Idempotency-Key, after replies
\* that were lost, timeouts of the server and failures at a commit, no part of
\* the call is done twice: a unit looks its key up in its own transaction
\* (execute in mutation.rs), and a batch claims it before its first item
\* (batch_allocate_idempotent).
THEOREM PartsAreDoneOnce == Spec => []OnceByKey
  <1>1. IInv => OnceByKey
    <2> SUFFICES ASSUME IInv, Keyed, NEW e \in done, NEW f \in done PROVE e.try = f.try
      BY DEF OnceByKey
    <2>1. CASE Claims
      <3>1. e.try \in Tries /\ f.try \in Tries
        BY DEF IInv, TypeInv
      <3>2. Claimed(e.try) /\ Claimed(f.try)
        BY DEF Claimed, DoneOf
      <3> QED
        BY <2>1, <3>1, <3>2 DEF IInv, ClaimInv
    <2>2. CASE ~Claims
      BY <2>2 DEF IInv, UnitInv
    <2> QED
      BY <2>1, <2>2
  <1> QED
    BY <1>1, Invariant, PTL

-----------------------------------------------------------------------------
(* What callers are told.                                                  *)

\* The tables lead the call to its operation, with what was asked for, and only
\* some operations take a key.  It is so for every call of the front ends that is
\* not refused where it is made: the tables are finite, and TLC goes through them.
AsAsked ==
    /\ Served.method # NULL
    /\ Served.method = SameLookup(call.ask.method)
    /\ Served.args = call.ask.typed
    /\ Keyed => Served.method \in KeyedMethods

Batch == Served.method \in Batches
SureOf(t) == {e \in done : e.try = t /\ e.sure}

\* Where a handler stands, what it has done is behind it.
StandInv ==
    /\ IsFiniteSet(done)
    /\ \A e \in done : e.at \in UnitSteps
    /\ \A s \in late : s.at \in DOMAIN Steps /\ Steps[s.at] # "read"
    /\ \A t \in Tries : runs[t] # NULL => \A e \in done : e.try = t => e.at < At(t)

\* A handler has done every unit that it is past, but for a batch, which has
\* counted those that it has.
PassedInv ==
    ~Batch => \A t \in Tries : runs[t] # NULL =>
                 \A at \in UnitSteps : at < At(t) => \E e \in done : e.try = t /\ e.at = at
CountInv ==
    Batch => /\ \A t \in Tries : runs[t] # NULL => runs[t].count = Cardinality(SureOf(t))
             /\ \A s \in late : s.count = Cardinality(SureOf(s.try))

\* Nobody is at the items of the batch, nor will be.
Settled ==
    record # NULL /\ \A t \in Tries : runs[t] # NULL => At(t) \notin 2 .. 3

\* What the record of the key says.
RecordInv ==
    /\ Keyed /\ ~Claims /\ record # NULL => done # {}
    /\ Claims /\ record \notin {NULL, PENDING} =>
          Settled /\ record = Cardinality({e \in done : e.sure})

\* Nothing more will be done for t.
Ended(t) == t \in Tries /\ t <= tries /\ t \notin wire /\ runs[t] = NULL /\ ~LateOf(t)

\* An answer that claims success, and one that denies it.
Counted(x) ==
    IF Batch THEN x.count = Cardinality({e \in DoneBy(x) : e.sure})
    ELSE {e.at : e \in DoneBy(x)} = UnitSteps
Truly(x) ==
    /\ x.method = Served.method /\ x.args = Served.args
    /\ Counted(x)
    /\ Claims => Settled
Harmless(x) == \A e \in done : e.try = x.try => Steps[e.at] \in Repeatable
True(x) ==
    /\ x.status \in Definite \cup {200} => Ended(x.try)
    /\ x.status = 200 => Truly(x)
    /\ x.status \in Definite => Harmless(x)

ToldInv ==
    /\ StandInv /\ PassedInv /\ CountInv /\ RecordInv
    /\ \A x \in replies \cup told : True(x)

-----------------------------------------------------------------------------
(* What the tables of programs give.                                       *)

\* The programs that write.
ProgramTexts ==
    {<<"Create">>, <<"Delete">>, <<"AllocateSpecific">>, <<"AllocateAuto">>,
     <<"read", "Update">>, <<"read", "Release">>, <<"read", "SetTags", "read">>,
     <<"read", "Expire", "Expire">>, <<"SetPointer">>, <<"DeletePointer">>, <<"Load">>,
     <<"UpsertUser">>, <<"DeleteUser">>, <<"read", "UpsertUser">>, <<"MintPat">>,
     <<"RevokePat">>}

\* Only what may be done twice is followed by another step.
Careful(P) ==
    /\ Len(P) \in Nat /\ DOMAIN P = 1 .. Len(P)
    /\ \A i \in DOMAIN P : P[i] \notin {"Claim", "Complete"}
    /\ \A i, j \in DOMAIN P : i < j => P[i] = "read" \/ P[i] \in Repeatable

\* Every program that writes but those of batches is one of these.
LEMMA WriteProgram ==
    \A m \in DOMAIN Programs : m \notin Batches => Programs[m] \in ProgramTexts
  BY DEF Programs, Batches, ProgramTexts

\* So only its last step may be unsafe to do twice.
LEMMA TextsCareful == \A P \in ProgramTexts : Careful(P)
  BY DEF ProgramTexts, Careful, Repeatable

\* Programs that only read.
LEMMA ReadsCareful ==
    /\ \A m \in DOMAIN ReadPrograms : Careful(ReadPrograms[m])
    /\ Careful(<<>>) /\ Careful(<<"read">>)
  <1>1. \A m \in DOMAIN ReadPrograms :
           ReadPrograms[m] \in {<<"read", "read", "read">>, <<"read", "read">>}
    BY DEF ReadPrograms
  <1>2. Careful(<<"read", "read", "read">>)
    BY DEF Careful
  <1>3. Careful(<<"read", "read">>)
    BY DEF Careful
  <1>4. Careful(<<>>) /\ Careful(<<"read">>)
    BY DEF Careful
  <1> QED
    BY <1>1, <1>2, <1>3, <1>4

\* The program of every operation but a batch.
LEMMA ProgramCareful == ASSUME NEW m, m \notin Batches PROVE Careful(Program(m))
  <1>1. CASE m \in DOMAIN Programs
    BY <1>1, WriteProgram, TextsCareful DEF Program
  <1>2. CASE m \notin DOMAIN Programs
    BY <1>2, ReadsCareful DEF Program
  <1> QED
    BY <1>1, <1>2

\* The programs of batches.
LEMMA BatchPrograms ==
    /\ Program("batch_allocate") = <<"AllocateAuto", "AllocateAuto">>
    /\ Program("batch_release") = <<"read", "Release", "Release">>
    /\ Program("allocate_specific") = <<"AllocateSpecific">>
    /\ Program("allocate_auto") = <<"AllocateAuto">>
  BY DEF Program, Programs

\* The steps of a batch that claims its key.
LEMMA ClaimingSteps ==
    ASSUME Claims
    PROVE  /\ Steps[1] = "Claim" /\ Steps[2] = "AllocateAuto" /\ Steps[3] = "AllocateAuto"
           /\ Steps[4] = "Complete" /\ Len(Steps) = 4
           /\ DOMAIN Steps = 1 .. 4 /\ UnitSteps = 2 .. 3 /\ Batch /\ Keyed
  <1>1. Steps = <<"Claim">> \o <<"AllocateAuto", "AllocateAuto">> \o <<"Complete">>
    BY BatchPrograms DEF Claims, Steps
  <1>2. /\ Steps[1] = "Claim" /\ Steps[2] = "AllocateAuto" /\ Steps[3] = "AllocateAuto"
        /\ Steps[4] = "Complete" /\ Len(Steps) = 4
    BY <1>1
  <1>3. DOMAIN Steps = 1 .. 4
    BY <1>1
  <1>4. UnitSteps = 2 .. 3
    <2>1. \A at \in 1 .. 4 : at = 1 \/ at = 2 \/ at = 3 \/ at = 4
      OBVIOUS
    <2>2. \A at \in 1 .. 4 : IsUnit(at) <=> at \in 2 .. 3
      BY <1>2, <2>1 DEF IsUnit
    <2> QED
      BY <1>3, <2>2 DEF UnitSteps
  <1> QED
    BY <1>2, <1>3, <1>4 DEF Claims, Batch, Batches

\* The steps of a unit under a key.
LEMMA KeyedSteps ==
    ASSUME AsAsked, Keyed, ~Claims
    PROVE  ~Batch /\ DOMAIN Steps = 1 .. 1 /\ UnitSteps = {1}
  <1>1. Served.method \in {"allocate_specific", "allocate_auto"}
    BY DEF AsAsked, KeyedMethods, Claims
  <1>2. Steps \in {<<"AllocateSpecific">>, <<"AllocateAuto">>}
    BY <1>1, BatchPrograms DEF Steps
  <1>3. DOMAIN Steps = 1 .. 1 /\ IsUnit(1)
    BY <1>2 DEF IsUnit
  <1>4. UnitSteps = {1}
    BY <1>3 DEF UnitSteps
  <1> QED
    BY <1>1, <1>3, <1>4 DEF Batch, Batches

\* The steps of any call.
LEMMA StepsFacts ==
    /\ Len(Steps) \in Nat /\ DOMAIN Steps = 1 .. Len(Steps)
    /\ UnitSteps \subseteq DOMAIN Steps
    /\ \A at \in DOMAIN Steps : Steps[at] = "Claim" => Claims /\ at = 1
    /\ \A at \in DOMAIN Steps : Steps[at] = "Complete" => Claims /\ at = 4
    /\ \A at \in DOMAIN Steps : Steps[at] = "read" => ~Claims /\ (Batch => at = 1)
    /\ ~Batch => \A a \in UnitSteps, b \in DOMAIN Steps : a < b => Steps[a] \in Repeatable
  <1>1. UnitSteps \subseteq DOMAIN Steps
    BY DEF UnitSteps
  <1>2. CASE Claims
    <2>1. /\ Steps[1] = "Claim" /\ Steps[2] = "AllocateAuto" /\ Steps[3] = "AllocateAuto"
          /\ Steps[4] = "Complete" /\ Len(Steps) = 4 /\ DOMAIN Steps = 1 .. 4 /\ Batch
      BY <1>2, ClaimingSteps
    <2>2. \A at \in 1 .. 4 : at = 1 \/ at = 2 \/ at = 3 \/ at = 4
      OBVIOUS
    <2> QED
      BY <1>1, <1>2, <2>1, <2>2
  <1>3. CASE ~Claims /\ Batch
    <2>1. Steps \in {<<"AllocateAuto", "AllocateAuto">>, <<"read", "Release", "Release">>}
      BY <1>3, BatchPrograms DEF Steps, Batch, Batches
    <2>2. CASE Steps = <<"AllocateAuto", "AllocateAuto">>
      BY <1>1, <1>3, <2>2
    <2>3. CASE Steps = <<"read", "Release", "Release">>
      BY <1>1, <1>3, <2>3
    <2> QED
      BY <2>1, <2>2, <2>3
  <1>4. CASE ~Batch
    <2>1. ~Claims
      BY <1>4 DEF Claims, Batch, Batches
    <2>2. Careful(Steps)
      BY <1>4, <2>1, ProgramCareful DEF Steps, Batch
    <2>3. \A a \in UnitSteps : Steps[a] # "read"
      BY DEF UnitSteps, IsUnit
    <2> QED
      BY <1>1, <1>4, <2>1, <2>2, <2>3 DEF Careful
  <1> QED
    BY <1>2, <1>3, <1>4

-----------------------------------------------------------------------------
(* What every step keeps.                                                  *)

\* A step does not change what the call asks for.
LEMMA SameAsked ==
    ASSUME call' = call
    PROVE  /\ Keyed' <=> Keyed
           /\ Claims' <=> Claims
           /\ Steps' = Steps /\ UnitSteps' = UnitSteps
           /\ Batch' <=> Batch
           /\ AsAsked' <=> AsAsked
           /\ Served' = Served
  <1>1. Served' = Served
    BY DEF Served
  <1>2. (Keyed' <=> Keyed) /\ (Claims' <=> Claims) /\ Steps' = Steps
    BY SameCall
  <1>3. UnitSteps' = UnitSteps
    BY <1>2 DEF UnitSteps, IsUnit
  <1>4. AsAsked' <=> AsAsked
    BY <1>1, <1>2 DEF AsAsked, SameLookup
  <1> QED
    BY <1>1, <1>2, <1>3, <1>4 DEF Batch

\* A try that is at work, or that something is left of, has not ended.
LEMMA AtWork ==
    \A t \in Tries : runs[t] # NULL \/ LateOf(t) \/ t \in wire => ~Ended(t)
  BY DEF Ended

\* An answer stays true while what is done is done for another try, and a batch
\* that is settled gains no item that is counted.
LEMMA TrueStays ==
    ASSUME AsAsked, call' = call, NEW x, True(x), \A e \in done : e.at \in UnitSteps,
           x.status \in Definite \cup {200} => Ended(x.try)',
           Claims /\ Settled => Settled',
           \/ done' = done
           \/ \E e : /\ done' = done \cup {e} /\ e.at \in UnitSteps /\ ~Ended(e.try)
                     /\ (Claims /\ Settled => ~e.sure)
    PROVE  True(x)'
  <1>1. /\ Keyed' <=> Keyed
        /\ Claims' <=> Claims
        /\ Steps' = Steps /\ UnitSteps' = UnitSteps
        /\ Batch' <=> Batch
        /\ Served' = Served
    BY SameAsked
  <1>2. DoneBy(x)' = {e \in done' : e.try = x.try \/ Keyed}
    BY <1>1 DEF DoneBy
  <1>3. DoneBy(x) = {e \in done : e.try = x.try \/ Keyed}
    BY DEF DoneBy
  <1>4. CASE done' = done
    <2>1. DoneBy(x)' = DoneBy(x)
      BY <1>2, <1>3, <1>4
    <2>2. x.status = 200 => Truly(x)'
      BY <1>1, <2>1 DEF True, Truly, Counted
    <2>3. x.status \in Definite => Harmless(x)'
      BY <1>1, <1>4 DEF True, Harmless
    <2> QED
      BY <2>2, <2>3 DEF True
  <1>5. ASSUME NEW f, done' = done \cup {f}, f.at \in UnitSteps, ~Ended(f.try),
               Claims /\ Settled => ~f.sure
        PROVE  True(x)'
    <2>1. x.status \in Definite \cup {200} => x.try # f.try
      BY <1>5 DEF True
    <2>2. x.status \in Definite => Harmless(x)'
      BY <1>1, <1>5, <2>1 DEF True, Harmless
    <2>3. ASSUME x.status = 200 PROVE Truly(x)'
      <3>1. Truly(x) /\ x.try # f.try
        BY <2>1, <2>3 DEF True
      <3>2. Batch => {e \in DoneBy(x) : e.sure}' = {e \in DoneBy(x) : e.sure}
        <4>1. CASE Claims
          <5>1. Settled /\ ~f.sure
            BY <1>5, <3>1, <4>1 DEF Truly
          <5> QED
            BY <1>2, <1>3, <1>5, <5>1, <4>1 DEF Claims
        <4>2. CASE ~Claims /\ Keyed
          BY <4>2, KeyedSteps
        <4>3. CASE ~Keyed
          BY <1>2, <1>3, <1>5, <3>1, <4>3
        <4> QED
          BY <4>1, <4>2, <4>3
      <3>3. ~Batch => {e.at : e \in DoneBy(x)}' = UnitSteps
        <4>1. CASE Keyed
          BY <1>2, <1>3, <1>5, <3>1, <4>1 DEF Truly, Counted
        <4>2. CASE ~Keyed
          <5>1. DoneBy(x)' = DoneBy(x)
            BY <1>2, <1>3, <1>5, <3>1, <4>2
          <5> QED
            BY <5>1, <3>1 DEF Truly, Counted
        <4> QED
          BY <4>1, <4>2
      <3>4. Claims => Settled'
        BY <3>1 DEF Truly
      <3> QED
        BY <1>1, <3>1, <3>2, <3>3, <3>4 DEF Truly, Counted
    <2> QED
      BY <2>2, <2>3 DEF True
  <1> QED
    BY <1>4, <1>5

\* The invariant holds initially.
LEMMA InitTold == Init => ToldInv
  <1> SUFFICES ASSUME Init PROVE ToldInv
    OBVIOUS
  <1>1. /\ done = {} /\ late = {} /\ replies = {} /\ told = {} /\ record = NULL
        /\ \A t \in Tries : runs[t] = NULL
    BY DEF Init, Tries
  <1>2. IsFiniteSet(done)
    BY <1>1, FS_EmptySet
  <1>3. StandInv /\ PassedInv /\ CountInv
    BY <1>1, <1>2 DEF StandInv, PassedInv, CountInv
  <1>4. RecordInv
    BY <1>1 DEF RecordInv
  <1> QED
    BY <1>1, <1>3, <1>4 DEF ToldInv

\* A step of callers and the network: what it answers with is no success.
LEMMA NetworkTold ==
    ASSUME IInv, ToldInv, AsAsked, call' = call, UNCHANGED server,
           tries' \in Nat, tries <= tries', wire' \subseteq wire \cup (tries + 1 .. tries'),
           \A x \in (replies \cup told)' :
              \/ x \in replies \cup told
              \/ x.status \notin Definite \cup {200}
              \/ /\ x.try \in wire /\ x.try \notin wire' /\ x.status # 200
    PROVE  ToldInv'
  <1>1. /\ Keyed' <=> Keyed
        /\ Claims' <=> Claims
        /\ Steps' = Steps /\ UnitSteps' = UnitSteps
        /\ Batch' <=> Batch
    BY SameAsked
  <1>2. /\ runs' = runs /\ late' = late /\ record' = record /\ done' = done
    BY DEF server
  <1>3. \A t \in Tries : SureOf(t)' = SureOf(t) /\ At(t)' = At(t)
    BY <1>2 DEF SureOf, At
  <1>4. \A s \in late : s.try \in Tries /\ SureOf(s.try)' = SureOf(s.try)
    BY <1>3 DEF IInv, TypeInv
  <1>5. Settled' <=> Settled
    BY <1>2, <1>3 DEF Settled
  <1>6. StandInv' /\ PassedInv' /\ CountInv' /\ RecordInv'
    <2>1. StandInv'
      BY <1>1, <1>2, <1>3 DEF ToldInv, StandInv
    <2>2. PassedInv'
      BY <1>1, <1>2, <1>3 DEF ToldInv, PassedInv
    <2>3. CountInv'
      BY <1>1, <1>2, <1>3, <1>4 DEF ToldInv, CountInv
    <2>4. RecordInv'
      BY <1>1, <1>2, <1>5 DEF ToldInv, RecordInv
    <2> QED
      BY <2>1, <2>2, <2>3, <2>4
  <1>7. tries \in Nat /\ tries \in 0 .. MaxTries /\ MaxTries \in Nat
    BY BoundsAssumption DEF IInv, TypeInv
  <1>8. \A t \in Tries : t <= tries /\ t \notin wire => t <= tries' /\ t \notin wire'
    BY <1>7 DEF Tries
  <1>9. \A t : Ended(t) => Ended(t)'
    BY <1>2, <1>8 DEF Ended, LateOf
  <1>10. ASSUME NEW x \in (replies \cup told)' PROVE True(x)'
    <2>1. CASE x \in replies \cup told
      <3>1. True(x)
        BY <2>1 DEF ToldInv
      <3>2. x.status \in Definite \cup {200} => Ended(x.try)'
        BY <1>9, <3>1 DEF True
      <3>3. \A e \in done : e.at \in UnitSteps
        BY DEF ToldInv, StandInv
      <3> QED
        BY <1>2, <1>5, <3>1, <3>2, <3>3, TrueStays
    <2>2. CASE x.status \notin Definite \cup {200}
      BY <2>2 DEF True
    <2>3. CASE x.try \in wire /\ x.try \notin wire' /\ x.status # 200
      <3>1. x.try \in Tries /\ x.try <= tries
        <4>1. x.try \in 1 .. tries
          BY <2>3 DEF IInv, TypeInv
        <4> QED
          BY <1>7, <4>1 DEF Tries
      <3>2. Untouched(x.try)
        BY <2>3, <3>1 DEF IInv, TriesInv
      <3>3. Ended(x.try)'
        <4>1. x.try <= tries'
          BY <1>7, <3>1 DEF Tries
        <4> QED
          BY <1>2, <2>3, <3>1, <3>2, <4>1 DEF Ended, Untouched, LateOf
      <3>4. Harmless(x)'
        BY <1>2, <3>2 DEF Harmless, Untouched, DoneOf
      <3> QED
        BY <2>3, <3>3, <3>4 DEF True
    <2> QED
      BY <1>10, <2>1, <2>2, <2>3
  <1> QED
    BY <1>6, <1>10 DEF ToldInv

-----------------------------------------------------------------------------
(* The steps of a handler.                                                 *)

\* What is known of a handler at work.
LEMMA AtWorkFacts ==
    ASSUME IInv, ToldInv, NEW t \in Tries, runs[t] # NULL
    PROVE  /\ ~Ended(t) /\ ~LateOf(t) /\ t <= tries /\ t \notin wire
           /\ runs[t].at \in Nat \ {0} /\ runs[t].count \in Nat
           /\ \A e \in done : e.try = t => e.at < At(t)
           /\ \A e \in done : e.at \in UnitSteps
  <1>1. ~LateOf(t) /\ t <= tries /\ t \notin wire /\ runs[t] \in Runs
    BY HandledOnce
  <1>2. ~Ended(t)
    BY AtWork
  <1> QED
    BY <1>1, <1>2 DEF Runs, ToldInv, StandInv

\* The handler of t changes nothing of the others.
LEMMA OthersStay ==
    ASSUME IInv, NEW t \in Tries, call' = call, tries' = tries, wire' = wire,
           late' \subseteq late \cup {s \in late' : s.try = t}, runs[t] # NULL,
           \A u \in Tries \ {t} : runs'[u] = runs[u]
    PROVE  /\ \A u : Ended(u) => Ended(u)'
           /\ Settled /\ record' # NULL /\ (runs'[t] # NULL => At(t)' \notin 2 .. 3) => Settled'
  <1>1. ASSUME NEW u, Ended(u) PROVE Ended(u)'
    <2>1. u \in Tries \ {t}
      BY <1>1 DEF Ended
    <2>2. runs'[u] = NULL
      BY <1>1, <2>1 DEF Ended
    <2>3. ~LateOf(u)'
      BY <1>1, <2>1 DEF Ended, LateOf
    <2> QED
      BY <1>1, <2>1, <2>2, <2>3 DEF Ended
  <1>2. ASSUME Settled, record' # NULL, runs'[t] # NULL => At(t)' \notin 2 .. 3 PROVE Settled'
    <2>1. ASSUME NEW u \in Tries, runs'[u] # NULL PROVE At(u)' \notin 2 .. 3
      <3>1. CASE u = t
        BY <1>2, <2>1, <3>1
      <3>2. CASE u # t
        <4>1. runs'[u] = runs[u] /\ runs[u] # NULL
          BY <2>1, <3>2
        <4>2. At(u)' = At(u)
          BY <4>1 DEF At
        <4> QED
          BY <1>2, <4>1, <4>2 DEF Settled
      <3> QED
        BY <3>1, <3>2
    <2> QED
      BY <1>2, <2>1 DEF Settled
  <1> QED
    BY <1>1, <1>2

\* A handler ends with an answer, and nothing more is done.
LEMMA FinishTold ==
    ASSUME IInv, ToldInv, AsAsked, NEW t \in Tries, runs[t] # NULL,
           runs' = [runs EXCEPT ![t] = NULL],
           UNCHANGED <<call, tries, told, wire, late, done>>,
           NEW a, a.try = t, replies' = replies \cup {a},
           record' = record \/ (Claims /\ record' = NULL /\ At(t) = 2),
           a.status \in Definite => Harmless(a),
           a.status = 200 => /\ a.method = Served.method /\ a.args = Served.args
                             /\ Counted(a) /\ (Claims => Settled')
    PROVE  ToldInv'
  <1>1. /\ Keyed' <=> Keyed
        /\ Claims' <=> Claims
        /\ Steps' = Steps /\ UnitSteps' = UnitSteps
        /\ Batch' <=> Batch
        /\ Served' = Served
    BY SameAsked
  <1>2. runs'[t] = NULL /\ \A u \in Tries \ {t} : runs'[u] = runs[u]
    BY DEF IInv, TypeInv
  <1>3. ~Ended(t) /\ ~LateOf(t) /\ t <= tries /\ t \notin wire
    BY AtWorkFacts
  <1>4. /\ \A u : Ended(u) => Ended(u)'
        /\ Settled /\ record' # NULL => Settled'
    BY <1>2, OthersStay
  <1>5. Settled => Settled'
    <2>1. CASE record' = record
      BY <1>4, <2>1 DEF Settled
    <2>2. CASE At(t) = 2
      <3>1. ~Settled
        BY <2>2 DEF Settled
      <3> QED
        BY <3>1
    <2> QED
      BY <2>1, <2>2
  <1>6. \A u \in Tries : runs'[u] # NULL => runs'[u] = runs[u] /\ At(u)' = At(u) /\ runs[u] # NULL
    BY <1>2 DEF At
  <1>7. \A u : SureOf(u)' = SureOf(u)
    BY DEF SureOf
  <1>8. StandInv'
    BY <1>1, <1>6 DEF ToldInv, StandInv
  <1>9. PassedInv'
    BY <1>1, <1>6 DEF ToldInv, PassedInv
  <1>10. CountInv'
    BY <1>1, <1>6, <1>7 DEF ToldInv, CountInv
  <1>11. RecordInv'
    <2>1. CASE record' = record
      BY <1>1, <1>5, <2>1 DEF ToldInv, RecordInv
    <2>2. CASE Claims /\ record' = NULL
      BY <1>1, <2>2 DEF RecordInv
    <2> QED
      BY <2>1, <2>2
  <1>12. \A x \in replies \cup told : True(x)'
    <2> TAKE x \in replies \cup told
    <2>1. True(x) /\ \A e \in done : e.at \in UnitSteps
      BY DEF ToldInv, StandInv
    <2>2. x.status \in Definite \cup {200} => Ended(x.try)'
      BY <1>4, <2>1 DEF True
    <2> QED
      BY <1>5, <2>1, <2>2, TrueStays
  <1>13. True(a)'
    <2>1. Ended(t)'
      <3>1. ~LateOf(t)'
        BY <1>3 DEF LateOf
      <3> QED
        BY <1>2, <1>3, <3>1 DEF Ended
    <2>2. a.status \in Definite => Harmless(a)'
      BY <1>1 DEF Harmless
    <2>3. DoneBy(a)' = DoneBy(a)
      BY <1>1 DEF DoneBy
    <2>4. a.status = 200 => Truly(a)'
      BY <1>1, <2>3 DEF Truly, Counted
    <2> QED
      BY <2>1, <2>2, <2>4 DEF True
  <1> QED
    BY <1>8, <1>9, <1>10, <1>11, <1>12, <1>13 DEF ToldInv

\* What an advance of t makes of the runs.
LEMMA Advanced ==
    ASSUME IInv, NEW t \in Tries, runs[t] # NULL, NEW gained \in Nat, Advance(t, gained)
    PROVE  /\ \A u \in Tries \ {t} : runs'[u] = runs[u]
           /\ runs'[t] # NULL /\ runs'[t].count = runs[t].count + gained
           /\ At(t)' = At(t) + 1 /\ At(t) \in Nat \ {0}
  <1>1. runs[t] \in Runs
    BY HandledOnce
  <1>2. /\ Running(runs[t].at + 1, runs[t].count + gained) \in Runs
        /\ Running(runs[t].at + 1, runs[t].count + gained).at = runs[t].at + 1
        /\ Running(runs[t].at + 1, runs[t].count + gained).count = runs[t].count + gained
    BY <1>1 DEF Running, Runs
  <1>3. /\ runs'[t] = Running(runs[t].at + 1, runs[t].count + gained)
        /\ \A u \in Tries \ {t} : runs'[u] = runs[u]
    BY <1>2 DEF IInv, TypeInv, Advance
  <1>4. runs'[t] # NULL
    BY <1>2, <1>3, NullAssumption DEF Runs
  <1> QED
    BY <1>1, <1>2, <1>3, <1>4 DEF At, Runs

\* A handler goes on past what is not a unit, or past an item that failed.
LEMMA AdvanceTold ==
    ASSUME IInv, ToldInv, AsAsked, NEW t \in Tries, runs[t] # NULL, Advance(t, 0),
           UNCHANGED <<call, tries, told, replies, wire, late, done>>,
           ~Batch => At(t) \notin UnitSteps,
           Claims /\ Settled => Settled',
           \/ record' = record
           \/ Claims /\ record' = PENDING
           \/ Claims /\ Settled' /\ record' = Cardinality({e \in done : e.sure})
    PROVE  ToldInv'
  <1>1. /\ Keyed' <=> Keyed
        /\ Claims' <=> Claims
        /\ Steps' = Steps /\ UnitSteps' = UnitSteps
        /\ Batch' <=> Batch
    BY SameAsked
  <1>2. /\ \A u \in Tries \ {t} : runs'[u] = runs[u]
        /\ runs'[t] # NULL /\ runs'[t].count = runs[t].count + 0
        /\ At(t)' = At(t) + 1 /\ At(t) \in Nat \ {0}
    BY Advanced
  <1>3. /\ runs[t].count \in Nat
        /\ \A e \in done : e.try = t => e.at < At(t)
        /\ \A e \in done : e.at \in UnitSteps /\ e.at \in Nat
    <2>1. UnitSteps \subseteq Nat
      BY StepsFacts
    <2> QED
      BY <2>1, AtWorkFacts
  <1>4. \A u \in Tries : u # t /\ runs'[u] # NULL =>
            runs'[u] = runs[u] /\ At(u)' = At(u) /\ runs[u] # NULL
    BY <1>2 DEF At
  <1>5. \A u : SureOf(u)' = SureOf(u)
    BY DEF SureOf
  <1>6. StandInv'
    <2>1. \A e \in done' : e.try = t => e.at < At(t)'
      BY <1>2, <1>3
    <2> QED
      BY <1>1, <1>4, <2>1 DEF ToldInv, StandInv
  <1>7. PassedInv'
    <2>1. ASSUME ~Batch, NEW at \in UnitSteps, at < At(t)'
          PROVE  \E e \in done : e.try = t /\ e.at = at
      <3>1. at \in Nat
        BY StepsFacts
      <3>2. at # At(t)
        BY <2>1
      <3>3. at < At(t)
        BY <1>2, <2>1, <3>1, <3>2
      <3> QED
        BY <2>1, <3>3 DEF ToldInv, PassedInv
    <2> QED
      BY <1>1, <1>4, <2>1 DEF ToldInv, PassedInv
  <1>8. CountInv'
    <2>1. runs'[t].count = runs[t].count
      BY <1>2, <1>3
    <2>2. ASSUME Batch, NEW u \in Tries, runs'[u] # NULL
          PROVE  runs'[u].count = Cardinality(SureOf(u))
      <3>1. runs[u] # NULL /\ runs'[u].count = runs[u].count
        BY <1>4, <2>1, <2>2
      <3> QED
        BY <2>2, <3>1 DEF ToldInv, CountInv
    <2>3. Batch => \A s \in late : s.count = Cardinality(SureOf(s.try))
      BY DEF ToldInv, CountInv
    <2> QED
      BY <1>1, <1>5, <2>2, <2>3 DEF CountInv
  <1>9. RecordInv'
    <2>1. CASE record' = record
      BY <1>1, <2>1 DEF ToldInv, RecordInv
    <2>2. CASE Claims /\ record' = PENDING
      BY <1>1, <2>2 DEF RecordInv
    <2>3. CASE Claims /\ Settled' /\ record' = Cardinality({e \in done : e.sure})
      BY <1>1, <2>3 DEF RecordInv
    <2> QED
      BY <2>1, <2>2, <2>3
  <1>10. \A u : Ended(u) => Ended(u)'
    BY <1>2, OthersStay
  <1>11. \A x \in replies \cup told : True(x)'
    <2> TAKE x \in replies \cup told
    <2>1. True(x) /\ \A e \in done : e.at \in UnitSteps
      BY DEF ToldInv, StandInv
    <2>2. x.status \in Definite \cup {200} => Ended(x.try)'
      BY <1>10, <2>1 DEF True
    <2> QED
      BY <2>1, <2>2, TrueStays
  <1> QED
    BY <1>6, <1>7, <1>8, <1>9, <1>11 DEF ToldInv

\* A unit of a handler takes effect: it is counted if its handler hears of it.
LEMMA EffectTold ==
    ASSUME IInv, ToldInv, AsAsked, NEW t \in Tries, runs[t] # NULL, NEW sure \in BOOLEAN,
           At(t) \in UnitSteps,
           done' = done \cup {Effect(t, At(t), sure)},
           record' = (IF Keyed /\ ~Claims THEN 1 ELSE record),
           \/ runs' = [runs EXCEPT ![t] = NULL]
           \/ sure /\ Advance(t, 1)
           \/ ~sure /\ Advance(t, 0),
           UNCHANGED <<call, tries, told, wire, late>>,
           \A x \in replies' : x \in replies \/ x.status = 500
    PROVE  ToldInv'
  <1>1. /\ Keyed' <=> Keyed
        /\ Claims' <=> Claims
        /\ Steps' = Steps /\ UnitSteps' = UnitSteps
        /\ Batch' <=> Batch
    BY SameAsked
  <1> DEFINE new == Effect(t, At(t), sure)
  <1>2. new.try = t /\ new.at = At(t) /\ (new.sure <=> sure)
    BY DEF Effect
  <1>3. done' = done \cup {new}
    OBVIOUS
  <1> HIDE DEF new
  <1>4. ~Ended(t) /\ ~LateOf(t) /\ runs[t].count \in Nat
        /\ (\A e \in done : e.try = t => e.at < At(t))
        /\ (\A e \in done : e.at \in UnitSteps)
    BY AtWorkFacts
  <1>5. At(t) \in Nat /\ UnitSteps \subseteq Nat
    BY StepsFacts
  <1>6. new \notin done
    BY <1>2, <1>4, <1>5
  <1>7. IsFiniteSet(done) /\ IsFiniteSet(done')
    BY <1>3, FS_AddElement DEF ToldInv, StandInv
  <1>8. /\ \A u \in Tries \ {t} : runs'[u] = runs[u]
        /\ runs'[t] # NULL => /\ At(t)' = At(t) + 1
                              /\ \/ sure /\ runs'[t].count = runs[t].count + 1
                                 \/ ~sure /\ runs'[t].count = runs[t].count
    <2>1. CASE runs' = [runs EXCEPT ![t] = NULL]
      BY <2>1 DEF IInv, TypeInv
    <2>2. CASE sure /\ Advance(t, 1)
      BY <2>2, Advanced
    <2>3. CASE ~sure /\ Advance(t, 0)
      BY <1>4, <2>3, Advanced
    <2> QED
      BY <2>1, <2>2, <2>3
  <1>9. \A u \in Tries : u # t /\ runs'[u] # NULL =>
            runs'[u] = runs[u] /\ At(u)' = At(u) /\ runs[u] # NULL
    BY <1>8 DEF At
  <1>10. \A u \in Tries \ {t} : SureOf(u)' = SureOf(u)
    BY <1>2, <1>3 DEF SureOf
  <1>11. Cardinality(SureOf(t)') = Cardinality(SureOf(t)) + (IF sure THEN 1 ELSE 0)
    <2>1. CASE sure
      <3>1. SureOf(t)' = SureOf(t) \cup {new} /\ new \notin SureOf(t)
        <4>1. new.try = t /\ new.sure
          BY <1>2, <2>1
        <4>2. SureOf(t)' = {e \in done \cup {new} : e.try = t /\ e.sure}
          BY <1>3 DEF SureOf
        <4> QED
          BY <1>6, <4>1, <4>2 DEF SureOf
      <3>2. IsFiniteSet(SureOf(t))
        <4>1. SureOf(t) \subseteq done
          BY DEF SureOf
        <4> QED
          BY <1>7, <4>1, FS_Subset
      <3>3. Cardinality(SureOf(t) \cup {new}) = Cardinality(SureOf(t)) + 1
        BY <3>1, <3>2, FS_AddElement
      <3> QED
        BY <2>1, <3>1, <3>3
    <2>2. CASE ~sure
      <3>1. SureOf(t)' = SureOf(t)
        BY <1>2, <1>3, <2>2 DEF SureOf
      <3>2. IsFiniteSet(SureOf(t))
        <4>1. SureOf(t) \subseteq done
          BY DEF SureOf
        <4> QED
          BY <1>7, <4>1, FS_Subset
      <3>3. Cardinality(SureOf(t)) \in Nat
        BY <3>2, FS_CardinalityType
      <3> QED
        BY <2>2, <3>1, <3>3
    <2> QED
      BY <2>1, <2>2
  <1>12. StandInv'
    <2>1. \A e \in done' : e.at \in UnitSteps
      BY <1>2, <1>3, <1>4
    <2>2. ASSUME NEW u \in Tries, runs'[u] # NULL, NEW e \in done', e.try = u
          PROVE  e.at < At(u)'
      <3>1. CASE u = t
        <4>1. At(t)' = At(t) + 1
          BY <1>8, <2>2, <3>1
        <4>2. e.at < At(t) \/ e.at = At(t)
          BY <1>2, <1>3, <1>4, <2>2, <3>1
        <4>3. e.at \in Nat
          <5>1. e.at \in UnitSteps
            BY <2>1, <2>2
          <5> QED
            BY <1>5, <5>1
        <4> QED
          BY <1>5, <3>1, <4>1, <4>2, <4>3
      <3>2. CASE u # t
        <4>1. e \in done /\ runs[u] # NULL /\ At(u)' = At(u)
          BY <1>2, <1>3, <1>9, <2>2, <3>2
        <4> QED
          BY <2>2, <4>1 DEF ToldInv, StandInv
      <3> QED
        BY <3>1, <3>2
    <2> QED
      BY <1>1, <1>7, <2>1, <2>2 DEF ToldInv, StandInv
  <1>13. PassedInv'
    <2> SUFFICES ASSUME ~Batch, NEW u \in Tries, runs'[u] # NULL, NEW at \in UnitSteps,
                        at < At(u)'
                 PROVE  \E e \in done' : e.try = u /\ e.at = at
      BY <1>1 DEF PassedInv
    <2>1. CASE u = t
      <3>1. At(t)' = At(t) + 1 /\ at \in Nat
        BY <1>5, <1>8, <2>1
      <3>2. at < At(t) \/ at = At(t)
        BY <1>5, <2>1, <3>1
      <3>3. CASE at = At(t)
        BY <1>2, <1>3, <2>1, <3>3
      <3>4. CASE at < At(t)
        <4>1. \E e \in done : e.try = t /\ e.at = at
          BY <3>4 DEF ToldInv, PassedInv
        <4> QED
          BY <1>3, <2>1, <4>1
      <3> QED
        BY <3>2, <3>3, <3>4
    <2>2. CASE u # t
      <3>1. runs[u] # NULL /\ At(u)' = At(u)
        BY <1>9, <2>2
      <3>2. \E e \in done : e.try = u /\ e.at = at
        BY <3>1 DEF ToldInv, PassedInv
      <3> QED
        BY <1>3, <3>2
    <2> QED
      BY <2>1, <2>2
  <1>14. CountInv'
    <2> SUFFICES ASSUME Batch
                 PROVE  /\ \A u \in Tries : runs'[u] # NULL =>
                              runs'[u].count = Cardinality(SureOf(u)')
                        /\ \A s \in late : s.count = Cardinality(SureOf(s.try)')
      BY <1>1 DEF CountInv
    <2>1. /\ \A u \in Tries : runs[u] # NULL => runs[u].count = Cardinality(SureOf(u))
          /\ \A s \in late : s.count = Cardinality(SureOf(s.try))
      BY DEF ToldInv, CountInv
    <2>2. runs'[t] # NULL => runs'[t].count = Cardinality(SureOf(t)')
      <3> SUFFICES ASSUME runs'[t] # NULL PROVE runs'[t].count = Cardinality(SureOf(t)')
        OBVIOUS
      <3>1. runs[t].count = Cardinality(SureOf(t))
        BY <2>1
      <3>2. CASE sure /\ runs'[t].count = runs[t].count + 1
        BY <1>11, <3>1, <3>2
      <3>3. CASE ~sure /\ runs'[t].count = runs[t].count
        BY <1>4, <1>11, <3>1, <3>3
      <3> QED
        BY <1>8, <3>2, <3>3
    <2>3. \A u \in Tries \ {t} : runs'[u] # NULL => runs'[u].count = Cardinality(SureOf(u)')
      BY <1>9, <1>10, <2>1
    <2>4. \A s \in late : s.try \in Tries \ {t}
      BY <1>4 DEF LateOf, IInv, TypeInv
    <2>5. \A s \in late : s.count = Cardinality(SureOf(s.try)')
      BY <1>10, <2>1, <2>4
    <2> QED
      BY <2>2, <2>3, <2>5
  <1>15. Claims => ~Settled
    BY ClaimingSteps DEF Settled
  <1>16. RecordInv'
    <2>1. Keyed /\ ~Claims => done' # {}
      BY <1>3
    <2>2. Claims => record \in {NULL, PENDING}
      BY <1>15 DEF ToldInv, RecordInv
    <2> QED
      BY <1>1, <2>1, <2>2 DEF RecordInv
  <1>17. \A u : Ended(u) => Ended(u)'
    BY <1>8, OthersStay
  <1>18. ASSUME NEW x \in (replies \cup told)' PROVE True(x)'
    <2>1. CASE x \in replies \cup told
      <3>1. True(x)
        BY <2>1 DEF ToldInv
      <3>2. x.status \in Definite \cup {200} => Ended(x.try)'
        BY <1>17, <3>1 DEF True
      <3>3. \E e : /\ done' = done \cup {e} /\ e.at \in UnitSteps /\ ~Ended(e.try)
                   /\ (Claims /\ Settled => ~e.sure)
        BY <1>2, <1>3, <1>4, <1>15
      <3> QED
        BY <1>4, <1>15, <3>1, <3>2, <3>3, TrueStays
    <2>2. CASE x.status = 500
      BY <2>2 DEF True, Definite
    <2> QED
      BY <1>18, <2>1, <2>2
  <1> QED
    BY <1>12, <1>13, <1>14, <1>16, <1>18 DEF ToldInv

\* A handler begins for a try that nothing was done for.
LEMMA BeginTold ==
    ASSUME IInv, ToldInv, AsAsked, call' = call, NEW t \in Tries, Untouched(t), ~Ended(t),
           tries' \in Nat, tries <= tries', wire' \subseteq wire,
           runs' = [runs EXCEPT ![t] = Running(1, 0)],
           UNCHANGED <<replies, told, late, record, done>>
    PROVE  ToldInv'
  <1>1. /\ Keyed' <=> Keyed
        /\ Claims' <=> Claims
        /\ Steps' = Steps /\ UnitSteps' = UnitSteps
        /\ Batch' <=> Batch
    BY SameAsked
  <1>2. Running(1, 0).at = 1 /\ Running(1, 0).count = 0 /\ Running(1, 0) \in Runs
    BY DEF Running, Runs
  <1>3. /\ \A u \in Tries \ {t} : runs'[u] = runs[u] /\ At(u)' = At(u)
        /\ runs'[t] = Running(1, 0) /\ At(t)' = 1
    BY <1>2 DEF IInv, TypeInv, At
  <1>4. \A e \in done : e.try # t
    BY DEF Untouched, DoneOf
  <1>5. \A s \in late : s.try # t
    BY DEF Untouched, LateOf
  <1>6. \A u : SureOf(u)' = SureOf(u)
    BY DEF SureOf
  <1>7. Cardinality(SureOf(t)) = 0
    <2>1. SureOf(t) = {}
      BY <1>4 DEF SureOf
    <2> QED
      BY <2>1, FS_EmptySet
  <1>8. StandInv'
    BY <1>1, <1>3, <1>4 DEF ToldInv, StandInv
  <1>9. PassedInv'
    <2>1. \A at \in UnitSteps : ~(at < 1)
      BY StepsFacts
    <2> QED
      BY <1>1, <1>3, <2>1 DEF ToldInv, PassedInv
  <1>10. CountInv'
    BY <1>1, <1>2, <1>3, <1>6, <1>7 DEF ToldInv, CountInv
  <1>11. Settled => Settled'
    <2>1. 1 \notin 2 .. 3
      OBVIOUS
    <2> QED
      BY <1>3, <2>1 DEF Settled
  <1>12. RecordInv'
    BY <1>1, <1>11 DEF ToldInv, RecordInv
  <1>13. \A u : Ended(u) => Ended(u)'
    <2> SUFFICES ASSUME NEW u, Ended(u) PROVE Ended(u)'
      OBVIOUS
    <2>1. u \in Tries /\ u # t
      BY DEF Ended
    <2>2. u <= tries'
      <3>1. u \in Nat /\ tries \in Nat /\ u <= tries
        BY <2>1, BoundsAssumption DEF Ended, Tries, IInv, TypeInv
      <3> QED
        BY <3>1
    <2> QED
      BY <1>3, <2>1, <2>2 DEF Ended, LateOf
  <1>14. \A x \in replies \cup told : True(x)'
    <2> TAKE x \in replies \cup told
    <2>1. True(x) /\ \A e \in done : e.at \in UnitSteps
      BY DEF ToldInv, StandInv
    <2>2. x.status \in Definite \cup {200} => Ended(x.try)'
      BY <1>13, <2>1 DEF True
    <2> QED
      BY <1>11, <2>1, <2>2, TrueStays
  <1> QED
    BY <1>8, <1>9, <1>10, <1>12, <1>14 DEF ToldInv

\* A handler is dropped: the caller is told no more than that, and what goes on
\* takes its count with it.
LEMMA DroppedTold ==
    ASSUME IInv, ToldInv, AsAsked, NEW t \in Tries, Dropped(t),
           UNCHANGED <<call, tries, told, wire, record, done>>,
           \A x \in replies' : x \in replies \/ x.status = 408
    PROVE  ToldInv'
  <1>1. /\ Keyed' <=> Keyed
        /\ Claims' <=> Claims
        /\ Steps' = Steps /\ UnitSteps' = UnitSteps
        /\ Batch' <=> Batch
    BY SameAsked
  <1>2. runs[t] # NULL /\ runs' = [runs EXCEPT ![t] = NULL]
    BY DEF Dropped
  <1> DEFINE left == [try |-> t, at |-> At(t), count |-> runs[t].count]
  <1>3. \/ late' = late
        \/ late' = late \cup {left} /\ At(t) \in DOMAIN Steps /\ Steps[At(t)] # "read"
    BY DEF Dropped, Doing
  <1>4. left.try = t /\ left.at = At(t) /\ left.count = runs[t].count
    OBVIOUS
  <1> HIDE DEF left
  <1>5. runs'[t] = NULL /\ \A u \in Tries \ {t} : runs'[u] = runs[u]
    BY <1>2 DEF IInv, TypeInv
  <1>6. \A u \in Tries : runs'[u] # NULL => runs'[u] = runs[u] /\ At(u)' = At(u) /\ runs[u] # NULL
    BY <1>5 DEF At
  <1>7. \A u : SureOf(u)' = SureOf(u)
    BY DEF SureOf
  <1>8. late' \subseteq late \cup {s \in late' : s.try = t}
    BY <1>3, <1>4
  <1>9. /\ \A u : Ended(u) => Ended(u)'
        /\ Settled /\ record' # NULL => Settled'
    BY <1>2, <1>5, <1>8, OthersStay
  <1>10. Settled => Settled'
    BY <1>9 DEF Settled
  <1>11. StandInv'
    <2>1. \A s \in late' : s.at \in DOMAIN Steps /\ Steps[s.at] # "read"
      BY <1>3, <1>4 DEF ToldInv, StandInv
    <2> QED
      BY <1>1, <1>6, <2>1 DEF ToldInv, StandInv
  <1>12. PassedInv'
    BY <1>1, <1>6 DEF ToldInv, PassedInv
  <1>13. CountInv'
    <2> SUFFICES ASSUME Batch
                 PROVE  /\ \A u \in Tries : runs'[u] # NULL =>
                              runs'[u].count = Cardinality(SureOf(u))
                        /\ \A s \in late' : s.count = Cardinality(SureOf(s.try))
      BY <1>1, <1>7 DEF CountInv
    <2>1. /\ \A u \in Tries : runs[u] # NULL => runs[u].count = Cardinality(SureOf(u))
          /\ \A s \in late : s.count = Cardinality(SureOf(s.try))
      BY DEF ToldInv, CountInv
    <2>2. left.count = Cardinality(SureOf(left.try))
      BY <1>2, <1>4, <2>1
    <2> QED
      BY <1>3, <1>6, <2>1, <2>2
  <1>14. RecordInv'
    BY <1>1, <1>10 DEF ToldInv, RecordInv
  <1>15. ASSUME NEW x \in (replies \cup told)' PROVE True(x)'
    <2>1. CASE x \in replies \cup told
      <3>1. True(x) /\ \A e \in done : e.at \in UnitSteps
        BY <2>1 DEF ToldInv, StandInv
      <3>2. x.status \in Definite \cup {200} => Ended(x.try)'
        BY <1>9, <3>1 DEF True
      <3> QED
        BY <1>10, <3>1, <3>2, TrueStays
    <2>2. CASE x.status = 408
      BY <2>2 DEF True, Definite
    <2> QED
      BY <1>15, <2>1, <2>2
  <1> QED
    BY <1>11, <1>12, <1>13, <1>14, <1>15 DEF ToldInv

\* A step that outlived its handler ends: what it does is not counted, and a
\* result that it records is the count of its batch.
LEMMA LateTold ==
    ASSUME IInv, ToldInv, AsAsked, LateCommit \/ LateFail
    PROVE  ToldInv'
  <1>1. /\ call' = call /\ tries' = tries /\ wire' = wire /\ replies' = replies
        /\ told' = told /\ runs' = runs
    BY DEF LateCommit, LateFail, caller, network
  <1>2. /\ Keyed' <=> Keyed
        /\ Claims' <=> Claims
        /\ Steps' = Steps /\ UnitSteps' = UnitSteps
        /\ Batch' <=> Batch
    BY <1>1, SameAsked
  <1>3. PICK s \in late :
           /\ late' = late \ {s}
           /\ \/ UNCHANGED <<record, done>>
              \/ /\ Steps[s.at] = "Claim" /\ done' = done
                 /\ record' = IF record = NULL THEN PENDING ELSE record
              \/ Steps[s.at] = "Complete" /\ done' = done /\ record' = s.count
              \/ /\ Steps[s.at] \notin {"Claim", "Complete"}
                 /\ done' = done \cup {Effect(s.try, s.at, FALSE)}
                 /\ record' = IF Keyed /\ ~Claims THEN 1 ELSE record
    <2>1. CASE LateFail
      BY <2>1 DEF LateFail
    <2>2. CASE LateCommit
      BY <2>2 DEF LateCommit
    <2> QED
      BY <2>1, <2>2
  <1> DEFINE t == s.try
  <1>4. t \in Tries /\ s.at \in Nat /\ s.count \in Nat /\ s.count # NULL /\ LateOf(t)
    BY NullAssumption DEF IInv, TypeInv, LateOf
  <1>5. ~Ended(t) /\ runs[t] = NULL /\ s.at \in DOMAIN Steps /\ Steps[s.at] # "read"
    BY <1>4, AtWork DEF IInv, TriesInv, ToldInv, StandInv
  <1>6. \A u : Ended(u) => Ended(u)'
    BY <1>1, <1>3 DEF Ended, LateOf
  <1>7. \A u : At(u)' = At(u)
    BY <1>1 DEF At
  <1>8. \/ done' = done
        \/ /\ s.at \in UnitSteps
           /\ done' = done \cup {Effect(t, s.at, FALSE)}
    <2>1. Steps[s.at] \notin {"Claim", "Complete"} => s.at \in UnitSteps
      BY <1>5 DEF UnitSteps, IsUnit
    <2> QED
      BY <1>3, <2>1
  <1>9. /\ Effect(t, s.at, FALSE).try = t /\ Effect(t, s.at, FALSE).at = s.at
        /\ Effect(t, s.at, FALSE).sure = FALSE
    BY DEF Effect
  <1>10. \A u : SureOf(u)' = SureOf(u)
    BY <1>8, <1>9 DEF SureOf
  <1>11. {e \in done' : e.sure} = {e \in done : e.sure}
    BY <1>8, <1>9
  <1>12. ASSUME Claims, Steps[s.at] = "Complete"
         PROVE  /\ \A u \in Tries : runs[u] # NULL => At(u) \notin 2 .. 3
                /\ s.count = Cardinality({e \in done : e.sure})
    <2>1. s.at >= 2
      BY <1>4, <1>5, <1>12, StepsFacts
    <2>2. Claimed(t)
      BY <2>1 DEF Claimed
    <2>3. \A u \in Tries : Claimed(u) => u = t
      BY <1>4, <1>12, <2>2 DEF IInv, ClaimInv
    <2>4. ASSUME NEW u \in Tries, runs[u] # NULL, At(u) \in 2 .. 3 PROVE FALSE
      <3>1. Claimed(u)
        BY <2>4 DEF Claimed
      <3> QED
        BY <1>5, <2>3, <2>4, <3>1
    <2>5. \A e \in done : e.try = t
      <3> TAKE e \in done
      <3>1. e.try \in Tries /\ Claimed(e.try)
        BY DEF IInv, TypeInv, Claimed, DoneOf
      <3> QED
        BY <2>3, <3>1
    <2>6. {e \in done : e.sure} = SureOf(t)
      BY <2>5 DEF SureOf
    <2>7. s.count = Cardinality(SureOf(t))
      BY <1>12, ClaimingSteps DEF ToldInv, CountInv
    <2> QED
      BY <2>4, <2>6, <2>7
  <1>13. Claims /\ Settled => Settled'
    <2> SUFFICES ASSUME Claims, Settled PROVE Settled'
      OBVIOUS
    <2>1. record' # NULL
      <3>1. record # NULL
        BY DEF Settled
      <3> QED
        BY <1>3, <1>4, <3>1
    <2> QED
      BY <1>1, <1>7, <2>1 DEF Settled
  <1>14. StandInv'
    <2>1. IsFiniteSet(done')
      BY <1>8, FS_AddElement DEF ToldInv, StandInv
    <2>2. \A e \in done' : e.at \in UnitSteps
      BY <1>8, <1>9 DEF ToldInv, StandInv
    <2>3. \A u \in Tries : runs[u] # NULL => \A e \in done' : e.try = u => e.at < At(u)
      BY <1>5, <1>8, <1>9 DEF ToldInv, StandInv
    <2>4. \A r \in late' : r.at \in DOMAIN Steps /\ Steps[r.at] # "read"
      BY <1>3 DEF ToldInv, StandInv
    <2> QED
      BY <1>1, <1>2, <1>7, <2>1, <2>2, <2>3, <2>4 DEF StandInv
  <1>15. PassedInv'
    <2>1. done \subseteq done'
      BY <1>8
    <2> QED
      BY <1>1, <1>2, <1>7, <2>1 DEF ToldInv, PassedInv
  <1>16. CountInv'
    <2>1. late' \subseteq late
      BY <1>3
    <2> QED
      BY <1>1, <1>2, <1>10, <2>1 DEF ToldInv, CountInv
  <1>17. RecordInv'
    <2>1. CASE UNCHANGED <<record, done>>
      BY <1>2, <1>13, <2>1 DEF ToldInv, RecordInv
    <2>2. CASE /\ Steps[s.at] = "Claim" /\ done' = done
               /\ record' = IF record = NULL THEN PENDING ELSE record
      <3>1. Claims
        BY <1>5, <2>2, StepsFacts
      <3> QED
        BY <1>2, <1>13, <2>2, <3>1 DEF ToldInv, RecordInv
    <2>3. CASE Steps[s.at] = "Complete" /\ done' = done /\ record' = s.count
      <3>1. Claims
        BY <1>5, <2>3, StepsFacts
      <3>2. Settled'
        BY <1>1, <1>4, <1>7, <1>12, <2>3, <3>1 DEF Settled
      <3> QED
        BY <1>2, <1>12, <2>3, <3>1, <3>2 DEF RecordInv
    <2>4. CASE /\ done' = done \cup {Effect(s.try, s.at, FALSE)}
               /\ record' = IF Keyed /\ ~Claims THEN 1 ELSE record
      <3>1. done' # {}
        BY <2>4
      <3>2. Claims => record' = record
        BY <2>4
      <3> QED
        BY <1>2, <1>11, <1>13, <3>1, <3>2 DEF ToldInv, RecordInv
    <2> QED
      BY <1>3, <2>1, <2>2, <2>3, <2>4
  <1>18. \A x \in replies \cup told : True(x)'
    <2> TAKE x \in replies \cup told
    <2>1. True(x) /\ \A e \in done : e.at \in UnitSteps
      BY DEF ToldInv, StandInv
    <2>2. x.status \in Definite \cup {200} => Ended(x.try)'
      BY <1>6, <2>1 DEF True
    <2>3. \/ done' = done
          \/ \E e : /\ done' = done \cup {e} /\ e.at \in UnitSteps /\ ~Ended(e.try)
                    /\ (Claims /\ Settled => ~e.sure)
      BY <1>5, <1>8, <1>9
    <2> QED
      BY <1>1, <1>13, <2>1, <2>2, <2>3, TrueStays
  <1> QED
    BY <1>1, <1>14, <1>15, <1>16, <1>17, <1>18 DEF ToldInv

-----------------------------------------------------------------------------
(* Every step.                                                             *)

\* The parts of an answer.
LEMMA AnswerParts ==
    \A t, status, count :
        LET a == Answer(t, status, count) IN
        /\ a.try = t /\ a.status = status /\ a.count = count
        /\ a.method = Served.method /\ a.args = Served.args
  BY DEF Answer

\* Callers, the network and the layers before a handler: a caller that gives up
\* is told of an error, and a refusal is of a request that nothing was done for.
LEMMA CallerTold ==
    ASSUME IInv, ToldInv, AsAsked,
           \/ RefuseHere \/ Send \/ Deliver \/ GiveUp
           \/ LoseRequest \/ LoseReply \/ Replenish
           \/ \E t \in Tries : WrongOrigin(t) \/ RateLimited(t) \/ Refuse(t)
    PROVE  ToldInv'
  <1>1. /\ tries \in Nat /\ tries <= tries /\ tries <= tries + 1 /\ tries + 1 \in Nat
        /\ tries + 1 \in tries + 1 .. tries + 1
    <2>1. tries \in Nat
      BY BoundsAssumption DEF IInv, TypeInv
    <2> QED
      BY <2>1
  <1>2. CASE RefuseHere
    BY <1>1, <1>2, NetworkTold DEF RefuseHere, network
  <1>3. CASE Send
    <2>1. tries' = tries + 1 /\ wire' = wire \cup {tries + 1}
          /\ UNCHANGED <<call, server, replies, told>>
      BY <1>3 DEF Send
    <2>2. wire' \subseteq wire \cup (tries + 1 .. tries')
      BY <1>1, <2>1
    <2> QED
      BY <1>1, <2>1, <2>2, NetworkTold
  <1>4. CASE Deliver
    <2>1. /\ UNCHANGED <<call, tries, wire, server>>
          /\ (replies \cup told)' \subseteq replies \cup told
      BY <1>4 DEF Deliver
    <2> QED
      BY <1>1, <2>1, NetworkTold
  <1>5. CASE GiveUp
    <2>1. UNCHANGED <<call, tries, wire, replies, server>>
      BY <1>5 DEF GiveUp, network
    <2>2. \A x \in told' : x \in told \/ x.status = 500
      BY <1>5 DEF GiveUp
    <2>3. 500 \notin Definite \cup {200}
      BY DEF Definite
    <2> QED
      BY <1>1, <2>1, <2>2, <2>3, NetworkTold
  <1>6. CASE LoseRequest
    <2>1. UNCHANGED <<call, tries, told, replies, server>> /\ wire' \subseteq wire
      BY <1>6 DEF LoseRequest, caller
    <2> QED
      BY <1>1, <2>1, NetworkTold
  <1>7. CASE LoseReply
    <2>1. UNCHANGED <<call, tries, told, wire, server>> /\ replies' \subseteq replies
      BY <1>7 DEF LoseReply, caller
    <2> QED
      BY <1>1, <2>1, NetworkTold
  <1>8. CASE Replenish
    BY <1>1, <1>8, NetworkTold DEF Replenish, caller, network
  <1>9. ASSUME NEW t \in Tries, WrongOrigin(t) \/ RateLimited(t) \/ Refuse(t) PROVE ToldInv'
    <2>1. /\ t \in wire /\ wire' = wire \ {t}
          /\ UNCHANGED <<call, tries, told, server>>
      BY <1>9 DEF WrongOrigin, RateLimited, Refuse, caller
    <2>2. 200 \notin Refusals
      BY DEF Refusals
    <2>3. PICK status : status # 200 /\ replies' = replies \cup {Answer(t, status, 0)}
      BY <1>9, <2>2 DEF WrongOrigin, RateLimited, Refuse
    <2>4. \A x \in replies' : x \in replies \/ (x.try = t /\ x.status # 200)
      <3>1. Answer(t, status, 0).try = t /\ Answer(t, status, 0).status = status
        BY DEF Answer
      <3> QED
        BY <2>3, <3>1
    <2>5. \A x \in (replies \cup told)' :
             \/ x \in replies \cup told
             \/ x.try \in wire /\ x.try \notin wire' /\ x.status # 200
      BY <2>1, <2>4
    <2>6. /\ call' = call /\ server' = server /\ tries' \in Nat /\ tries <= tries'
          /\ wire' \subseteq wire \cup (tries + 1 .. tries')
      BY <1>1, <2>1
    <2> QED
      BY <2>5, <2>6, NetworkTold
  <1> QED
    BY <1>2, <1>3, <1>4, <1>5, <1>6, <1>7, <1>8, <1>9

\* A call that starts where the caller is, or a request that a handler takes up.
LEMMA StartTold ==
    ASSUME IInv, ToldInv, AsAsked, StartLocal \/ \E t \in Tries : Accept(t)
    PROVE  ToldInv'
  <1>1. tries \in Nat /\ MaxTries \in Nat \ {0}
    BY BoundsAssumption DEF IInv, TypeInv
  <1>2. CASE StartLocal
    <2>1. 1 \in Tries /\ tries = 0 /\ tries' = 1 /\ call' = call
      BY <1>1, <1>2 DEF StartLocal, Tries, IInv, TriesInv
    <2>2. Untouched(1) /\ ~Ended(1)
      BY <2>1 DEF IInv, TriesInv, Ended
    <2>3. PICK t \in Tries : t = 1
      BY <2>1
    <2>4. /\ runs' = [runs EXCEPT ![t] = Running(1, 0)]
          /\ UNCHANGED <<wire, replies, told, late, record, done>>
      BY <1>2, <2>3 DEF StartLocal, network
    <2>5. Untouched(t) /\ ~Ended(t) /\ tries' \in Nat /\ tries <= tries' /\ wire' \subseteq wire
      BY <2>1, <2>2, <2>3, <2>4
    <2> QED
      BY <2>1, <2>4, <2>5, BeginTold
  <1>3. ASSUME NEW t \in Tries, Accept(t) PROVE ToldInv'
    <2>1. t \in wire /\ Untouched(t)
      BY <1>3 DEF Accept, IInv, TriesInv
    <2>2. ~Ended(t)
      BY <2>1 DEF Ended
    <2>3. /\ UNCHANGED <<call, tries, told, replies, late, record, done>>
          /\ wire' \subseteq wire
          /\ runs' = [runs EXCEPT ![t] = Running(1, 0)]
      BY <1>3 DEF Accept, caller
    <2>4. tries' \in Nat /\ tries <= tries'
      BY <1>1, <2>3
    <2> QED
      BY <2>1, <2>2, <2>3, <2>4, BeginTold
  <1> QED
    BY <1>2, <1>3

\* A handler that refuses has done nothing that must not be done again: it is at
\* the first step of its own, or only what may be done twice is behind it.
LEMMA ErrorTold ==
    ASSUME IInv, ToldInv, AsAsked, NEW t \in Tries, Doing(t),
           ~Batch \/ At(t) = 1 \/ (Claims /\ At(t) = 2),
           NEW status, status # 200, Finish(t, status, 0),
           UNCHANGED <<call, tries, told, wire, late, done>>,
           record' = record \/ (Claims /\ record' = NULL /\ At(t) = 2)
    PROVE  ToldInv'
  <1> DEFINE a == Answer(t, status, 0)
  <1>1. a.try = t /\ a.status = status
    BY AnswerParts
  <1>2. replies' = replies \cup {a} /\ runs' = [runs EXCEPT ![t] = NULL]
    BY DEF Finish
  <1> HIDE DEF a
  <1>3. runs[t] # NULL /\ At(t) \in DOMAIN Steps
    BY DEF Doing
  <1>4. Harmless(a)
    <2> SUFFICES ASSUME NEW e \in done, e.try = t PROVE Steps[e.at] \in Repeatable
      BY <1>1 DEF Harmless
    <2>1. e.at < At(t) /\ e.at \in UnitSteps
      BY <1>3, AtWorkFacts
    <2>2. e.at \in Nat /\ e.at >= 1
      BY <2>1, StepsFacts
    <2>3. CASE ~Batch
      BY <1>3, <2>1, <2>3, StepsFacts
    <2>4. CASE At(t) = 1
      BY <2>1, <2>2, <2>4
    <2>5. CASE Claims /\ At(t) = 2
      <3>1. e.at >= 2
        BY <2>1, <2>5, ClaimingSteps
      <3> QED
        BY <2>1, <2>2, <2>5, <3>1
    <2> QED
      BY <2>3, <2>4, <2>5
  <1> QED
    BY <1>1, <1>2, <1>3, <1>4, FinishTold

\* A read goes on or is the end, and nothing that it follows was done for good.
LEMMA ReadTold ==
    ASSUME IInv, ToldInv, AsAsked, NEW t \in Tries, Read(t)
    PROVE  ToldInv'
  <1>1. /\ Doing(t) /\ runs[t] # NULL /\ At(t) \in DOMAIN Steps /\ Steps[At(t)] = "read"
        /\ UNCHANGED <<call, tries, told, wire, late, record, done>>
    BY DEF Read, Doing, caller
  <1>2. ~Claims /\ (Batch => At(t) = 1) /\ At(t) \notin UnitSteps
    <2>1. At(t) \notin UnitSteps
      BY <1>1 DEF UnitSteps, IsUnit
    <2> QED
      BY <1>1, <2>1, StepsFacts
  <1>3. CASE Advance(t, 0) /\ replies' = replies
    BY <1>1, <1>2, <1>3, AdvanceTold
  <1>4. ASSUME NEW status \in {404, 500, 503}, Finish(t, status, 0) PROVE ToldInv'
    BY <1>1, <1>2, <1>4, ErrorTold
  <1> QED
    BY <1>3, <1>4 DEF Read

\* A batch of too many items ends before the first of them.
LEMMA TooManyTold ==
    ASSUME IInv, ToldInv, AsAsked, NEW t \in Tries, TooMany(t)
    PROVE  ToldInv'
  <1>1. /\ Doing(t) /\ At(t) = (IF Claims THEN 2 ELSE 1) /\ Finish(t, 400, 0)
        /\ UNCHANGED <<call, tries, told, wire, late, done>>
        /\ record' \in IF Claims THEN {NULL, record} ELSE {record}
    BY DEF TooMany, caller
  <1>2. At(t) = 1 \/ (Claims /\ At(t) = 2)
    BY <1>1
  <1>3. record' = record \/ (Claims /\ record' = NULL /\ At(t) = 2)
    BY <1>1
  <1>4. 400 # 200
    OBVIOUS
  <1> QED
    BY <1>1, <1>2, <1>3, <1>4, ErrorTold

\* A unit commits, fails, finds that it was done, or fails to say which.
LEMMA UnitTold ==
    ASSUME IInv, ToldInv, AsAsked, NEW t \in Tries,
           Commit(t) \/ Fail(t) \/ CommitUnknown(t)
    PROVE  ToldInv'
  <1>1. /\ Doing(t) /\ runs[t] # NULL /\ IsUnit(At(t)) /\ At(t) \in UnitSteps
        /\ UNCHANGED <<call, tries, told, wire, late>>
    BY DEF Commit, Fail, CommitUnknown, UnitFails, Doing, UnitSteps, caller, network
  <1>2. IsItem(At(t)) <=> Batch
    BY <1>1 DEF IsItem, Batch
  <1>3. CASE Commit(t)
    <2>1. /\ done' = done \cup {Effect(t, At(t), TRUE)} /\ Advance(t, 1)
          /\ record' = (IF Keyed /\ ~Claims THEN 1 ELSE record) /\ replies' = replies
      BY <1>3 DEF Commit, network
    <2> QED
      BY <1>1, <2>1, EffectTold
  <1>4. CASE Fail(t)
    <2>1. done' = done /\ record' = record
      BY <1>4 DEF Fail, UnitFails
    <2>2. CASE Batch /\ Advance(t, 0) /\ replies' = replies
      <3>1. Claims /\ Settled => Settled'
        <4>1. ASSUME Claims PROVE ~Settled
          <5>1. At(t) \in 2 .. 3
            BY <1>1, <4>1, ClaimingSteps
          <5> QED
            BY <1>1, <5>1 DEF Settled
        <4> QED
          BY <4>1
      <3> QED
        BY <1>1, <2>1, <2>2, <3>1, AdvanceTold
    <2>3. ASSUME NEW status \in {409, 500, 503}, ~Batch, Finish(t, status, 0) PROVE ToldInv'
      BY <1>1, <2>1, <2>3, ErrorTold
    <2>4. CASE ~Batch /\ Finish(t, 500, 0)
      BY <2>3, <2>4
    <2> QED
      BY <1>2, <1>4, <2>2, <2>3, <2>4 DEF Fail, UnitFails
  <1>5. CASE CommitUnknown(t)
    <2> DEFINE new == Effect(t, At(t), FALSE)
    <2>1. /\ done' = done \cup {new}
          /\ record' = (IF Keyed /\ ~Claims THEN 1 ELSE record)
      BY <1>5 DEF CommitUnknown, UnitFails
    <2>2. \/ Advance(t, 0) /\ replies' = replies
          \/ Finish(t, 500, 0)
      BY <1>5 DEF CommitUnknown, UnitFails
    <2>3. CASE Advance(t, 0) /\ replies' = replies
      BY <1>1, <2>1, <2>3, EffectTold
    <2>4. CASE Finish(t, 500, 0)
      <3>1. runs' = [runs EXCEPT ![t] = NULL] /\ replies' = replies \cup {Answer(t, 500, 0)}
        BY <2>4 DEF Finish
      <3>2. Answer(t, 500, 0).status = 500
        BY DEF Answer
      <3>3. \A x \in replies' : x \in replies \/ x.status = 500
        BY <3>1, <3>2
      <3> QED
        BY <1>1, <2>1, <3>1, <3>3, EffectTold
    <2> QED
      BY <2>2, <2>3, <2>4
  <1> QED
    BY <1>3, <1>4, <1>5

\* A handler that finds the record of its key answers with what was done then.
LEMMA ReplayTold ==
    ASSUME IInv, ToldInv, AsAsked, NEW t \in Tries, Replay(t)
    PROVE  ToldInv'
  <1> DEFINE a == Answer(t, 200, record)
  <1>1. /\ runs[t] # NULL /\ runs' = [runs EXCEPT ![t] = NULL] /\ replies' = replies \cup {a}
        /\ UNCHANGED <<call, tries, told, wire, late, record, done>>
    BY DEF Replay, Finish, Doing, caller
  <1>2. Keyed /\ ~Claims /\ record # NULL
    BY DEF Replay, Replays
  <1>3. a.try = t /\ a.status = 200 /\ a.method = Served.method /\ a.args = Served.args
    BY AnswerParts
  <1> HIDE DEF a
  <1>4. done # {} /\ \A e \in done : e.at \in UnitSteps
    BY <1>2 DEF ToldInv, RecordInv, StandInv
  <1>5. UnitSteps = {1} /\ ~Batch
    BY <1>2, KeyedSteps
  <1>6. Counted(a)
    <2>1. DoneBy(a) = done
      BY <1>2 DEF DoneBy
    <2>2. {e.at : e \in done} = {1}
      BY <1>4, <1>5
    <2> QED
      BY <1>5, <2>1, <2>2 DEF Counted
  <1>7. a.status \in Definite => Harmless(a)
    BY <1>3 DEF Definite
  <1> QED
    BY <1>1, <1>2, <1>3, <1>6, <1>7, FinishTold

\* Whoever is past the claim is alone with the batch: all that is done is its
\* own, its count is the count of it, and nobody else is at an item.
LEMMA AloneWithClaim ==
    ASSUME IInv, ToldInv, Claims, NEW t \in Tries, runs[t] # NULL, At(t) >= 2
    PROVE  /\ record # NULL /\ {e \in done : e.sure} = SureOf(t)
           /\ runs[t].count = Cardinality({e \in done : e.sure})
           /\ \A u \in Tries \ {t} : runs[u] # NULL => At(u) \notin 2 .. 3
  <1>1. Claimed(t)
    BY DEF Claimed
  <1>2. record # NULL /\ \A u \in Tries : Claimed(u) => u = t
    BY <1>1 DEF IInv, ClaimInv
  <1>3. \A e \in done : e.try = t
    <2> TAKE e \in done
    <2>1. e.try \in Tries /\ Claimed(e.try)
      BY DEF IInv, TypeInv, Claimed, DoneOf
    <2> QED
      BY <1>2, <2>1
  <1>4. {e \in done : e.sure} = SureOf(t)
    BY <1>3 DEF SureOf
  <1>5. runs[t].count = Cardinality(SureOf(t))
    BY ClaimingSteps DEF ToldInv, CountInv
  <1>6. ASSUME NEW u \in Tries \ {t}, runs[u] # NULL, At(u) \in 2 .. 3 PROVE FALSE
    <2>1. Claimed(u)
      BY <1>6 DEF Claimed
    <2> QED
      BY <1>2, <1>6, <2>1
  <1> QED
    BY <1>2, <1>4, <1>5, <1>6

\* A batch claims its key, or finds it claimed or its result recorded.
LEMMA ClaimTold ==
    ASSUME IInv, ToldInv, AsAsked, NEW t \in Tries, Claim(t)
    PROVE  ToldInv'
  <1>1. /\ Doing(t) /\ runs[t] # NULL /\ At(t) \in DOMAIN Steps /\ Steps[At(t)] = "Claim"
        /\ UNCHANGED <<call, tries, told, wire, late, done>>
    BY DEF Claim, Doing, caller
  <1>2. Claims /\ At(t) = 1
    BY <1>1, StepsFacts
  <1>3. Batch /\ Keyed
    BY <1>2, ClaimingSteps
  <1>4. CASE record = NULL /\ record' = PENDING /\ Advance(t, 0) /\ replies' = replies
    <2>1. ~Settled
      BY <1>4 DEF Settled
    <2> QED
      BY <1>1, <1>2, <1>3, <1>4, <2>1, AdvanceTold
  <1>5. ASSUME NEW status \in {409, 500, 503}, Finish(t, status, 0), record' = record
        PROVE  ToldInv'
    BY <1>1, <1>2, <1>5, ErrorTold
  <1>6. CASE record = PENDING /\ Finish(t, 409, 0) /\ record' = record
    BY <1>5, <1>6
  <1>7. CASE record \notin {NULL, PENDING} /\ Finish(t, 200, record) /\ record' = record
    <2> DEFINE a == Answer(t, 200, record)
    <2>1. runs' = [runs EXCEPT ![t] = NULL] /\ replies' = replies \cup {a}
      BY <1>7 DEF Finish
    <2>2. /\ a.try = t /\ a.status = 200 /\ a.count = record
          /\ a.method = Served.method /\ a.args = Served.args
      BY AnswerParts
    <2> HIDE DEF a
    <2>3. Settled /\ record = Cardinality({e \in done : e.sure})
      BY <1>2, <1>7 DEF ToldInv, RecordInv
    <2>4. Counted(a)
      <3>1. DoneBy(a) = done
        BY <1>3 DEF DoneBy
      <3> QED
        BY <1>3, <2>2, <2>3, <3>1 DEF Counted
    <2>5. Settled'
      <3>1. runs'[t] = NULL /\ \A u \in Tries \ {t} : runs'[u] = runs[u]
        BY <2>1 DEF IInv, TypeInv
      <3>2. record' # NULL
        BY <1>7
      <3> QED
        BY <1>1, <2>3, <3>1, <3>2, OthersStay
    <2>6. a.status \in Definite => Harmless(a)
      BY <2>2 DEF Definite
    <2> QED
      BY <1>1, <1>7, <2>1, <2>2, <2>4, <2>5, <2>6, FinishTold
  <1> QED
    BY <1>4, <1>5, <1>6, <1>7 DEF Claim

\* A batch records its result, if that works.
LEMMA CompleteTold ==
    ASSUME IInv, ToldInv, AsAsked, NEW t \in Tries, Complete(t)
    PROVE  ToldInv'
  <1>1. /\ runs[t] # NULL /\ At(t) \in DOMAIN Steps /\ Steps[At(t)] = "Complete"
        /\ UNCHANGED <<call, tries, told, replies, wire, late, done>>
        /\ record' \in {record, runs[t].count} /\ Advance(t, 0)
    BY DEF Complete, Doing, caller, network
  <1>2. Claims /\ At(t) = 4
    BY <1>1, StepsFacts
  <1>3. Batch
    BY <1>2, ClaimingSteps
  <1>4. At(t) >= 2
    BY <1>2
  <1>5. /\ record # NULL /\ runs[t].count = Cardinality({e \in done : e.sure})
        /\ \A u \in Tries \ {t} : runs[u] # NULL => At(u) \notin 2 .. 3
    BY <1>1, <1>2, <1>4, AloneWithClaim
  <1>6. Settled'
    <2>1. runs[t].count \in Nat
      BY <1>1, AtWorkFacts
    <2>2. record' # NULL
      BY <1>1, <1>5, <2>1, NullAssumption
    <2>3. At(t)' \notin 2 .. 3 /\ \A u \in Tries \ {t} : runs'[u] = runs[u]
      <3>1. At(t)' = At(t) + 1 /\ \A u \in Tries \ {t} : runs'[u] = runs[u]
        BY <1>1, Advanced
      <3> QED
        BY <1>2, <3>1
    <2>4. ASSUME NEW u \in Tries, runs'[u] # NULL PROVE At(u)' \notin 2 .. 3
      <3>1. CASE u = t
        BY <2>3, <3>1
      <3>2. CASE u # t
        <4>1. runs'[u] = runs[u] /\ At(u)' = At(u)
          BY <2>3, <3>2 DEF At
        <4> QED
          BY <1>5, <2>4, <3>2, <4>1
      <3> QED
        BY <3>1, <3>2
    <2> QED
      BY <2>2, <2>4 DEF Settled
  <1>7. record' = record \/ record' = Cardinality({e \in done : e.sure})
    BY <1>1, <1>5
  <1> QED
    BY <1>1, <1>2, <1>3, <1>6, <1>7, AdvanceTold

\* A handler that is past its last step answers with what it has done.
LEMMA ReturnTold ==
    ASSUME IInv, ToldInv, AsAsked, NEW t \in Tries, Return(t)
    PROVE  ToldInv'
  <1> DEFINE a == Answer(t, 200, runs[t].count)
  <1>1. /\ runs[t] # NULL /\ At(t) \notin DOMAIN Steps
        /\ runs' = [runs EXCEPT ![t] = NULL] /\ replies' = replies \cup {a}
        /\ UNCHANGED <<call, tries, told, wire, late, record, done>>
    BY DEF Return, Finish, caller
  <1>2. /\ a.try = t /\ a.status = 200 /\ a.count = runs[t].count
        /\ a.method = Served.method /\ a.args = Served.args
    BY AnswerParts
  <1> HIDE DEF a
  <1>3. At(t) \in Nat \ {0} /\ \A e \in done : e.at \in UnitSteps
    BY <1>1, AtWorkFacts DEF At
  <1>4. \A at \in DOMAIN Steps : at < At(t)
    BY <1>1, <1>3, StepsFacts
  <1>5. ASSUME Claims PROVE At(t) >= 2 /\ At(t) \notin 2 .. 3
    <2>1. 4 < At(t)
      BY <1>4, <1>5, ClaimingSteps
    <2> QED
      BY <1>3, <2>1
  <1>6. ASSUME Claims PROVE Settled'
    <2>1. /\ record # NULL
          /\ \A u \in Tries \ {t} : runs[u] # NULL => At(u) \notin 2 .. 3
      BY <1>1, <1>5, <1>6, AloneWithClaim
    <2>2. Settled
      BY <1>5, <1>6, <2>1 DEF Settled
    <2>3. runs'[t] = NULL /\ \A u \in Tries \ {t} : runs'[u] = runs[u]
      BY <1>1 DEF IInv, TypeInv
    <2>4. record' # NULL
      BY <1>1, <2>1
    <2> QED
      BY <1>1, <2>2, <2>3, <2>4, OthersStay
  <1>7. Counted(a)
    <2>1. CASE Batch
      <3>1. {e \in DoneBy(a) : e.sure} = SureOf(t)
        <4>1. CASE Keyed
          <5>1. Claims
            BY <2>1, <4>1, KeyedSteps
          <5>2. {e \in done : e.sure} = SureOf(t)
            BY <1>1, <1>5, <5>1, AloneWithClaim
          <5> QED
            BY <4>1, <5>2 DEF DoneBy
        <4>2. CASE ~Keyed
          BY <1>2, <4>2 DEF DoneBy, SureOf
        <4> QED
          BY <4>1, <4>2
      <3>2. runs[t].count = Cardinality(SureOf(t))
        BY <1>1, <2>1 DEF ToldInv, CountInv
      <3> QED
        BY <1>2, <2>1, <3>1, <3>2 DEF Counted
    <2>2. CASE ~Batch
      <3>1. \A at \in UnitSteps : \E e \in done : e.try = t /\ e.at = at
        BY <1>1, <1>4, <2>2, StepsFacts DEF ToldInv, PassedInv
      <3>2. \A e \in done : e.try = t => e \in DoneBy(a)
        BY <1>2 DEF DoneBy
      <3>3. DoneBy(a) \subseteq done
        BY DEF DoneBy
      <3>4. {e.at : e \in DoneBy(a)} = UnitSteps
        BY <1>3, <3>1, <3>2, <3>3
      <3> QED
        BY <2>2, <3>4 DEF Counted
    <2> QED
      BY <2>1, <2>2
  <1>8. a.status \in Definite => Harmless(a)
    BY <1>2 DEF Definite
  <1> QED
    BY <1>1, <1>2, <1>6, <1>7, <1>8, FinishTold

\* A handler is dropped: at the timeout, when its caller leaves, or interrupted.
LEMMA DropTold ==
    ASSUME IInv, ToldInv, AsAsked, Kill \/ \E t \in Tries : Timeout(t) \/ Leave(t)
    PROVE  ToldInv'
  <1>1. CASE Kill
    <2>1. 1 \in Tries
      BY BoundsAssumption DEF Tries
    <2>2. PICK t \in Tries : t = 1
      BY <2>1
    <2>3. Dropped(t) /\ UNCHANGED <<call, tries, told, wire, replies, record, done>>
      BY <1>1, <2>2 DEF Kill, network
    <2> QED
      BY <2>3, DroppedTold
  <1>2. ASSUME NEW t \in Tries, Timeout(t) PROVE ToldInv'
    <2>1. Dropped(t) /\ UNCHANGED <<call, tries, told, wire, record, done>>
      BY <1>2 DEF Timeout, caller
    <2>2. \A x \in replies' : x \in replies \/ x.status = 408
      <3>1. Answer(t, 408, 0).status = 408
        BY DEF Answer
      <3> QED
        BY <1>2, <3>1 DEF Timeout
    <2> QED
      BY <2>1, <2>2, DroppedTold
  <1>3. ASSUME NEW t \in Tries, Leave(t) PROVE ToldInv'
    <2>1. Dropped(t) /\ UNCHANGED <<call, tries, told, wire, replies, record, done>>
      BY <1>3 DEF Leave, caller, network
    <2> QED
      BY <2>1, DroppedTold
  <1> QED
    BY <1>1, <1>2, <1>3

\* Every step keeps what is told true.
LEMMA NextTold == IInv /\ (AsAsked => ToldInv) /\ [Next]_vars => (AsAsked => ToldInv)'
  <1> SUFFICES ASSUME IInv, AsAsked => ToldInv, [Next]_vars, AsAsked' PROVE ToldInv'
    OBVIOUS
  <1>1. call' = call
    <2>1. CASE UNCHANGED vars
      BY <2>1 DEF vars
    <2>2. CASE StartLocal \/ RefuseHere \/ Send \/ Deliver \/ GiveUp \/ Kill
      BY <2>2 DEF StartLocal, RefuseHere, Send, Deliver, GiveUp, Kill
    <2>3. CASE LoseRequest \/ LoseReply \/ Replenish \/ LateCommit \/ LateFail
      BY <2>3 DEF LoseRequest, LoseReply, Replenish, LateCommit, LateFail
    <2>4. ASSUME NEW t \in Tries, WrongOrigin(t) \/ RateLimited(t) \/ Refuse(t) \/ Accept(t)
          PROVE  call' = call
      BY <2>4 DEF WrongOrigin, RateLimited, Refuse, Accept
    <2>5. ASSUME NEW t \in Tries,
                 \/ Read(t) \/ Commit(t) \/ Replay(t) \/ Fail(t) \/ CommitUnknown(t)
                 \/ Claim(t) \/ TooMany(t) \/ Complete(t) \/ Return(t)
                 \/ Timeout(t) \/ Leave(t)
          PROVE  call' = call
      BY <2>5 DEF Read, Commit, Replay, Fail, CommitUnknown, UnitFails, Claim, TooMany,
                  Complete, Return, Timeout, Leave
    <2> QED
      BY <2>1, <2>2, <2>3, <2>4, <2>5 DEF Next, Tries
  <1>2. AsAsked /\ ToldInv
    BY <1>1, SameAsked
  <1>3. CASE UNCHANGED vars
    <2>1. /\ UNCHANGED <<call, server, tries, wire>> /\ replies' = replies /\ told' = told
      BY <1>3 DEF vars, caller, network
    <2>2. tries' \in Nat /\ tries <= tries'
      BY <2>1, BoundsAssumption DEF IInv, TypeInv
    <2> QED
      BY <1>2, <2>1, <2>2, NetworkTold
  <1>4. CASE \/ RefuseHere \/ Send \/ Deliver \/ GiveUp
             \/ LoseRequest \/ LoseReply \/ Replenish
             \/ \E t \in Tries : WrongOrigin(t) \/ RateLimited(t) \/ Refuse(t)
    BY <1>2, <1>4, CallerTold
  <1>5. CASE StartLocal \/ \E t \in Tries : Accept(t)
    BY <1>2, <1>5, StartTold
  <1>6. CASE LateCommit \/ LateFail
    BY <1>2, <1>6, LateTold
  <1>7. CASE Kill \/ \E t \in Tries : Timeout(t) \/ Leave(t)
    BY <1>2, <1>7, DropTold
  <1>8. ASSUME NEW t \in Tries,
               \/ Read(t) \/ Commit(t) \/ Replay(t) \/ Fail(t) \/ CommitUnknown(t)
               \/ Claim(t) \/ TooMany(t) \/ Complete(t) \/ Return(t)
        PROVE  ToldInv'
    BY <1>2, <1>8, ReadTold, UnitTold, ReplayTold, ClaimTold, TooManyTold, CompleteTold, ReturnTold
  <1> QED
    BY <1>3, <1>4, <1>5, <1>6, <1>7, <1>8 DEF Next, Tries

\* In every reachable state of a call that the tables lead to its operation, the
\* answers that are told or under way are true and stay so.
THEOREM AnswersInvariant == Spec => [](AsAsked => ToldInv)
  <1>1. Init => (AsAsked => ToldInv)
    BY InitTold
  <1> QED
    BY <1>1, NextTold, Invariant, PTL DEF Spec

\* A call that is refused where it is made is told nothing.
RefusedHere ==
    \/ call.ask.via = "none"
    \/ (call.ask.via = "remote" /\ ~local_ops(call.ask.method))
SilentInv == RefusedHere => phase # "waiting" /\ told = {}

\* Only what is sent, or runs here, is waited for.
LEMMA Silent == Spec => []SilentInv
  <1>1. Init => SilentInv
    BY DEF Init, SilentInv
  <1>2. SilentInv /\ [Next]_vars => SilentInv'
    <2> SUFFICES ASSUME SilentInv, [Next]_vars PROVE SilentInv'
      OBVIOUS
    <2>1. CASE UNCHANGED vars
      BY <2>1 DEF vars, caller, SilentInv, RefusedHere
    <2>2. CASE StartLocal \/ RefuseHere \/ Send \/ Kill
      BY <2>2 DEF StartLocal, RefuseHere, Send, Kill, SilentInv, RefusedHere
    <2>3. CASE Deliver \/ GiveUp
      BY <2>3 DEF Deliver, GiveUp, SilentInv, RefusedHere
    <2>4. CASE LoseRequest \/ LoseReply \/ Replenish \/ LateCommit \/ LateFail
      BY <2>4 DEF LoseRequest, LoseReply, Replenish, LateCommit, LateFail, caller,
                  SilentInv, RefusedHere
    <2>5. ASSUME NEW t \in Tries, WrongOrigin(t) \/ RateLimited(t) \/ Refuse(t) \/ Accept(t)
          PROVE  SilentInv'
      BY <2>5 DEF WrongOrigin, RateLimited, Refuse, Accept, caller, SilentInv, RefusedHere
    <2>6. ASSUME NEW t \in Tries,
                 \/ Read(t) \/ Commit(t) \/ Replay(t) \/ Fail(t) \/ CommitUnknown(t)
                 \/ Claim(t) \/ TooMany(t) \/ Complete(t) \/ Return(t)
                 \/ Timeout(t) \/ Leave(t)
          PROVE  SilentInv'
      BY <2>6 DEF Read, Commit, Replay, Fail, CommitUnknown, UnitFails, Claim, TooMany,
                  Complete, Return, Timeout, Leave, caller, SilentInv, RefusedHere
    <2> QED
      BY <2>1, <2>2, <2>3, <2>4, <2>5, <2>6 DEF Next, Tries
  <1> QED
    BY <1>1, <1>2, PTL DEF Spec

\* Whatever lies between, an answer says what happened: a success (from the
\* handler, a record of the key or a retry) means that every unit has committed,
\* and counts the items of a batch that did; a refusal that is not 408 or 500
\* means that its request left nothing behind that must not be done again
\* (error_presenter.rs, batch_allocate_idempotent, execute in mutation.rs).
THEOREM AnswersAreTrue == Spec => [](AsAsked \/ RefusedHere => ToldTrue)
  <1>1. AsAsked /\ ToldInv => ToldTrue
    <2> SUFFICES ASSUME AsAsked, ToldInv, NEW x \in told
                 PROVE  /\ Served.method # NULL
                        /\ x.status = 200 =>
                             /\ x.method = SameLookup(call.ask.method)
                             /\ x.args = call.ask.typed
                             /\ IF x.method \in Batches
                                THEN x.count = Cardinality({e \in DoneBy(x) : e.sure})
                                ELSE {e.at : e \in DoneBy(x)} = UnitSteps
                        /\ x.status \in Definite =>
                             \A e \in done : e.try = x.try => Steps[e.at] \in Repeatable
      BY DEF ToldTrue
    <2>1. True(x)
      BY DEF ToldInv
    <2>2. /\ Served.method # NULL
          /\ Served.method = SameLookup(call.ask.method)
          /\ Served.args = call.ask.typed
      BY DEF AsAsked
    <2>3. x.status = 200 => Truly(x)
      BY <2>1 DEF True
    <2>4. x.status \in Definite => Harmless(x)
      BY <2>1 DEF True
    <2> QED
      BY <2>2, <2>3, <2>4 DEF Truly, Counted, Batch, Harmless
  <1>2. (AsAsked => ToldInv) /\ SilentInv => (AsAsked \/ RefusedHere => ToldTrue)
    BY <1>1 DEF SilentInv, ToldTrue
  <1> QED
    BY <1>2, AnswersInvariant, Silent, PTL
=============================================================================
