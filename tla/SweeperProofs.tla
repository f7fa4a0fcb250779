--------------------------- MODULE SweeperProofs ---------------------------
(***************************************************************************)
(* For any number of servers, any migrations and any crashes: the versions *)
(* on record are an initial stretch of the migrations, each of which ran   *)
(* to its end; and a sweep releases nothing that is not due.               *)
(***************************************************************************)
EXTENDS Sweeper, TLAPS

\* Type correctness of what the proofs speak of.
ServersTyped ==
    /\ pc \in [Servers -> {"down", "migrating", "up", "sweeping"}]
    /\ at \in [Servers -> Nat \X Nat]
    /\ recorded \in [Versions -> Servers \cup {"nobody"}]
    /\ DOMAIN now = Servers /\ DOMAIN todo = Servers

\* The recorded versions are the first ones.
NoGap == \E n \in 0 .. Len(MIGRATIONS) : RecordedVersions = 1 .. n

\* A recorded version ran to its end.
RanToEnd == \A v \in RecordedVersions : \A i \in DOMAIN MIGRATIONS[v] : <<v, i>> \in executed

\* A server that migrates is at a version whose predecessors are on record,
\* and has run the statements before the next one.
KeepsOrder(s) ==
    pc[s] = "migrating" =>
        /\ at[s][1] \in 1 .. Len(MIGRATIONS) + 1 /\ at[s][2] \in Nat \ {0}
        /\ 1 .. at[s][1] - 1 \subseteq RecordedVersions
        /\ \A j \in 1 .. at[s][2] - 1 : <<at[s][1], j>> \in executed

\* Only a sweeping server has blocks to go through.
ListOfSweep(s) == pc[s] # "sweeping" => todo[s] = <<>>

\* The inductive invariant.
IInv ==
    /\ ServersTyped /\ NoGap /\ RanToEnd
    /\ \A s \in Servers : KeepsOrder(s) /\ ListOfSweep(s)

-----------------------------------------------------------------------------
\* The migrations are sequences of statements.
LEMMA MigrationsTyped ==
    /\ Len(MIGRATIONS) \in Nat /\ Versions = 1 .. Len(MIGRATIONS)
    /\ \A v \in Versions :
          /\ Len(MIGRATIONS[v]) \in Nat
          /\ DOMAIN MIGRATIONS[v] = 1 .. Len(MIGRATIONS[v])
  BY MigrationsAssumption DEF Versions

\* The highest recorded version, when the recorded ones are the first n.
LEMMA CurrentIs ==
    ASSUME NEW n \in Nat, RecordedVersions = 1 .. n
    PROVE  current = n
  <1>1. {0} \cup RecordedVersions = 0 .. n
    OBVIOUS
  <1>2. current = CHOOSE x \in 0 .. n : \A y \in 0 .. n : x >= y
    BY <1>1 DEF current, Max
  <1>3. \E x \in 0 .. n : \A y \in 0 .. n : x >= y
    <2>1. n \in 0 .. n /\ \A y \in 0 .. n : n >= y
      OBVIOUS
    <2> QED
      BY <2>1
  <1>4. current \in 0 .. n /\ \A y \in 0 .. n : current >= y
    BY <1>2, <1>3
  <1>5. n \in 0 .. n
    OBVIOUS
  <1> QED
    BY <1>4, <1>5

\* The invariant holds initially.
LEMMA InitIInv == Init => IInv
  <1> SUFFICES ASSUME Init PROVE IInv
    OBVIOUS
  <1>1. /\ pc = [s \in Servers |-> "down"] /\ at = [s \in Servers |-> <<0, 1>>]
        /\ recorded = [v \in Versions |-> "nobody"]
        /\ now = [s \in Servers |-> 0] /\ todo = [s \in Servers |-> <<>>]
    BY DEF Init, StartupInit, Stopped
  <1>2. ServersTyped
    BY <1>1 DEF ServersTyped
  <1>3. RecordedVersions = 1 .. 0
    BY <1>1 DEF RecordedVersions
  <1>4. NoGap
    BY <1>3, MigrationsTyped DEF NoGap
  <1>5. RanToEnd
    BY <1>3 DEF RanToEnd
  <1> QED
    BY <1>1, <1>2, <1>4, <1>5 DEF IInv, KeepsOrder, ListOfSweep

\* A step that forgets nothing the database knows, and of the servers touches
\* one, keeps the invariant when that server is as it should be.
LEMMA ServerIInv ==
    ASSUME IInv, NEW s \in Servers, ServersTyped', NoGap', RanToEnd',
           RecordedVersions \subseteq RecordedVersions', executed \subseteq executed',
           \A q \in Servers \ {s} : pc'[q] = pc[q] /\ at'[q] = at[q] /\ todo'[q] = todo[q],
           KeepsOrder(s)', ListOfSweep(s)'
    PROVE  IInv'
  <1>1. ASSUME NEW q \in Servers, q # s PROVE KeepsOrder(q)' /\ ListOfSweep(q)'
    <2>1. KeepsOrder(q) /\ ListOfSweep(q)
      BY DEF IInv
    <2>2. pc'[q] = pc[q] /\ at'[q] = at[q] /\ todo'[q] = todo[q]
      BY <1>1
    <2> QED
      BY <2>1, <2>2 DEF KeepsOrder, ListOfSweep
  <1> QED
    BY <1>1 DEF IInv

\* A step that leaves the schema alone and takes one server to a place where
\* it does not migrate.
LEMMA PlaceIInv ==
    ASSUME IInv, NEW s \in Servers, UNCHANGED <<recorded, executed>>,
           NEW where \in {"down", "up", "sweeping"}, pc' = [pc EXCEPT ![s] = where],
           at' = at \/ at' = [at EXCEPT ![s] = Stopped],
           DOMAIN now' = Servers, DOMAIN todo' = Servers,
           \A q \in Servers \ {s} : todo'[q] = todo[q],
           where # "sweeping" => todo'[s] = <<>>
    PROVE  IInv'
  <1>1. ServersTyped /\ NoGap /\ RanToEnd
    BY DEF IInv
  <1>2. /\ pc'[s] = where /\ pc'[s] # "migrating"
        /\ \A q \in Servers \ {s} : pc'[q] = pc[q] /\ at'[q] = at[q]
    BY <1>1 DEF ServersTyped
  <1>3. RecordedVersions' = RecordedVersions
    BY DEF RecordedVersions
  <1>4. NoGap' /\ RanToEnd'
    BY <1>1, <1>3 DEF NoGap, RanToEnd
  <1>5. ServersTyped'
    BY <1>1 DEF ServersTyped, Stopped
  <1>6. KeepsOrder(s)' /\ ListOfSweep(s)'
    BY <1>2 DEF KeepsOrder, ListOfSweep
  <1> QED
    BY <1>2, <1>3, <1>4, <1>5, <1>6, ServerIInv

-----------------------------------------------------------------------------
(* migrate.                                                                 *)

\* What a start does to the sweep of its server: nothing, it has none, or it
\* ends with the process.
LEMMA StartSweeps ==
    ASSUME IInv, NEW s \in Servers, Start(s)
    PROVE  /\ DOMAIN now' = Servers /\ DOMAIN todo' = Servers /\ todo'[s] = <<>>
           /\ \A q \in Servers \ {s} : todo'[q] = todo[q]
  BY DEF Start, IInv, ServersTyped

\* Its version is the one after the highest that is on record.
LEMMA ReadVersionIInv ==
    ASSUME IInv, NEW s \in Servers, Start(s), ReadVersion(s)
    PROVE  IInv'
  <1>1. ServersTyped /\ NoGap /\ RanToEnd
    BY DEF IInv
  <1>2. PICK n \in 0 .. Len(MIGRATIONS) : RecordedVersions = 1 .. n
    BY <1>1 DEF NoGap
  <1>3. n \in Nat /\ n + 1 \in 1 .. Len(MIGRATIONS) + 1 /\ n + 1 - 1 = n
    BY MigrationsTyped
  <1>4. current = n
    BY <1>2, <1>3, CurrentIs
  <1>5. /\ pc' = [pc EXCEPT ![s] = "migrating"] /\ at' = [at EXCEPT ![s] = <<n + 1, 1>>]
        /\ recorded' = recorded /\ executed' = executed
    BY <1>4 DEF ReadVersion, Goto, schema
  <1>6. /\ pc'[s] = "migrating" /\ at'[s] = <<n + 1, 1>>
        /\ \A q \in Servers \ {s} : pc'[q] = pc[q] /\ at'[q] = at[q]
    BY <1>1, <1>5 DEF ServersTyped
  <1>7. RecordedVersions' = RecordedVersions
    BY <1>5 DEF RecordedVersions
  <1>8. NoGap' /\ RanToEnd'
    BY <1>1, <1>5, <1>7 DEF NoGap, RanToEnd
  <1>9. ServersTyped'
    BY <1>1, <1>3, <1>5, StartSweeps DEF ServersTyped
  <1>10. KeepsOrder(s)'
    <2>1. at'[s][1] = n + 1 /\ at'[s][2] = 1
      BY <1>6
    <2>2. at'[s][1] - 1 = n /\ at'[s][2] - 1 = 0
      BY <1>3, <2>1
    <2>3. 1 .. at'[s][1] - 1 \subseteq RecordedVersions'
      BY <1>2, <1>7, <2>2
    <2>4. \A j \in 1 .. at'[s][2] - 1 : FALSE
      BY <2>2
    <2>5. at'[s][1] \in 1 .. Len(MIGRATIONS) + 1 /\ at'[s][2] \in Nat \ {0}
      BY <1>3, <2>1
    <2> QED
      BY <2>3, <2>4, <2>5 DEF KeepsOrder
  <1>11. ListOfSweep(s)'
    BY StartSweeps DEF ListOfSweep
  <1> QED
    BY <1>5, <1>6, <1>7, <1>8, <1>9, <1>10, <1>11, StartSweeps, ServerIInv

\* The next statement has run.
LEMMA ExecuteIInv ==
    ASSUME IInv, NEW s \in Servers, Start(s), Execute(s)
    PROVE  IInv'
  <1> DEFINE v == at[s][1]
             i == at[s][2]
  <1>1. ServersTyped /\ NoGap /\ RanToEnd /\ KeepsOrder(s)
    BY DEF IInv
  <1>2. /\ pc[s] = "migrating" /\ pc' = pc /\ recorded' = recorded
        /\ executed' = executed \cup {at[s]}
        /\ at' = [at EXCEPT ![s] = [at[s] EXCEPT ![2] = at[s][2] + 1]]
    BY DEF Execute, Running
  <1>3. at[s] = <<v, i>> /\ v \in Nat /\ i \in Nat \ {0}
    BY <1>1, <1>2 DEF ServersTyped, KeepsOrder
  <1> HIDE DEF v, i
  <1>4. at' = [at EXCEPT ![s] = <<v, i + 1>>]
    <2>1. [at[s] EXCEPT ![2] = at[s][2] + 1] = <<v, i + 1>>
      BY <1>3
    <2> QED
      BY <1>2, <2>1
  <1>5. at'[s] = <<v, i + 1>> /\ \A q \in Servers \ {s} : at'[q] = at[q]
    BY <1>1, <1>4 DEF ServersTyped
  <1>6. RecordedVersions' = RecordedVersions
    BY <1>2 DEF RecordedVersions
  <1>7. NoGap' /\ RanToEnd'
    BY <1>1, <1>2, <1>6 DEF NoGap, RanToEnd
  <1>8. ServersTyped'
    BY <1>1, <1>2, <1>3, <1>4, StartSweeps DEF ServersTyped
  <1>9. KeepsOrder(s)'
    <2>1. /\ v \in 1 .. Len(MIGRATIONS) + 1 /\ 1 .. v - 1 \subseteq RecordedVersions
          /\ \A j \in 1 .. i - 1 : <<v, j>> \in executed
      BY <1>1, <1>2, <1>3 DEF KeepsOrder
    <2>2. ASSUME NEW j \in 1 .. (i + 1) - 1 PROVE <<v, j>> \in executed'
      <3>1. j \in 1 .. i - 1 \/ j = i
        BY <1>3
      <3> QED
        BY <1>2, <1>3, <2>1, <3>1
    <2>3. i + 1 \in Nat \ {0}
      BY <1>3
    <2> QED
      BY <1>5, <1>6, <2>1, <2>2, <2>3 DEF KeepsOrder
  <1>10. ListOfSweep(s)'
    BY StartSweeps DEF ListOfSweep
  <1> QED
    BY <1>2, <1>5, <1>6, <1>7, <1>8, <1>9, <1>10, StartSweeps, ServerIInv

\* A version goes on record after its predecessors and its own statements.
LEMMA RecordIInv ==
    ASSUME IInv, NEW s \in Servers, Start(s), Record(s)
    PROVE  IInv'
  <1> DEFINE v == at[s][1]
             i == at[s][2]
  <1>1. ServersTyped /\ NoGap /\ RanToEnd /\ KeepsOrder(s)
    BY DEF IInv
  <1>2. /\ pc[s] = "migrating" /\ v \in Versions /\ i > Len(MIGRATIONS[v])
        /\ recorded[v] = "nobody" /\ recorded' = [recorded EXCEPT ![v] = s]
        /\ at' = [at EXCEPT ![s] = <<v + 1, 1>>] /\ pc' = pc /\ executed' = executed
    BY DEF Record, Finished, Running, Statements, NextVersion
  <1>3. /\ v \in 1 .. Len(MIGRATIONS) /\ i \in Nat \ {0}
        /\ 1 .. v - 1 \subseteq RecordedVersions
        /\ \A j \in 1 .. i - 1 : <<v, j>> \in executed
    BY <1>1, <1>2, MigrationsTyped DEF KeepsOrder
  <1> HIDE DEF v, i
  <1>4. at'[s] = <<v + 1, 1>> /\ \A q \in Servers \ {s} : at'[q] = at[q]
    BY <1>1, <1>2 DEF ServersTyped
  <1>5. RecordedVersions' = RecordedVersions \cup {v}
    BY <1>1, <1>2, NobodyAssumption DEF RecordedVersions, ServersTyped
  <1>6. RecordedVersions = 1 .. v - 1
    <2>1. PICK n \in 0 .. Len(MIGRATIONS) : RecordedVersions = 1 .. n
      BY <1>1 DEF NoGap
    <2>2. v \notin RecordedVersions
      BY <1>2 DEF RecordedVersions
    <2>3. n < v
      BY <1>3, <2>1, <2>2, MigrationsTyped
    <2>4. v - 1 <= n
      <3>1. CASE v = 1
        BY <3>1, MigrationsTyped
      <3>2. CASE v # 1
        <4>1. v - 1 \in 1 .. v - 1
          BY <1>3, <3>2, MigrationsTyped
        <4>2. v - 1 \in 1 .. n
          BY <1>3, <2>1, <4>1
        <4> QED
          BY <4>2
      <3> QED
        BY <3>1, <3>2
    <2>5. n = v - 1
      BY <1>3, <2>3, <2>4, MigrationsTyped
    <2> QED
      BY <2>1, <2>5
  <1>7. RecordedVersions' = 1 .. v
    BY <1>3, <1>5, <1>6, MigrationsTyped
  <1>8. NoGap'
    BY <1>3, <1>7, MigrationsTyped DEF NoGap
  <1>9. RanToEnd'
    <2>1. ASSUME NEW j \in DOMAIN MIGRATIONS[v] PROVE <<v, j>> \in executed
      <3>1. j \in 1 .. Len(MIGRATIONS[v]) /\ Len(MIGRATIONS[v]) \in Nat
        BY <1>2, MigrationsTyped
      <3>2. j \in 1 .. i - 1
        BY <1>2, <1>3, <3>1
      <3> QED
        BY <1>3, <3>2
    <2> QED
      BY <1>1, <1>2, <1>5, <2>1 DEF RanToEnd
  <1>10. ServersTyped'
    BY <1>1, <1>2, <1>3, MigrationsTyped, StartSweeps DEF ServersTyped
  <1>11. KeepsOrder(s)'
    <2>1. v + 1 \in 1 .. Len(MIGRATIONS) + 1 /\ v + 1 - 1 = v
      BY <1>3, MigrationsTyped
    <2>2. at'[s][1] = v + 1 /\ at'[s][2] = 1
      BY <1>4
    <2>3. at'[s][1] - 1 = v /\ at'[s][2] - 1 = 0
      BY <1>3, <2>2, MigrationsTyped
    <2>4. 1 .. at'[s][1] - 1 \subseteq RecordedVersions'
      BY <1>7, <2>3
    <2>5. \A j \in 1 .. at'[s][2] - 1 : FALSE
      BY <2>3
    <2>6. at'[s][1] \in 1 .. Len(MIGRATIONS) + 1 /\ at'[s][2] \in Nat \ {0}
      BY <2>1, <2>2
    <2> QED
      BY <2>4, <2>5, <2>6 DEF KeepsOrder
  <1>12. ListOfSweep(s)'
    BY StartSweeps DEF ListOfSweep
  <1> QED
    BY <1>2, <1>4, <1>5, <1>8, <1>9, <1>10, <1>11, <1>12, StartSweeps, ServerIInv

\* A start that fails, is done, or is cut short.
LEMMA StopIInv ==
    ASSUME IInv, NEW s \in Servers, Start(s),
           MigrateFails(s) \/ ValidateSchema(s) \/ Crash(s)
    PROVE  IInv'
  <1>1. recorded' = recorded /\ executed' = executed
    BY DEF MigrateFails, ValidateSchema, Crash, schema
  <1>2. \/ pc' = [pc EXCEPT ![s] = "down"] /\ at' = [at EXCEPT ![s] = Stopped]
        \/ pc' = [pc EXCEPT ![s] = "up"] /\ at' = at
    BY DEF MigrateFails, ValidateSchema, Crash, Die, Goto
  <1> QED
    BY <1>1, <1>2, StartSweeps, PlaceIInv

-----------------------------------------------------------------------------
(* The sweep and the rest.                                                  *)

\* A step that leaves the servers' places and the schema's history alone.
LEMMA StillIInv ==
    ASSUME IInv, UNCHANGED <<recorded, executed, pc, at, now>>, DOMAIN todo' = Servers,
           \A q \in Servers : pc[q] # "sweeping" => todo'[q] = todo[q]
    PROVE  IInv'
  <1>1. RecordedVersions' = RecordedVersions
    BY DEF RecordedVersions
  <1>2. ServersTyped' /\ NoGap' /\ RanToEnd'
    BY <1>1 DEF IInv, ServersTyped, NoGap, RanToEnd
  <1>3. \A s \in Servers : KeepsOrder(s)' /\ ListOfSweep(s)'
    BY <1>1 DEF IInv, KeepsOrder, ListOfSweep
  <1> QED
    BY <1>2, <1>3 DEF IInv

\* A sweep moves its own server's list only.
LEMMA SweepIInv ==
    ASSUME IInv, NEW s \in Servers, Sweep(s)
    PROVE  IInv'
  <1>1. ServersTyped
    BY DEF IInv
  <1>2. CASE StartSweep(s)
    <2>1. /\ pc' = [pc EXCEPT ![s] = "sweeping"] /\ at' = at
          /\ recorded' = recorded /\ executed' = executed
          /\ DOMAIN now' = Servers /\ DOMAIN todo' = Servers
          /\ \A q \in Servers \ {s} : todo'[q] = todo[q]
      BY <1>1, <1>2 DEF StartSweep, Goto, schema, ServersTyped
    <2> QED
      BY <2>1, PlaceIInv
  <1>3. CASE ExpireInBlock(s) \/ BlockFails(s)
    <2>1. /\ pc[s] = "sweeping" /\ pc' = pc /\ at' = at /\ now' = now
          /\ recorded' = recorded /\ executed' = executed
          /\ todo' = [todo EXCEPT ![s] = Tail(todo[s])]
      BY <1>3 DEF ExpireInBlock, BlockFails, Sweeping, Advance, startup, schema
    <2>2. DOMAIN todo' = Servers /\ \A q \in Servers \ {s} : todo'[q] = todo[q]
      BY <1>1, <2>1 DEF ServersTyped
    <2> QED
      BY <2>1, <2>2, StillIInv
  <1>4. CASE Reap(s)
    <2>1. /\ pc' = [pc EXCEPT ![s] = "up"] /\ at' = at
          /\ recorded' = recorded /\ executed' = executed
          /\ DOMAIN now' = Servers /\ DOMAIN todo' = Servers /\ todo'[s] = <<>>
          /\ \A q \in Servers \ {s} : todo'[q] = todo[q]
      BY <1>1, <1>4 DEF Reap, EndSweep, Goto, schema, ServersTyped
    <2> QED
      BY <2>1, PlaceIInv
  <1> QED
    BY <1>2, <1>3, <1>4 DEF Sweep

\* The invariant is inductive.
LEMMA NextIInv == IInv /\ [Next]_vars => IInv'
  <1> SUFFICES ASSUME IInv, [Next]_vars PROVE IInv'
    OBVIOUS
  <1>1. ASSUME NEW s \in Servers, Start(s) PROVE IInv'
    BY <1>1, ReadVersionIInv, ExecuteIInv, RecordIInv, StopIInv DEF Start, StartupStep
  <1>2. ASSUME NEW s \in Servers, Sweep(s) PROVE IInv'
    BY <1>2, SweepIInv
  <1>3. ASSUME UNCHANGED <<startup, sweeps>> PROVE IInv'
    <2>1. UNCHANGED <<recorded, executed, pc, at, now, todo>>
      BY <1>3 DEF startup, schema, sweeps
    <2>2. DOMAIN todo' = Servers
      BY <2>1 DEF IInv, ServersTyped
    <2> QED
      BY <2>1, <2>2, StillIInv
  <1>4. ASSUME NEW a \in AllocIds, Allocate(a) \/ Update(a) PROVE IInv'
    BY <1>3, <1>4 DEF Allocate, Update
  <1>5. CASE Tick \/ UNCHANGED vars
    BY <1>3, <1>5 DEF Tick, vars
  <1> QED
    BY <1>1, <1>2, <1>4, <1>5 DEF Next

\* What holds in every state: the schema's history is in order, and so is what
\* each server knows of it.
THEOREM Invariant == Spec => []IInv
  BY InitIInv, NextIInv, PTL DEF Spec

\* migrate's MAX(version) stands for every version below it, each of whose
\* statements ran, whoever crashed or raced on the way.
THEOREM VersionsInOrder == Spec => []RecordedInOrder
  <1>1. IInv => RecordedInOrder
    <2> SUFFICES ASSUME IInv, NEW v \in RecordedVersions
                 PROVE  /\ 1 .. v \subseteq RecordedVersions
                        /\ \A i \in DOMAIN MIGRATIONS[v] : <<v, i>> \in executed
      BY DEF RecordedInOrder
    <2>1. PICK n \in 0 .. Len(MIGRATIONS) : RecordedVersions = 1 .. n
      BY DEF IInv, NoGap
    <2>2. n \in Nat
      BY MigrationsTyped
    <2>3. 1 .. v \subseteq RecordedVersions
      BY <2>1, <2>2
    <2> QED
      BY <2>3 DEF IInv, RanToEnd
  <1> QED
    BY <1>1, Invariant, PTL

-----------------------------------------------------------------------------
\* A sweep, at the ExpireInBlock of one of its blocks, releases what is due at
\* that moment, whatever it listed before and whatever callers did since.
THEOREM SweepsSpareTheRest == Spec => SparesTheRest
  <1> DEFINE Spares ==
        \A a \in AllocIds :
            (\E s \in Servers : todo'[s] # todo[s]) /\ allocs'[a] # allocs[a] => Due(a, clock)
  <1>1. ASSUME IInv, [Next]_vars PROVE Spares
    <2>1. ASSUME todo' = todo \/ allocs' = allocs PROVE Spares
      BY <2>1
    <2>2. ASSUME NEW s \in Servers, Start(s) PROVE Spares
      <3>1. CASE ReadVersion(s) \/ Execute(s) \/ Record(s)
        <4>1. pc[s] = "down" \/ pc[s] = "migrating"
          <5>1. ReadVersion(s) => pc[s] = "down"
            BY DEF ReadVersion
          <5>2. Execute(s) => pc[s] = "migrating"
            BY DEF Execute, Running
          <5>3. Record(s) => pc[s] = "migrating"
            BY DEF Record, Finished, Running
          <5> QED
            BY <3>1, <5>1, <5>2, <5>3
        <4>2. todo[s] = <<>> /\ DOMAIN todo = Servers
          BY <1>1, <4>1 DEF IInv, ListOfSweep, ServersTyped
        <4>3. \A q \in Servers : todo'[q] = todo[q]
          BY <2>2, <4>2 DEF Start
        <4> QED
          BY <4>3
      <3>2. CASE MigrateFails(s) \/ ValidateSchema(s) \/ Crash(s)
        <4>1. objects' = objects
          BY <3>2 DEF MigrateFails, ValidateSchema, Crash, schema
        <4>2. allocs' = allocs
          BY <2>2, <4>1 DEF Start
        <4> QED
          BY <2>1, <4>2
      <3> QED
        BY <2>2, <3>1, <3>2 DEF Start, StartupStep
    <2>3. ASSUME NEW s \in Servers, ExpireInBlock(s) PROVE Spares
      BY <2>3 DEF ExpireInBlock, Released
    <2>4. ASSUME NEW s \in Servers, Sweep(s) PROVE Spares
      <3>1. StartSweep(s) \/ BlockFails(s) \/ Reap(s) => allocs' = allocs
        BY DEF StartSweep, BlockFails, Reap
      <3> HIDE DEF Spares
      <3> QED
        BY <2>1, <2>3, <2>4, <3>1 DEF Sweep
    <2>5. ASSUME NEW a \in AllocIds, Allocate(a) \/ Update(a) PROVE Spares
      <3>1. todo' = todo
        BY <2>5 DEF Allocate, Update, sweeps
      <3> QED
        BY <2>1, <3>1
    <2>6. CASE Tick \/ UNCHANGED vars
      <3>1. todo' = todo
        BY <2>6 DEF Tick, vars, sweeps
      <3> QED
        BY <2>1, <3>1
    <2> HIDE DEF Spares
    <2> QED
      BY <1>1, <2>2, <2>4, <2>5, <2>6 DEF Next
  <1> QED
    BY <1>1, Invariant, PTL DEF Spec, SparesTheRest
=============================================================================
