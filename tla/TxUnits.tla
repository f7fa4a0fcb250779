------------------------------ MODULE TxUnits ------------------------------
(***************************************************************************)
(* Transaction units as the stores run them (execute in                    *)
(* src/ipam/mutation.rs, transact in src/ipam/postgres and src/ipam/sqlite *)
(* and the IpamOps methods that call it): a request takes a pooled         *)
(* connection, then its Lock Scope, makes its reads one by one, decides on *)
(* what it read, and commits.  Reads see what is committed when they run.  *)
(***************************************************************************)
EXTENDS Mutations

CONSTANTS
    Procs,       \* concurrent callers
    Requests,    \* the requests they make
    TTL,         \* how long an idempotency record is kept
    PoolSize,    \* connections in the pool
    LockKey(_),  \* the lock a Lock Scope maps to; two scopes may share one
    Detached,    \* TRUE: a unit outlives its caller (SQLite); FALSE: it is
                 \* rolled back when the caller goes away (Postgres)
    MaxClock,    \* bound on time
    MaxRows      \* bound on the ids of a table

ASSUME RequestsAssumption == Requests \subseteq Mutation /\ NULL \notin Mutation

\* LoadDump checks neither overlap nor containment: a dump is an export.
ASSUME DumpsAssumption == \A r \in Requests : r.kind = "load" => SoundDump(r.dump)
ASSUME BoundsAssumption ==
    TTL \in Nat /\ PoolSize \in Nat \ {0} /\ MaxClock \in Nat /\ MaxRows \in Nat
ASSUME DetachedAssumption == Detached \in BOOLEAN

VARIABLES
    clock,  \* the time
    pc,     \* where each caller is
    unit,   \* the request it runs, NULL when idle
    start,  \* cx.now: the time it captured before its unit began
    view    \* what its unit has read so far, by part

callers == <<pc, unit, start, view>>
vars == <<tables, clock, callers>>

Init ==
    /\ TablesInit
    /\ clock = 0
    /\ pc = [p \in Procs |-> "idle"]
    /\ unit = [p \in Procs |-> NULL]
    /\ start = [p \in Procs |-> 0]
    /\ view = [p \in Procs |-> <<>>]

Atomic == INSTANCE AtomicIpam

-----------------------------------------------------------------------------
Connected == {p \in Procs : pc[p] \in {"connected", "locked"}}
Locked == {p \in Procs : pc[p] = "locked"}
Waiting == {p \in Procs : pc[p] \in {"queued", "connected"}}

\* The tables a request may add a row to.
Grows(r) ==
    CASE r.kind \in {"specific", "auto"} -> {"alloc"}
      [] r.kind = "create" -> {"block"}
      [] r.kind = "load" -> {"block", "alloc"}
      [] r.kind = "pointer" -> {"pointer"}
      [] OTHER -> {}

\* An id a request names has been issued.
Issued(r) ==
    /\ r.kind \in BlockKinds \ ResolvedKinds => r.block < nextId.block
    /\ r.kind \in ResolvedKinds => r.alloc < nextId.alloc
    /\ r.kind = "pointer" /\ r.alloc # NULL => r.alloc < nextId.alloc
    /\ r.kind \in {"specific", "auto"} /\ r.parent # NULL => r.parent < nextId.alloc

\* Bound: a table has an id left for each unit in flight that may need one.
Room(r) ==
    \A table \in Grows(r) :
        nextId[table] + Cardinality({p \in Procs : pc[p] # "idle" /\ table \in Grows(unit[p])})
            < MaxRows

\* The caller's unit is over.
Finish(p) ==
    /\ pc' = [pc EXCEPT ![p] = "idle"]
    /\ unit' = [unit EXCEPT ![p] = NULL]
    /\ start' = [start EXCEPT ![p] = 0]
    /\ view' = [view EXCEPT ![p] = <<>>]
    /\ UNCHANGED clock

-----------------------------------------------------------------------------
Submit(p, r) ==
    /\ pc[p] = "idle" /\ Issued(r) /\ Room(r)
    /\ unit' = [unit EXCEPT ![p] = r]
    /\ pc' = [pc EXCEPT ![p] = IF r.kind \in ResolvedKinds THEN "resolving" ELSE "queued"]
    /\ start' = [start EXCEPT ![p] = clock]
    /\ UNCHANGED <<view, clock, tables>>

\* get_allocation, outside any unit, to learn which block to lock.
Resolve(p) ==
    /\ pc[p] = "resolving" /\ Cardinality(Connected) < PoolSize
    /\ \E m \in Resolutions(unit[p]) : unit' = [unit EXCEPT ![p] = m]
    /\ pc' = [pc EXCEPT ![p] = "queued"]
    /\ start' = [start EXCEPT ![p] = clock]
    /\ UNCHANGED <<view, clock, tables>>

ResolveFails(p) ==
    /\ pc[p] = "resolving" /\ Cardinality(Connected) < PoolSize
    /\ Resolutions(unit[p]) = {}
    /\ Finish(p) /\ UNCHANGED tables

Connect(p) ==
    /\ pc[p] = "queued" /\ Cardinality(Connected) < PoolSize
    /\ pc' = [pc EXCEPT ![p] = "connected"]
    /\ UNCHANGED <<unit, start, view, clock, tables>>

\* Mutants of AcquireScope: the scope is not exclusive; or it is taken on a
\* second connection while the first is held.
AcquireShared(p) ==
    /\ pc[p] = "connected"
    /\ pc' = [pc EXCEPT ![p] = "locked"]
    /\ UNCHANGED <<unit, start, view, clock, tables>>
AcquireOnSecondConnection(p) ==
    /\ AcquireShared(p) /\ Cardinality(Connected) < PoolSize
    /\ \A q \in Locked : LockKey(scope(unit[q])) # LockKey(scope(unit[p]))

AcquireScope(p) ==
    /\ pc[p] = "connected"
    /\ \A q \in Locked : LockKey(scope(unit[q])) # LockKey(scope(unit[p]))
    /\ pc' = [pc EXCEPT ![p] = "locked"]
    /\ UNCHANGED <<unit, start, view, clock, tables>>

\* The wait for a connection or for the scope timed out: StoreBusy.
Busy(p) ==
    /\ p \in Waiting
    /\ Finish(p) /\ UNCHANGED tables

\* The next read, in declaration order.
Read(p) ==
    /\ p \in Locked
    /\ \E part \in reads(unit[p]) \ DOMAIN view[p] :
        /\ \A other \in reads(unit[p]) \ DOMAIN view[p] : rank[part] <= rank[other]
        /\ view' = [view EXCEPT ![p] = With(Only(part, read_one(unit[p], part)), @)]
    /\ UNCHANGED <<pc, unit, start, clock, tables>>

-----------------------------------------------------------------------------
(* The decision.                                                            *)

Loaded(p) == p \in Locked /\ DOMAIN view[p] = reads(unit[p])
Decided(p) == Loaded(p) /\ ~ Found(unit[p], view[p]) /\ Accepts(unit[p], view[p])

\* The key's record answers the request, or conflicts with it.
Replay(p) ==
    /\ Loaded(p) /\ Found(unit[p], view[p])
    /\ Finish(p) /\ UNCHANGED tables

\* decide returned an error.
Reject(p) ==
    /\ Loaded(p) /\ ~ Found(unit[p], view[p]) /\ ~ Accepts(unit[p], view[p])
    /\ Finish(p) /\ UNCHANGED tables

Commit(p) ==
    /\ Decided(p)
    /\ \E plan \in Plans(unit[p], view[p], start[p]) :
        /\ ConstraintsHold(plan)
        /\ Apply(plan)
        /\ Remember(unit[p], plan, start[p], TTL)
    /\ Finish(p)

\* A write failed a constraint: rollback.
ConstraintFails(p) ==
    /\ Decided(p)
    /\ \E plan \in Plans(unit[p], view[p], start[p]) : ~ ConstraintsHold(plan)
    /\ Finish(p) /\ UNCHANGED tables

\* The caller goes away (a request timeout, a closed connection).
Drop(p) ==
    /\ pc[p] # "idle"
    /\ Detached => pc[p] = "resolving"
    /\ Finish(p) /\ UNCHANGED tables

\* The server stops: every unit in flight is rolled back.
Crash ==
    /\ \E p \in Procs : pc[p] # "idle"
    /\ pc' = [p \in Procs |-> "idle"]
    /\ unit' = [p \in Procs |-> NULL]
    /\ start' = [p \in Procs |-> 0]
    /\ view' = [p \in Procs |-> <<>>]
    /\ UNCHANGED <<clock, tables>>

ReapIdempotency(now) == Atomic!ReapIdempotency(now) /\ UNCHANGED callers

Tick ==
    /\ clock < MaxClock
    /\ clock' = clock + 1
    /\ UNCHANGED <<callers, tables>>

\* The steps of a unit that has what it waits for.
Run(p) ==
    Read(p) \/ Replay(p) \/ Reject(p) \/ Commit(p) \/ ConstraintFails(p)

\* The waits: all but the scope's are for a pooled connection.
Wait(p) == Resolve(p) \/ ResolveFails(p) \/ Connect(p)

Next ==
    \/ \E p \in Procs :
        \/ \E r \in Requests : Submit(p, r)
        \/ Wait(p) \/ AcquireScope(p) \/ Busy(p) \/ Run(p) \/ Drop(p)
    \/ Crash
    \/ \E now \in 0 .. clock : ReapIdempotency(now)
    \/ Tick

Spec == Init /\ [][Next]_vars

\* Both pools hand out connections, and Postgres its advisory locks, in the
\* order they were asked for, so no caller is passed over forever; a unit that
\* has what it waits for runs on.  Nothing is assumed of timeouts, of callers
\* that go away, or of the clock.
Fairness ==
    \A p \in Procs : WF_vars(Run(p)) /\ SF_vars(Wait(p)) /\ SF_vars(AcquireScope(p))

FairSpec == Spec /\ Fairness

-----------------------------------------------------------------------------
(* Properties.                                                              *)

\* Type invariant: rows have their columns, ids are below the next one to
\* issue, and a caller holds a request exactly while it is not idle.
TypeOK ==
    /\ clock \in Nat
    /\ nextId \in [{"block", "alloc", "pointer"} -> Nat]
    /\ IsTable(blocks, nextId.block, CidrBlock)
    /\ IsTable(allocs, nextId.alloc, Allocation)
    /\ IsTable(pointers, nextId.pointer, HostnamePointer)
    /\ pc \in [Procs -> {"idle", "resolving", "queued", "connected", "locked"}]
    /\ unit \in [Procs -> Optional(Mutation)]
    /\ start \in [Procs -> 0 .. clock]
    /\ \A p \in Procs : pc[p] = "idle" <=> unit[p] = NULL
    /\ \A p \in Procs : pc[p] # "locked" => view[p] = <<>>
    /\ \A p \in Locked : DOMAIN view[p] \subseteq reads(unit[p])

\* No two live allocations of a block overlap (README.md:951), whatever the
\* interleaving of allocate, release, reactivate, expire and delete.
NoLiveOverlap ==
    \A a, b \in DOMAIN allocs :
        a # b /\ allocs[a].block = allocs[b].block
              /\ allocs[a].status \in LIVE /\ allocs[b].status \in LIVE
        => ~ ranges_overlap(allocs[a].cidr, allocs[b].cidr)

\* Every allocation lies in its block, which exists and is of its tenant and
\* its address family.
InOwnBlock ==
    \A a \in DOMAIN allocs :
        LET row == allocs[a] IN
        /\ row.block \in DOMAIN blocks
        /\ blocks[row.block].tenant = row.tenant
        /\ same_ip_version(blocks[row.block].cidr, row.cidr)
        /\ range_contains(blocks[row.block].cidr, row.cidr)

\* The cidr blocks of a tenant do not overlap (create checks it; a dump is
\* assumed sound), although deletes run under another scope.
BlocksDisjoint ==
    \A b, c \in DOMAIN blocks :
        b # c /\ blocks[b].tenant = blocks[c].tenant
        => ~ ranges_overlap(blocks[b].cidr, blocks[c].cidr)

\* What a unit has read under its scope is still so when it decides.  Four
\* reads are of rows another scope writes: a parent and a pointer's
\* allocation may have changed, of the tenant's blocks some may be gone, and
\* an idempotency record that was found may have been swept.
StableView(m, v) ==
    \A part \in DOMAIN v :
        CASE part = "blocks" ->
               \A b \in DOMAIN BlocksOf(m.tenant) : b \in DOMAIN v.blocks /\ v.blocks[b] = blocks[b]
          [] part = "parent" \/ (part = "alloc" /\ m.kind = "pointer") -> TRUE
          [] part = "idem" -> v.idem = NULL => read_one(m, "idem") = NULL
          [] OTHER -> v[part] = read_one(m, part)

ViewsCurrent == \A p \in Locked : StableView(unit[p], view[p])

\* Foreign keys hold across scopes: a pointer's allocation and a parent are
\* there, though neither is locked by the unit that links to it.
NoDangling ==
    /\ \A p \in DOMAIN pointers : pointers[p].alloc \in Optional(DOMAIN allocs)
    /\ \A a \in DOMAIN allocs : allocs[a].parent \in Optional(DOMAIN allocs)

\* The hostname history explains the pointers: those created and not deleted.
HistoryExplains ==
    LET with(kind) == {id \in 0 .. nextId.pointer - 1 : HistoryEntry(id, kind) \in history}
    IN  DOMAIN pointers = with("create") \ with("delete")

\* The audit trail explains the blocks: those created or loaded and not
\* deleted.  No row changes without its fact, and no fact outlives a rollback.
AuditExplains ==
    LET with(actions) ==
          {b \in 0 .. nextId.block - 1 : \E f \in actions : Fact(f, "block", b) \in audit}
    IN  DOMAIN blocks = with({"create_cidr_block", "load"}) \ with({"delete_cidr_block"})

\* A key's effects happen once: its record is never written over (the stores
\* upsert), so the response a retry replays is that of the only run.
RecordsKept ==
    [][\A k \in DOMAIN idem \cap DOMAIN idem' : idem'[k] = idem[k]]_vars

\* Units are atomic: the system implements AtomicIpam.
Serializable == Atomic!Spec

\* No deadlock between the pool and the scopes: a caller that neither times
\* out nor goes away gets its answer.
Finishes == \A p \in Procs : pc[p] # "idle" ~> pc[p] = "idle"
=============================================================================
