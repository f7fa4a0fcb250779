------------------------------ MODULE Sweeper ------------------------------
(***************************************************************************)
(* Servers that are up sweep: every so often, or when a schedule says so,  *)
(* each releases the allocations that are past their time, block by block  *)
(* (src/ipam/sweeper.rs, sweep_expired, ExpireInBlock, the scheduled       *)
(* invocation of src/bin/lambda.rs).  Blocks fail, servers crash and start *)
(* again, several sweep at once.  What ends a sweep is elsewhere: the      *)
(* reaping of tokens in Directory, of idempotency records in TxUnits.      *)
(***************************************************************************)
EXTENDS Startup, SequencesExt

CONSTANTS
    BlockIds,   \* numbers: their order is that of due_expiry_blocks
    Failing,    \* blocks whose unit fails whenever it is tried
    AllocIds, BlockOf,
    Table,      \* where the allocations are
    MaxClock    \* bound on time

ASSUME BlocksAssumption == BlockIds \subseteq Nat /\ Failing \subseteq BlockIds
ASSUME AllocsAssumption == BlockOf \in [AllocIds -> BlockIds]
ASSUME TableAssumption == Table \in Objects
ASSUME MaxClockAssumption == MaxClock \in Nat

VARIABLES
    clock,
    allocs,   \* status and expires_at; what lies after MaxClock never comes
    now,      \* the time a server's sweep began
    todo      \* the blocks it still has to go through

sweeps == <<now, todo>>
vars == <<startup, clock, allocs, sweeps>>

Times == 1 .. MaxClock + 1
NoRows == [a \in AllocIds |-> [status |-> "none", expires_at |-> 0]]

Init ==
    /\ StartupInit
    /\ clock = 0
    /\ allocs = NoRows
    /\ now = [s \in Servers |-> 0]
    /\ todo = [s \in Servers |-> <<>>]

LiveIn(b) == {a \in AllocIds : BlockOf[a] = b /\ allocs[a].status = "live"}
Due(a, time) == allocs[a].status = "live" /\ allocs[a].expires_at <= time

-----------------------------------------------------------------------------
(* A sweep.                                                                 *)

EndSweep(s) ==
    /\ Goto(s, "up")
    /\ now' = [now EXCEPT ![s] = 0]
    /\ todo' = [todo EXCEPT ![s] = <<>>]

\* due_expiry_blocks.
DueBlocks(time) ==
    SetToSortSeq({b \in BlockIds : \E a \in LiveIn(b) : Due(a, time)}, <)

StartSweep(s) ==
    /\ pc[s] = "up" /\ Table \in objects
    /\ now' = [now EXCEPT ![s] = clock]
    /\ todo' = [todo EXCEPT ![s] = DueBlocks(clock)]
    /\ Goto(s, "sweeping")
    /\ UNCHANGED <<schema, at, crashes, clock, allocs>>

Sweeping(s) == pc[s] = "sweeping" /\ todo[s] # <<>>

Advance(s) ==
    /\ todo' = [todo EXCEPT ![s] = Tail(@)]
    /\ UNCHANGED <<startup, clock, now>>

Released(ids) ==
    allocs' = [a \in AllocIds |->
                  IF a \in ids THEN [allocs[a] EXCEPT !.status = "released"] ELSE allocs[a]]

\* Mutant of ExpireInBlock: what the list saw due is not read again.
ExpireListed(s) ==
    /\ Sweeping(s) /\ Head(todo[s]) \notin Failing /\ Table \in objects
    /\ Released(LiveIn(Head(todo[s])))
    /\ Advance(s)

\* One unit: it reads the block again, with the time of its own decision.
ExpireInBlock(s) ==
    /\ Sweeping(s) /\ Head(todo[s]) \notin Failing /\ Table \in objects
    /\ Released({a \in LiveIn(Head(todo[s])) : Due(a, clock)})
    /\ Advance(s)

\* Mutant of BlockFails: the error is handed up.
BlockFailsSweep(s) ==
    /\ Sweeping(s)
    /\ EndSweep(s)
    /\ UNCHANGED <<schema, at, crashes, clock, allocs>>

\* The unit is rolled back, the block counted and left.
BlockFails(s) ==
    /\ Sweeping(s)
    /\ UNCHANGED allocs
    /\ Advance(s)

\* The expired idempotency records and tokens are deleted, or a query fails
\* and the next tick tries again.
Reap(s) ==
    /\ pc[s] = "sweeping" /\ todo[s] = <<>>
    /\ EndSweep(s)
    /\ UNCHANGED <<schema, at, crashes, clock, allocs>>

-----------------------------------------------------------------------------
(* Everything else.                                                         *)

Serving == Table \in objects /\ \E s \in Servers : pc[s] \in {"up", "sweeping"}

\* Rows go with their table.
Start(s) ==
    /\ StartupStep(s)
    /\ now' = [now EXCEPT ![s] = 0] /\ todo' = [todo EXCEPT ![s] = <<>>]
    /\ allocs' = IF Table \in objects \ objects' THEN NoRows ELSE allocs
    /\ UNCHANGED clock

\* With a TTL, or none.
Allocate(a) ==
    /\ Serving /\ allocs[a].status = "none"
    /\ \E time \in {t \in Times : t > clock} :
        allocs' = [allocs EXCEPT ![a] = [status |-> "live", expires_at |-> time]]
    /\ UNCHANGED <<startup, clock, sweeps>>

\* A caller releases it, or makes it live again: its expires_at stays.
Update(a) ==
    /\ Serving /\ allocs[a].status # "none"
    /\ allocs' = [allocs EXCEPT ![a].status = IF @ = "live" THEN "released" ELSE "live"]
    /\ UNCHANGED <<startup, clock, sweeps>>

Tick ==
    /\ clock < MaxClock
    /\ clock' = clock + 1
    /\ UNCHANGED <<startup, allocs, sweeps>>

Sweep(s) == StartSweep(s) \/ ExpireInBlock(s) \/ BlockFails(s) \/ Reap(s)

Next ==
    \/ \E s \in Servers : Start(s) \/ Sweep(s)
    \/ \E a \in AllocIds : Allocate(a) \/ Update(a)
    \/ Tick

\* The ticker comes back and a sweep goes on: a server that is up does its next
\* step.  Units fail now and then, but not for ever, other than those of the
\* Failing blocks.
Spec ==
    /\ Init /\ [][Next]_vars
    /\ \A s \in Servers :
        /\ WF_vars(Sweep(s))
        /\ \A b \in BlockIds \ Failing : SF_vars(ExpireInBlock(s) /\ Head(todo[s]) = b)

-----------------------------------------------------------------------------
(* Properties.                                                              *)

Up(s) == pc[s] \in {"up", "sweeping"}

\* While a server stays up, whatever is due is released, in every block but
\* those that always fail: neither they nor other servers' sweeps keep it.
DueIsReleased ==
    (\E s \in Servers : <>[]Up(s)) =>
        \A a \in AllocIds : BlockOf[a] \notin Failing => (Due(a, clock) ~> ~ Due(a, clock))

\* A sweep releases nothing that is not due when it is released, although it
\* listed the block earlier and callers released and made live meanwhile.
SparesTheRest ==
    [][\A a \in AllocIds :
        (\E s \in Servers : todo'[s] # todo[s]) /\ allocs'[a] # allocs[a] => Due(a, clock)]_vars
=============================================================================
