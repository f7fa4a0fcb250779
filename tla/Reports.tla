------------------------------ MODULE Reports ------------------------------
(***************************************************************************)
(* Reports, searches, dumps, batch releases and remote listings: calls of  *)
(* IpamOps that read the store several times outside any unit, and clients *)
(* that walk a listing page by page (src/ipam/operations.rs, the list      *)
(* queries of the stores, src/ipam/http_client.rs, src/ipam/backend.rs),   *)
(* while units of others change the store between the reads.  The units    *)
(* are atomic, keep blocks disjoint, and live allocations in their block   *)
(* and apart, which is what TxUnits shows of them; ids are not reused.     *)
(***************************************************************************)
EXTENDS Integers, Sequences, FiniteSets, SequencesExt

CONSTANTS
    NULL, Addresses,
    BlockIds, AllocIds,  \* in the order of created_at, not that of the commits:
                         \* it is captured before the unit waits for its lock
    Queries,   \* the calls that are made
    PageSize,  \* PAGE_SIZE of the client
    MaxPage,   \* MAX_PAGE_LIMIT of the server
    MaxPages   \* MAX_PAGES of the client

Statuses == {"active", "reserved", "released"}
LIVE == {"active", "reserved"}

Block == SUBSET Addresses \ {{}}  \* its address space
Row == [block : BlockIds, ip : Addresses, status : Statuses]
Query ==
    [kind : {"utilization", "summary", "find", "dump", "release", "list"},
     block : BlockIds \cup {NULL}, ip : Addresses \cup {NULL}, status : SUBSET Statuses]

ASSUME NullAssumption ==
    NULL \notin BlockIds \cup Addresses \cup Row \cup Query /\ \A row \in Block : row # NULL
ASSUME AddressesAssumption == IsFiniteSet(Addresses)
ASSUME IdsAssumption == BlockIds \cup AllocIds \subseteq Nat
ASSUME QueriesAssumption == Queries \subseteq Query
ASSUME BoundsAssumption == {PageSize, MaxPage, MaxPages} \subseteq Nat \ {0}

\* The client asks for pages the server gives it whole.
ASSUME PageAssumption == PageSize <= MaxPage

VARIABLES
    blocks,  \* by id, a row or NULL
    allocs,  \* by id, a row or NULL
    used,    \* the ids that were given out
    pc,      \* the next read of the call
    query,   \* the call, NULL when there is none
    acc,     \* what it has gathered
    hist     \* history: what was so at some instant of the call

store == <<blocks, allocs, used>>
vars == <<store, pc, query, acc, hist>>

Empty ==
    [space |-> <<>>,  \* of the blocks read
     live |-> <<>>,   \* the allocations counted as live, by block
     todo |-> <<>>,   \* ids still to look at
     ids |-> {},      \* allocations found, dumped or released
     table |-> NULL, offset |-> 0, pages |-> 0, got |-> <<>>]

Forgotten == [kept |-> {}, seen |-> {}, left |-> FALSE]

Init ==
    /\ blocks = [b \in BlockIds |-> NULL]
    /\ allocs = [a \in AllocIds |-> NULL]
    /\ used = [blocks |-> {}, allocs |-> {}]
    /\ pc = "idle" /\ query = NULL /\ acc = Empty /\ hist = Forgotten

-----------------------------------------------------------------------------
(* Queries of the store.                                                    *)

Blocks == {b \in BlockIds : blocks[b] # NULL}
With(b, statuses) ==
    {a \in AllocIds : allocs[a] # NULL /\ allocs[a].block = b /\ allocs[a].status \in statuses}

\* What a listing walks through: the blocks, or a block's allocations.
Table(table) == IF table = NULL THEN Blocks ELSE With(table, query.status)

\* ORDER BY created_at.
InOrder(ids) ==
    CHOOSE s \in [1 .. Cardinality(ids) -> ids] :
        \A i, j \in 1 .. Cardinality(ids) : i < j => s[i] < s[j]

Ordered(table) == InOrder(Table(table))

\* Mutant of page_limit: the server's own pages are shorter than they were.
page_limit_shrunk(limit) == IF limit < MaxPage THEN limit ELSE MaxPage - 1

page_limit(limit) == IF limit < MaxPage THEN limit ELSE MaxPage

\* LIMIT and OFFSET.
Page(s, offset, limit) ==
    LET end == offset + page_limit(limit)
    IN  SubSeq(s, offset + 1, IF end < Len(s) THEN end ELSE Len(s))

-----------------------------------------------------------------------------
(* History.                                                                 *)

\* The allocations a query is about, as things are.
Asked(q) ==
    CASE q.kind = "utilization" -> With(q.block, LIVE)
      [] q.kind = "summary" -> UNION {With(b, LIVE) : b \in Blocks}
      [] q.kind = "find" -> {a \in UNION {With(b, LIVE) : b \in Blocks} : allocs[a].ip = q.ip}
      [] q.kind = "dump" -> UNION {With(b, Statuses) : b \in Blocks}
      [] q.kind = "release" -> {a \in AllocIds : a \notin UNION {With(b, LIVE) : b \in Blocks}}
      [] q.kind = "list" ->
            UNION {With(b, q.status) : b \in IF q.block = NULL THEN Blocks ELSE {q.block}}

\* What was so at every instant, and at some instant, since the call; whether
\* something left what is listed.
Observe ==
    hist' = IF query' = NULL THEN Forgotten
            ELSE IF query = NULL
            THEN [kept |-> Asked(query)', seen |-> Asked(query)', left |-> FALSE]
            ELSE [kept |-> hist.kept \cap Asked(query)', seen |-> hist.seen \cup Asked(query)',
                  left |-> hist.left \/ (query.kind = "list" /\
                      (~ Asked(query) \subseteq Asked(query)' \/ ~ Blocks \subseteq Blocks'))]

-----------------------------------------------------------------------------
(* Units of others.                                                         *)

Others(change) == change /\ UNCHANGED <<pc, query, acc>> /\ Observe

CreateBlock(b) ==
    /\ b \notin used.blocks
    /\ used' = [used EXCEPT !.blocks = @ \cup {b}]
    /\ \E row \in Block :
        /\ \A c \in Blocks : blocks[c] \cap row = {}
        /\ blocks' = [blocks EXCEPT ![b] = row]
    /\ UNCHANGED allocs

\* Released allocations go with their block.
DeleteBlock(b) ==
    /\ blocks[b] # NULL /\ With(b, LIVE) = {}
    /\ blocks' = [blocks EXCEPT ![b] = NULL]
    /\ allocs' = [a \in AllocIds |->
                     IF allocs[a] # NULL /\ allocs[a].block = b THEN NULL ELSE allocs[a]]
    /\ UNCHANGED used

Free(b, ip) == ip \in blocks[b] /\ \A a \in With(b, LIVE) : allocs[a].ip # ip

Allocate(a) ==
    /\ a \notin used.allocs
    /\ used' = [used EXCEPT !.allocs = @ \cup {a}]
    /\ \E row \in Row :
        /\ row.block \in Blocks /\ row.status \in LIVE /\ Free(row.block, row.ip)
        /\ allocs' = [allocs EXCEPT ![a] = row]
    /\ UNCHANGED blocks

Update(a, status) ==
    /\ allocs[a] # NULL /\ allocs[a].status # status
    /\ status \in LIVE /\ allocs[a].status = "released" => Free(allocs[a].block, allocs[a].ip)
    /\ allocs' = [allocs EXCEPT ![a].status = status]
    /\ UNCHANGED <<blocks, used>>

-----------------------------------------------------------------------------
(* The call.                                                                *)

Become(where, gathered) == pc' = where /\ acc' = gathered /\ UNCHANGED query /\ Observe

first_read(q) ==
    CASE q.kind = "utilization" -> "block"
      [] q.kind \in {"summary", "find", "dump"} -> "blocks"
      [] q.kind = "release" -> "resolve"
      [] q.kind = "list" -> "page"

Call(q) ==
    /\ pc = "idle"
    /\ query' = q /\ pc' = first_read(q)
    /\ acc' = [Empty EXCEPT !.table = IF q.kind = "list" THEN q.block ELSE NULL]
    /\ UNCHANGED store /\ Observe

\* The caller has the answer, or the error.
Return ==
    /\ pc # "idle"
    /\ pc' = "idle" /\ query' = NULL /\ acc' = Empty
    /\ UNCHANGED store /\ Observe

\* utilization: the block, then what is live, then what is released.
GetBlock ==
    /\ pc = "block" /\ query.block \in Blocks
    /\ UNCHANGED store
    /\ Become("live", [acc EXCEPT !.space = [b \in {query.block} |-> blocks[b]]])

\* Mutant of FindLive: the reserved ones are read in a query of their own.
FindLiveTwice ==
    /\ pc = "live"
    /\ UNCHANGED store
    /\ IF query.block \notin DOMAIN acc.live
       THEN Become("live", [acc EXCEPT !.live = [b \in {query.block} |-> With(b, {"active"})]])
       ELSE Become("released",
                [acc EXCEPT !.live[query.block] = @ \cup With(query.block, {"reserved"})])

FindLive ==
    /\ pc = "live"
    /\ UNCHANGED store
    /\ Become("released", [acc EXCEPT !.live = [b \in {query.block} |-> With(b, LIVE)]])

FindReleased ==
    /\ pc = "released"
    /\ UNCHANGED store
    /\ Become("done", [acc EXCEPT !.ids = With(query.block, {"released"})])

\* list_cidr_blocks, then one block after the other (allocation_summary,
\* find_by_ip) or every allocation (dump).
ListBlocks ==
    /\ pc = "blocks"
    /\ UNCHANGED store
    /\ Become(IF query.kind = "dump" THEN "allocations" ELSE "each",
              [acc EXCEPT !.todo = Ordered(NULL), !.space = [b \in Blocks |-> blocks[b]]])

ListAllocations ==
    /\ pc = "allocations"
    /\ UNCHANGED store
    /\ Become("done", [acc EXCEPT !.ids = UNION {With(b, Statuses) : b \in BlockIds}])

Summarize ==
    /\ pc = "each" /\ query.kind = "summary" /\ acc.todo # <<>>
    /\ UNCHANGED store
    /\ LET b == Head(acc.todo)
       IN  Become("each",
               [acc EXCEPT !.todo = Tail(@),
                           !.live = [c \in DOMAIN acc.live \cup {b} |->
                                        IF c = b THEN With(b, LIVE) ELSE acc.live[c]]])

\* Mutant of Search: released allocations are found too.
SearchAny ==
    /\ pc = "each" /\ query.kind = "find" /\ acc.todo # <<>>
    /\ UNCHANGED store
    /\ LET b == Head(acc.todo)
           hits == IF query.ip \in acc.space[b]
                   THEN {a \in With(b, Statuses) : allocs[a].ip = query.ip} ELSE {}
       IN  Become("each", [acc EXCEPT !.todo = Tail(@), !.ids = @ \cup hits])

Search ==
    /\ pc = "each" /\ query.kind = "find" /\ acc.todo # <<>>
    /\ UNCHANGED store
    /\ LET b == Head(acc.todo)
           hits == IF query.ip \in acc.space[b]
                   THEN {a \in With(b, LIVE) : allocs[a].ip = query.ip} ELSE {}
       IN  Become("each", [acc EXCEPT !.todo = Tail(@), !.ids = @ \cup hits])

Exhausted ==
    /\ pc = "each" /\ acc.todo = <<>>
    /\ UNCHANGED store /\ Become("done", acc)

\* batch_release of a block: the active allocations, then a unit for each.
ResolveActive ==
    /\ pc = "resolve"
    /\ UNCHANGED store
    /\ Become("release", [acc EXCEPT !.todo = InOrder(With(query.block, {"active"}))])

\* Mutant of ReleaseNext: what is not active any more counts as released.
ReleaseActiveOnly ==
    /\ pc = "release" /\ acc.todo # <<>>
    /\ UNCHANGED <<blocks, used>>
    /\ LET a == Head(acc.todo) IN
        IF allocs[a] = NULL
        THEN allocs' = allocs /\ Become("release", [acc EXCEPT !.todo = Tail(@)])
        ELSE /\ allocs' = IF allocs[a].status # "active" THEN allocs
                          ELSE [allocs EXCEPT ![a].status = "released"]
             /\ Become("release", [acc EXCEPT !.todo = Tail(@), !.ids = @ \cup {a}])

\* Releasing a released one succeeds; one that is gone is an error item.
ReleaseNext ==
    /\ pc = "release" /\ acc.todo # <<>>
    /\ UNCHANGED <<blocks, used>>
    /\ LET a == Head(acc.todo) IN
        IF allocs[a] = NULL
        THEN allocs' = allocs /\ Become("release", [acc EXCEPT !.todo = Tail(@)])
        ELSE /\ allocs' = [allocs EXCEPT ![a].status = "released"]
             /\ Become("release", [acc EXCEPT !.todo = Tail(@), !.ids = @ \cup {a}])

Released ==
    /\ pc = "release" /\ acc.todo = <<>>
    /\ UNCHANGED store /\ Become("done", acc)

-----------------------------------------------------------------------------
(* The remote client's walk.                                                *)

\* Where a walk goes when its table is done: a listing of all blocks goes on
\* with the allocations of each, as it found them.
NextTable(gathered) ==
    LET todo == IF acc.table = NULL THEN gathered.got ELSE acc.todo
        ids == IF acc.table = NULL THEN acc.ids ELSE acc.ids \cup ToSet(gathered.got)
    IN  IF todo = <<>> THEN Become("done", [gathered EXCEPT !.ids = ids])
        ELSE Become("page",
                [gathered EXCEPT !.ids = ids, !.table = Head(todo), !.todo = Tail(todo),
                                 !.offset = 0, !.pages = 0, !.got = <<>>])

\* A page that is short is the last.
GetPage ==
    /\ pc = "page" /\ acc.pages < MaxPages
    /\ UNCHANGED store
    /\ LET page == Page(Ordered(acc.table), acc.offset, PageSize)
           gathered == [acc EXCEPT !.got = @ \o page, !.pages = @ + 1, !.offset = @ + PageSize]
       IN  IF Len(page) < PageSize THEN NextTable(gathered) ELSE Become("page", gathered)

Next ==
    \/ \E b \in BlockIds : Others(CreateBlock(b)) \/ Others(DeleteBlock(b))
    \/ \E a \in AllocIds :
        Others(Allocate(a)) \/ \E status \in Statuses : Others(Update(a, status))
    \/ \E q \in Queries : Call(q)
    \/ GetBlock \/ FindLive \/ FindReleased \/ ListBlocks \/ ListAllocations
    \/ Summarize \/ Search \/ Exhausted \/ ResolveActive \/ ReleaseNext \/ Released
    \/ GetPage \/ Return

Spec == Init /\ [][Next]_vars

-----------------------------------------------------------------------------
(* Properties.                                                              *)

\* The allocations an answer counts, lists or reports as released.
Answer == acc.ids \cup UNION {acc.live[b] : b \in DOMAIN acc.live}

\* No report says that a block is fuller than it is large, although the block
\* and its allocations are read apart: "free" is a difference of the two.
NeverOverfull ==
    \A b \in DOMAIN acc.live : Cardinality(acc.live[b]) <= Cardinality(acc.space[b])

\* An address has one holder in an answer of find_by_ip, whatever moves between
\* the reads of the blocks.
OneHolder == query # NULL /\ query.kind = "find" => Cardinality(acc.ids) <= 1

\* What was so all through a call is in its answer: the allocation that held
\* the address, what was live in the block, and every row of a listing from
\* which nothing was taken while its pages were fetched, although others were
\* put into it (http_client.rs:93: "stopping at the first page would silently
\* truncate the result").
NoneMissing ==
    pc = "done" /\ query.kind # "release" /\ (query.kind = "list" => ~ hist.left)
    => hist.kept \subseteq Answer

\* What is in an answer was so at some instant of the call: live, at that
\* address, of that status; of batch_release, released.
WasSo ==
    pc = "done" => (IF query.kind = "utilization" THEN acc.live[query.block] ELSE Answer)
                       \subseteq hist.seen
=============================================================================
