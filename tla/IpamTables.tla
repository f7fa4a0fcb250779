----------------------------- MODULE IpamTables -----------------------------
(***************************************************************************)
(* The tables of the IPAM store (src/ipam/sqlite and src/ipam/postgres):   *)
(* their rows, the reads a transaction unit may declare, the constraints   *)
(* of the schema, and what applying a unit's plan does to them.            *)
(*                                                                         *)
(* A table is a function from row ids to rows.  Row ids are UUIDs in the   *)
(* code, so an id is never issued twice; here each table counts the ids it *)
(* has issued.  Descriptive columns (names, notes, owners) are left out.   *)
(***************************************************************************)
EXTENDS IpRanges, Functions

CONSTANTS
    Tenants,  \* tenant ids
    TagSets,  \* the values of an allocation's tags
    Pairs,    \* (ip address, hostname) pairs a pointer can be about
    Keys,     \* caller-supplied idempotency keys
    NULL      \* an absent row or column

ASSUME NullAssumption == NULL \notin Nat

VARIABLES
    blocks,    \* cidr_blocks
    allocs,    \* allocations, with allocation_tags as a column
    pointers,  \* hostname_pointers
    history,   \* hostname_pointer_history
    audit,     \* audit_log, as the set of facts recorded
    idem,      \* idempotency_keys
    nextId     \* for each table, the next id to issue

tables == <<blocks, allocs, pointers, history, audit, idem, nextId>>

Optional(S) == S \cup {NULL}
Status == {"active", "reserved", "released"}
LIVE == {"active", "reserved"}

CidrBlock == [tenant : Tenants, cidr : IpRange]

Allocation ==
    [tenant : Tenants, block : Nat, cidr : IpRange, status : Status,
     parent : Optional(Nat), tags : TagSets,
     releasedAt : Optional(Nat), expiresAt : Optional(Nat)]

HostnamePointer == [tenant : Tenants, pair : Pairs, alloc : Optional(Nat)]

ASSUME RowsAssumption == NULL \notin CidrBlock /\ NULL \notin Allocation

\* The table of one row.
Only(id, row) == [i \in {id} |-> row]

\* `table' with `rows' written over it.
With(rows, table) ==
    [id \in DOMAIN rows \cup DOMAIN table |-> IF id \in DOMAIN rows THEN rows[id] ELSE table[id]]

\* A table with ids below n and rows in S.
IsTable(table, n, S) ==
    DOMAIN table \subseteq 0 .. n - 1 /\ \A id \in DOMAIN table : table[id] \in S

TablesInit ==
    /\ blocks = <<>> /\ allocs = <<>> /\ pointers = <<>>
    /\ history = {} /\ audit = {} /\ idem = <<>>
    /\ nextId = [block |-> 0, alloc |-> 0, pointer |-> 0]

-----------------------------------------------------------------------------
(* Reads.  A row of another tenant reads as absent.                         *)

Row(table, tenant, id) ==
    IF id \in DOMAIN table /\ table[id].tenant = tenant THEN table[id] ELSE NULL

BlocksOf(tenant) ==
    Restrict(blocks, {b \in DOMAIN blocks : blocks[b].tenant = tenant})

LiveIn(tenant, block) ==
    Restrict(allocs, {a \in DOMAIN allocs : /\ allocs[a].tenant = tenant
                                            /\ allocs[a].block = block
                                            /\ allocs[a].status \in LIVE})

PointersFor(tenant, pair) ==
    Restrict(pointers, {p \in DOMAIN pointers : /\ pointers[p].tenant = tenant
                                                /\ pointers[p].pair = pair})

IdemRecord(key) == IF key \in DOMAIN idem THEN idem[key] ELSE NULL

-----------------------------------------------------------------------------
(* A plan: the row writes of one unit, with the audit facts and the         *)
(* hostname history that accompany them.                                    *)

EmptyPlan ==
    [insertBlocks |-> <<>>, deleteBlocks |-> {},
     insertAllocs |-> <<>>, replaceAllocs |-> <<>>,
     putPointers |-> <<>>, deletePointers |-> {},
     history |-> {}, audits |-> {}]

Fact(action, table, id) == [action |-> action, table |-> table, id |-> id]

\* The allocations deleted with the plan's blocks.
Cascade(plan) == {a \in DOMAIN allocs : allocs[a].block \in plan.deleteBlocks}

\* Mutant of LinksHold: links are not foreign keys.
NoForeignKeys(plan) == TRUE

\* The nullable foreign keys: a parent, and the allocation of a pointer.
LinksHold(plan) ==
    /\ \A a \in DOMAIN plan.insertAllocs :
          plan.insertAllocs[a].parent \in Optional(DOMAIN allocs)
    /\ \A p \in DOMAIN plan.putPointers :
          plan.putPointers[p].alloc \in Optional(DOMAIN allocs)
    /\ \A a \in DOMAIN allocs \ Cascade(plan) : allocs[a].parent \notin Cascade(plan)
    /\ \A p \in DOMAIN pointers : pointers[p].alloc \notin Cascade(plan)

\* Foreign keys, unique columns, the tenant trigger and "no row matched"
\* checks.  A unit whose plan fails one is rolled back.
ConstraintsHold(plan) ==
    /\ plan.deleteBlocks \subseteq DOMAIN blocks
    /\ DOMAIN plan.replaceAllocs \subseteq DOMAIN allocs
    /\ plan.deletePointers \subseteq DOMAIN pointers
    /\ \A b \in DOMAIN plan.insertBlocks :
          \A c \in (DOMAIN blocks \cup DOMAIN plan.insertBlocks) \ {b} :
             With(plan.insertBlocks, blocks)[c] # plan.insertBlocks[b]
    /\ \A a \in DOMAIN plan.insertAllocs :
          /\ plan.insertAllocs[a].block \in DOMAIN With(plan.insertBlocks, blocks)
          /\ With(plan.insertBlocks, blocks)[plan.insertAllocs[a].block].tenant
                = plan.insertAllocs[a].tenant
    /\ \A p \in DOMAIN plan.putPointers : \A q \in DOMAIN pointers \ {p} :
          \/ pointers[q].tenant # plan.putPointers[p].tenant
          \/ pointers[q].pair # plan.putPointers[p].pair
    /\ LinksHold(plan)

Without(table, ids) == Restrict(table, DOMAIN table \ ids)

\* Mutant of Apply: ids are issued again.
ApplyReusingIds(plan) ==
    /\ blocks' = With(plan.insertBlocks, Without(blocks, plan.deleteBlocks))
    /\ allocs' = With(plan.insertAllocs, With(plan.replaceAllocs, Without(allocs, Cascade(plan))))
    /\ UNCHANGED <<pointers, history, audit, nextId>>

Apply(plan) ==
    /\ blocks' = With(plan.insertBlocks, Without(blocks, plan.deleteBlocks))
    /\ allocs' = With(plan.insertAllocs, With(plan.replaceAllocs, Without(allocs, Cascade(plan))))
    /\ pointers' = With(plan.putPointers, Without(pointers, plan.deletePointers))
    /\ history' = history \cup plan.history
    /\ audit' = audit \cup plan.audits
    /\ nextId' = [block   |-> nextId.block + Cardinality(DOMAIN plan.insertBlocks),
                  alloc   |-> nextId.alloc + Cardinality(DOMAIN plan.insertAllocs),
                  pointer |-> nextId.pointer
                              + Cardinality(DOMAIN plan.putPointers \ DOMAIN pointers)]
=============================================================================
