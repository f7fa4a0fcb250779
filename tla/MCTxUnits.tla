----------------------------- MODULE MCTxUnits -----------------------------
(***************************************************************************)
(* Small instances of TxUnits, one request set per question.               *)
(***************************************************************************)
EXTENDS TxUnits, TLC

CONSTANTS p1, p2, p3, t1, noTags, someTags, pair1, key1

TwoProcs == {p1, p2}
ThreeProcs == {p1, p2, p3}
Symmetry == Permutations(Procs)

\* Postgres: a scope has its own lock; or, with hash collisions, shares it.
OwnLock(s) == s
SharedLock(s) == s.kind

-----------------------------------------------------------------------------
v4(lo, hi) == [start |-> lo, end |-> hi, v4 |-> TRUE]

create(t, cidr) == [kind |-> "create", tenant |-> t, cidr |-> cidr]
delete(t, b) == [kind |-> "delete", tenant |-> t, block |-> b]
specific(b, cidr) ==
    [kind |-> "specific", tenant |-> t1, block |-> b, cidr |-> cidr, status |-> "active",
     parent |-> NULL, tags |-> noTags, ttl |-> NULL, key |-> NULL]
auto(b, size, count) ==
    [kind |-> "auto", tenant |-> t1, block |-> b, size |-> size, count |-> count,
     status |-> "active", parent |-> NULL, tags |-> noTags, ttl |-> NULL, key |-> NULL]
update(a, status) ==
    [kind |-> "update", tenant |-> t1, alloc |-> a, block |-> NULL, status |-> status]
release(a) == [kind |-> "release", tenant |-> t1, alloc |-> a, block |-> NULL]
expire(b) == [kind |-> "expire", tenant |-> t1, block |-> b]

\* One block and everything that takes or returns its addresses.
SpaceRequests ==
    {create(t1, v4(0, 3)), delete(t1, 0), specific(0, v4(1, 1)), auto(0, 2, 2),
     release(0), update(0, "reserved"), [specific(0, v4(0, 1)) EXCEPT !.ttl = 0], expire(0),
     [kind |-> "tags", tenant |-> t1, alloc |-> 0, block |-> NULL, tags |-> someTags]}

\* The tenant's blocks, created, loaded and deleted; parents and hostname
\* pointers of allocations whose block is deleted.
Dump ==
    [cidr_blocks |-> <<v4(0, 1), v4(4, 7)>>,
     allocations |-> <<[block |-> 2, cidr |-> v4(4, 5), status |-> "active",
                        tags |-> someTags]>>]
pointer(a) == [kind |-> "pointer", tenant |-> t1, pair |-> pair1, alloc |-> a]
TenantRequests ==
    {create(t1, v4(0, 3)), create(t1, v4(4, 7)), [kind |-> "load", tenant |-> t1, dump |-> Dump],
     delete(t1, 0), specific(0, v4(0, 1)), release(0),
     [auto(1, 2, 1) EXCEPT !.parent = 0], [specific(0, v4(1, 1)) EXCEPT !.parent = 0],
     pointer(0), [kind |-> "unpoint", tenant |-> t1, pair |-> pair1]}

\* Keyed requests: one retried, one that reuses its key, one at another
\* endpoint.
KeyRequests ==
    {create(t1, v4(0, 3)), [auto(0, 1, 1) EXCEPT !.key = key1],
     [auto(0, 1, 2) EXCEPT !.key = key1], [specific(0, v4(2, 2)) EXCEPT !.key = key1]}

\* One request of each way to wait: for a connection before the unit, in it,
\* for a block's scope and for the tenant's.
WaitRequests ==
    {create(t1, v4(0, 3)), specific(0, v4(1, 1)), release(0), pointer(0)}
=============================================================================
