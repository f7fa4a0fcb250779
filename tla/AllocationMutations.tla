------------------------ MODULE AllocationMutations ------------------------
(***************************************************************************)
(* The allocation Mutations (src/ipam/operations/allocation.rs): for each, *)
(* the condition under which decide accepts and the plans it may return.   *)
(* `v' is what the unit read, one field per declared read; `at' is the     *)
(* time captured before the unit started.                                  *)
(***************************************************************************)
EXTENDS IpamTables

MAX_AUTO_ALLOCATE_COUNT == 1000

SpecificRequest ==
    [kind : {"specific"}, tenant : Tenants, block : Nat, cidr : IpRange,
     status : Status, parent : Optional(Nat), tags : TagSets, ttl : Optional(Nat),
     key : Optional(Keys)]
AutoRequest ==
    [kind : {"auto"}, tenant : Tenants, block : Nat, size : Nat \ {0}, count : Nat,
     status : Status, parent : Optional(Nat), tags : TagSets, ttl : Optional(Nat),
     key : Optional(Keys)]
UpdateRequest ==
    [kind : {"update"}, tenant : Tenants, alloc : Nat, block : Optional(Nat),
     status : Optional(Status)]
ReleaseRequest ==
    [kind : {"release"}, tenant : Tenants, alloc : Nat, block : Optional(Nat)]
TagsRequest ==
    [kind : {"tags"}, tenant : Tenants, alloc : Nat, block : Optional(Nat), tags : TagSets]
ExpireRequest == [kind : {"expire"}, tenant : Tenants, block : Nat]

-----------------------------------------------------------------------------
Ranges(rows) == {rows[a].cidr : a \in DOMAIN rows}

no_overlap(live, cidr) == \A r \in Ranges(live) : ~ ranges_overlap(cidr, r)

new_allocation(m, cidr, at) ==
    [tenant |-> m.tenant, block |-> m.block, cidr |-> cidr, status |-> m.status,
     parent |-> m.parent, tags |-> m.tags, releasedAt |-> NULL,
     expiresAt |-> IF m.ttl = NULL THEN NULL ELSE at + m.ttl]

released(row, at) == [row EXCEPT !.status = "released", !.releasedAt = at]

\* The plan that inserts `rows', one audited Change each.
insert(rows) ==
    [EmptyPlan EXCEPT
        !.insertAllocs = rows,
        !.audits = {Fact("allocate", "alloc", a) : a \in DOMAIN rows}]

\* The plan that overwrites `rows'.
replace(rows, action) ==
    [EmptyPlan EXCEPT
        !.replaceAllocs = rows,
        !.audits = {Fact(action, "alloc", a) : a \in DOMAIN rows}]

-----------------------------------------------------------------------------
AllocateSpecificAccepts(m, v) ==
    /\ v.block # NULL                               \* CidrBlockNotFound
    /\ same_ip_version(v.block.cidr, m.cidr)        \* InvalidInput
    /\ range_contains(v.block.cidr, m.cidr)         \* AllocationConflict
    /\ m.parent # NULL =>
          /\ v.parent # NULL                        \* AllocationNotFound
          /\ range_contains(v.parent.cidr, m.cidr)  \* AllocationConflict
    /\ no_overlap(v.live, m.cidr)                   \* AllocationConflict

AllocateSpecificPlans(m, v, at) ==
    {insert(Only(nextId.alloc, new_allocation(m, m.cidr, at)))}

\* The addresses AllocateAuto takes, fewer than asked for when space is short.
AutoStarts(m, v) == find_free_blocks(v.block.cidr, Ranges(v.live), m.size, m.count)

AllocateAutoAccepts(m, v) ==
    /\ v.block # NULL                               \* CidrBlockNotFound
    /\ m.count <= MAX_AUTO_ALLOCATE_COUNT           \* InvalidInput
    /\ AutoStarts(m, v) # {}                        \* NoFreeSpace

\* Ids are issued in address order.
AllocateAutoPlans(m, v, at) ==
    LET S == AutoStarts(m, v)
        ids == nextId.alloc .. nextId.alloc + Cardinality(S) - 1
    IN  {insert([a \in ids |->
                    new_allocation(m, Cidr(start[a], m.size, v.block.cidr.v4), at)]) :
            start \in {f \in [ids -> S] : \A a, b \in ids : a < b => f[a] < f[b]}}

-----------------------------------------------------------------------------
UpdateAccepts(m, v) ==
    /\ v.alloc # NULL                               \* AllocationNotFound
    /\ m.status \in LIVE /\ v.alloc.status = "released"
          => no_overlap(v.live, v.alloc.cidr)       \* AllocationConflict

UpdatePlans(m, v, at) ==
    {replace(Only(m.alloc, [v.alloc EXCEPT
                               !.status = IF m.status = NULL THEN @ ELSE m.status,
                               !.releasedAt = IF m.status \in LIVE THEN NULL ELSE @]),
             "update")}

ReleaseAccepts(m, v) == v.alloc # NULL              \* AllocationNotFound

ReleasePlans(m, v, at) ==
    IF v.alloc.status = "released"
    THEN {EmptyPlan}
    ELSE {replace(Only(m.alloc, released(v.alloc, at)), "release")}

TagsAccepts(m, v) == v.alloc # NULL                 \* AllocationNotFound

TagsPlans(m, v, at) ==
    IF v.alloc.tags = m.tags
    THEN {EmptyPlan}
    ELSE {replace(Only(m.alloc, [v.alloc EXCEPT !.tags = m.tags]), "set_tags")}

\* Rows whose expires_at has passed.
Due(live, at) == {a \in DOMAIN live : live[a].expiresAt # NULL /\ live[a].expiresAt <= at}

ExpirePlans(m, v, at) ==
    {replace([a \in Due(v.live, at) |-> released(v.live[a], at)], "expire")}
=============================================================================
