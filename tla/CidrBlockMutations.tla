------------------------- MODULE CidrBlockMutations -------------------------
(***************************************************************************)
(* The cidr-block Mutations (src/ipam/operations/cidr_block.rs).           *)
(***************************************************************************)
EXTENDS IpamTables, Sequences

\* An allocation of a dump names its block by position; a position that is
\* not there is the dump's dangling reference.
IpamDump ==
    [cidr_blocks : Seq(IpRange),
     allocations : Seq([block : Nat, cidr : IpRange, status : Status, tags : TagSets])]

\* What an export of a tenant is: its blocks are disjoint, an allocation lies
\* in its block, and the live ones of a block do not overlap.
SoundDump(dump) ==
    /\ \A i, j \in DOMAIN dump.cidr_blocks :
          i # j => ~ ranges_overlap(dump.cidr_blocks[i], dump.cidr_blocks[j])
    /\ \A i \in DOMAIN dump.allocations :
          LET old == dump.allocations[i] IN
          old.block \in DOMAIN dump.cidr_blocks =>
             /\ same_ip_version(dump.cidr_blocks[old.block], old.cidr)
             /\ range_contains(dump.cidr_blocks[old.block], old.cidr)
    /\ \A i, j \in DOMAIN dump.allocations :
          /\ i # j /\ dump.allocations[i].block = dump.allocations[j].block
          /\ dump.allocations[i].status \in LIVE /\ dump.allocations[j].status \in LIVE
          => ~ ranges_overlap(dump.allocations[i].cidr, dump.allocations[j].cidr)

CreateRequest == [kind : {"create"}, tenant : Tenants, cidr : IpRange]
DeleteRequest == [kind : {"delete"}, tenant : Tenants, block : Nat]
LoadRequest == [kind : {"load"}, tenant : Tenants, dump : IpamDump]

-----------------------------------------------------------------------------
CreateAccepts(m, v) ==
    \A b \in DOMAIN v.blocks : ~ ranges_overlap(m.cidr, v.blocks[b].cidr)  \* AllocationConflict

CreatePlans(m, v, at) ==
    {[EmptyPlan EXCEPT
        !.insertBlocks = Only(nextId.block, [tenant |-> m.tenant, cidr |-> m.cidr]),
        !.audits = {Fact("create_cidr_block", "block", nextId.block)}]}

DeleteAccepts(m, v) ==
    /\ v.block # NULL                 \* CidrBlockNotFound
    /\ DOMAIN v.live = {}             \* CidrBlockHasActiveAllocations

\* Mutant of DeletePlans: a delete without its audit row.
UnauditedDelete(m, v, at) == {[EmptyPlan EXCEPT !.deleteBlocks = {m.block}]}

DeletePlans(m, v, at) ==
    {[EmptyPlan EXCEPT
        !.deleteBlocks = {m.block},
        !.audits = {Fact("delete_cidr_block", "block", m.block)}]}

-----------------------------------------------------------------------------
LoadAccepts(m, v) ==
    /\ DOMAIN v.blocks = {}           \* InvalidInput: not an empty store
    /\ \A i \in DOMAIN m.dump.allocations :
          m.dump.allocations[i].block \in DOMAIN m.dump.cidr_blocks  \* InvalidInput

\* Mutant of LoadPlans: every allocation goes to the dump's first block.
LoadIntoFirstBlock(m, v, at) ==
    {[EmptyPlan EXCEPT
        !.insertBlocks = [b \in nextId.block .. nextId.block + Len(m.dump.cidr_blocks) - 1 |->
            [tenant |-> m.tenant, cidr |-> m.dump.cidr_blocks[b - nextId.block + 1]]],
        !.insertAllocs = [a \in nextId.alloc .. nextId.alloc + Len(m.dump.allocations) - 1 |->
            [tenant |-> m.tenant, block |-> nextId.block,
             cidr |-> m.dump.allocations[a - nextId.alloc + 1].cidr, status |-> "active",
             parent |-> NULL, tags |-> m.dump.allocations[a - nextId.alloc + 1].tags,
             releasedAt |-> NULL, expiresAt |-> NULL]]]}

\* Fresh ids; parents and expiry are not restored, nor is released_at.
LoadPlans(m, v, at) ==
    LET newBlocks == nextId.block .. nextId.block + Len(m.dump.cidr_blocks) - 1
        newAllocs == nextId.alloc .. nextId.alloc + Len(m.dump.allocations) - 1
        old(a) == m.dump.allocations[a - nextId.alloc + 1]
    IN  {[EmptyPlan EXCEPT
            !.insertBlocks = [b \in newBlocks |->
                [tenant |-> m.tenant, cidr |-> m.dump.cidr_blocks[b - nextId.block + 1]]],
            !.insertAllocs = [a \in newAllocs |->
                [tenant |-> m.tenant, block |-> nextId.block + old(a).block - 1,
                 cidr |-> old(a).cidr, status |-> old(a).status, parent |-> NULL,
                 tags |-> old(a).tags, releasedAt |-> NULL, expiresAt |-> NULL]],
            !.audits = {Fact("load", "block", b) : b \in newBlocks}
                       \cup {Fact("load", "alloc", a) : a \in newAllocs}]}
=============================================================================
