------------------------------ MODULE Mutations ------------------------------
(***************************************************************************)
(* The seam between the Mutations and the store (src/ipam/mutation.rs,     *)
(* src/ipam/store.rs): for every Mutation its Lock Scope, the reads it     *)
(* declares in order, and its decision; and the idempotency record that    *)
(* makes a keyed one run once.                                             *)
(***************************************************************************)
EXTENDS AllocationMutations, CidrBlockMutations, HostnameMutations

Mutation ==
    SpecificRequest \cup AutoRequest \cup UpdateRequest \cup ReleaseRequest
    \cup TagsRequest \cup ExpireRequest \cup CreateRequest \cup DeleteRequest
    \cup LoadRequest \cup SetPointerRequest \cup DeletePointerRequest

BlockKinds == {"specific", "auto", "update", "release", "tags", "expire", "delete"}
TenantKinds == {"create", "load", "pointer", "unpoint"}

\* The kinds whose block is learned by reading the allocation before the
\* unit starts.
ResolvedKinds == {"update", "release", "tags"}

\* m with its block filled in: none when the allocation is not there.
Resolutions(m) ==
    IF m.kind \in ResolvedKinds
    THEN {[m EXCEPT !.block = allocs[a].block] :
            a \in {a \in DOMAIN allocs : a = m.alloc /\ allocs[a].tenant = m.tenant}}
    ELSE {m}

block_scope(m) == [kind |-> "cidr_block", tenant |-> m.tenant, block |-> m.block]
tenant_scope(m) == [kind |-> "tenant", tenant |-> m.tenant, block |-> NULL]

\* Mutants of scope: a delete or an update that takes its tenant, a load or
\* the removal of a pointer that does not exclude the tenant's other units.
DeleteTakesTenant(m) ==
    IF m.kind \in BlockKinds \ {"delete"} THEN block_scope(m) ELSE tenant_scope(m)
UpdateTakesTenant(m) ==
    IF m.kind \in BlockKinds \ {"update"} THEN block_scope(m) ELSE tenant_scope(m)
LoadTakesItsOwn(m) ==
    IF m.kind \in BlockKinds THEN block_scope(m)
    ELSE [tenant_scope(m) EXCEPT !.kind = IF m.kind = "load" THEN "load" ELSE @]
UnpointTakesItsOwn(m) ==
    IF m.kind \in BlockKinds THEN block_scope(m)
    ELSE [tenant_scope(m) EXCEPT !.kind = IF m.kind = "unpoint" THEN "pointer" ELSE @]

scope(m) ==
    IF m.kind \in BlockKinds THEN block_scope(m) ELSE tenant_scope(m)

Keyed(m) == m.kind \in {"specific", "auto"} /\ m.key # NULL

\* Records are per tenant, key, endpoint and block.
IdemKey(m) ==
    [tenant |-> m.tenant, key |-> m.key, endpoint |-> m.kind, block |-> m.block]

-----------------------------------------------------------------------------
(* Reads.                                                                   *)

If(cond, part) == IF cond THEN {part} ELSE {}

\* What the unit reads.
reads(m) ==
    CASE m.kind = "specific" -> {"block", "live"} \cup If(m.parent # NULL, "parent")
                                \cup If(Keyed(m), "idem")
      [] m.kind = "auto" -> {"block", "live"} \cup If(Keyed(m), "idem")
      [] m.kind = "update" -> {"alloc", "live"}
      [] m.kind \in {"release", "tags"} -> {"alloc"}
      [] m.kind = "expire" -> {"live"}
      [] m.kind = "delete" -> {"block", "live"}
      [] m.kind \in {"create", "load"} -> {"blocks"}
      [] m.kind = "pointer" -> {"pointer"} \cup If(m.alloc # NULL, "alloc")
      [] m.kind = "unpoint" -> {"pointer"}

\* The order in which every kind declares its reads.
rank == [pointer |-> 1, alloc |-> 2, block |-> 3, blocks |-> 4,
         parent |-> 5, live |-> 6, idem |-> 7]

read_one(m, part) ==
    CASE part = "block" -> Row(blocks, m.tenant, m.block)
      [] part = "blocks" -> BlocksOf(m.tenant)
      [] part = "alloc" -> Row(allocs, m.tenant, m.alloc)
      [] part = "parent" -> Row(allocs, m.tenant, m.parent)
      [] part = "live" -> LiveIn(m.tenant, m.block)
      [] part = "pointer" -> PointersFor(m.tenant, m.pair)
      [] part = "idem" -> IdemRecord(IdemKey(m))

\* Every read of m, done at once.
Snapshot(m) == [part \in reads(m) |-> read_one(m, part)]

-----------------------------------------------------------------------------
(* Decisions.                                                               *)

Accepts(m, v) ==
    CASE m.kind = "specific" -> AllocateSpecificAccepts(m, v)
      [] m.kind = "auto" -> AllocateAutoAccepts(m, v)
      [] m.kind = "update" -> UpdateAccepts(m, v)
      [] m.kind = "release" -> ReleaseAccepts(m, v)
      [] m.kind = "tags" -> TagsAccepts(m, v)
      [] m.kind = "expire" -> TRUE
      [] m.kind = "create" -> CreateAccepts(m, v)
      [] m.kind = "delete" -> DeleteAccepts(m, v)
      [] m.kind = "load" -> LoadAccepts(m, v)
      [] m.kind = "pointer" -> SetPointerAccepts(m, v)
      [] m.kind = "unpoint" -> DeletePointerAccepts(m, v)

Plans(m, v, at) ==
    CASE m.kind = "specific" -> AllocateSpecificPlans(m, v, at)
      [] m.kind = "auto" -> AllocateAutoPlans(m, v, at)
      [] m.kind = "update" -> UpdatePlans(m, v, at)
      [] m.kind = "release" -> ReleasePlans(m, v, at)
      [] m.kind = "tags" -> TagsPlans(m, v, at)
      [] m.kind = "expire" -> ExpirePlans(m, v, at)
      [] m.kind = "create" -> CreatePlans(m, v, at)
      [] m.kind = "delete" -> DeletePlans(m, v, at)
      [] m.kind = "load" -> LoadPlans(m, v, at)
      [] m.kind = "pointer" -> SetPointerPlans(m, v, at)
      [] m.kind = "unpoint" -> DeletePointerPlans(m, v, at)

\* Mutant of Found: a record does not stop its key from running again.
NeverFound(m, v) == FALSE

\* A record of the key was found: it decides the unit, expired or not.
Found(m, v) == Keyed(m) /\ v.idem # NULL

Response == [request : Mutation, expiresAt : Nat, response : SUBSET Nat]

ASSUME ResponsesAssumption == NULL \notin Response

\* The record a keyed unit stores with its result.
Remember(m, plan, at, ttl) ==
    idem' = IF Keyed(m)
            THEN With(Only(IdemKey(m), [request |-> m, expiresAt |-> at + ttl,
                                        response |-> DOMAIN plan.insertAllocs]), idem)
            ELSE idem
=============================================================================
