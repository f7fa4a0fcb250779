---------------------------- MODULE TxUnitsProofs ----------------------------
(***************************************************************************)
(* For any number of callers, requests and connections and any maps of     *)
(* scopes to locks: units that run concurrently never give an address      *)
(* twice, because what a unit has read under its scope stays so; units     *)
(* that read one part at a time, while others commit, implement units that *)
(* run at one instant (AtomicIpam); and the tables, the history and the    *)
(* audit log agree.                                                        *)
(***************************************************************************)
EXTENDS TxUnits, FiniteSetTheorems, TLAPS

-----------------------------------------------------------------------------
(* What one unit's plan may do to the tables, whatever its Mutation, and     *)
(* that applying such a plan keeps the address space consistent.             *)

\* Type correctness of the tables.
TablesTyped ==
    /\ nextId \in [{"block", "alloc", "pointer"} -> Nat]
    /\ IsTable(blocks, nextId.block, CidrBlock)
    /\ IsTable(allocs, nextId.alloc, Allocation)
    /\ IsTable(pointers, nextId.pointer, HostnamePointer)

TablesInv == TablesTyped /\ InOwnBlock /\ NoLiveOverlap

\* Rows are inserted at the ids that come next.
Fresh(rows, next) ==
    /\ Cardinality(DOMAIN rows) \in Nat
    /\ DOMAIN rows \subseteq next .. next + Cardinality(DOMAIN rows) - 1

\* New blocks are the tenant's, and only the tenant's scope allows them.
BlocksFit(m, plan) ==
    /\ Fresh(plan.insertBlocks, nextId.block)
    /\ \A b \in DOMAIN plan.insertBlocks :
          /\ m.kind \in TenantKinds
          /\ plan.insertBlocks[b] \in CidrBlock
          /\ plan.insertBlocks[b].tenant = m.tenant

\* A block is deleted under its own scope, by a plan that does nothing else.
DeletesFit(m, plan) ==
    \A b \in plan.deleteBlocks :
        /\ m.kind = "delete" /\ b = m.block
        /\ b \in DOMAIN blocks /\ blocks[b].tenant = m.tenant

\* A new allocation goes to the unit's block or to a block of the same plan,
\* and lies in it.
InsertsFit(m, plan) ==
    /\ Fresh(plan.insertAllocs, nextId.alloc)
    /\ \A a \in DOMAIN plan.insertAllocs :
          LET row == plan.insertAllocs[a]
              home == With(plan.insertBlocks, blocks)
          IN  /\ row \in Allocation /\ row.tenant = m.tenant
              /\ \/ /\ m.kind \in BlockKinds \ {"delete"} /\ row.block = m.block
                    /\ m.block \in DOMAIN blocks
                 \/ row.block \in DOMAIN plan.insertBlocks
              /\ home[row.block].tenant = row.tenant
              /\ same_ip_version(home[row.block].cidr, row.cidr)
              /\ range_contains(home[row.block].cidr, row.cidr)

\* A row is overwritten under its block's scope, in place.
ReplacesFit(m, plan) ==
    \A a \in DOMAIN plan.replaceAllocs :
        LET row == plan.replaceAllocs[a] IN
        /\ m.kind \in BlockKinds \ {"delete"}
        /\ a \in DOMAIN allocs /\ row \in Allocation
        /\ row.tenant = m.tenant /\ row.block = m.block
        /\ allocs[a].tenant = m.tenant /\ allocs[a].block = m.block
        /\ row.cidr = allocs[a].cidr

\* The allocations a plan makes live.
Revived(plan) ==
    LET rows == With(plan.insertAllocs, plan.replaceAllocs) IN
    {a \in DOMAIN rows :
        /\ rows[a].status \in LIVE
        /\ a \in DOMAIN allocs => allocs[a].status \notin LIVE}

\* They take addresses that are free, and different ones.
SpaceFits(plan) ==
    LET rows == With(plan.insertAllocs, plan.replaceAllocs) IN
    \A a \in Revived(plan) :
        /\ \A b \in DOMAIN allocs :
              allocs[b].status \in LIVE /\ allocs[b].block = rows[a].block
              => ~ ranges_overlap(rows[a].cidr, allocs[b].cidr)
        /\ \A b \in Revived(plan) :
              a # b /\ rows[a].block = rows[b].block
              => ~ ranges_overlap(rows[a].cidr, rows[b].cidr)

\* Pointers are written under the tenant's scope.
PointersFit(m, plan) ==
    /\ Fresh([p \in DOMAIN plan.putPointers \ DOMAIN pointers |-> NULL], nextId.pointer)
    /\ \A p \in DOMAIN plan.putPointers :
          /\ m.kind \in TenantKinds
          /\ plan.putPointers[p] \in HostnamePointer
          /\ plan.putPointers[p].tenant = m.tenant
          /\ p \in DOMAIN pointers => pointers[p].tenant = m.tenant
    /\ \A p \in plan.deletePointers :
          /\ m.kind \in TenantKinds
          /\ p \in DOMAIN pointers => pointers[p].tenant = m.tenant

Fits(m, plan) ==
    /\ BlocksFit(m, plan) /\ DeletesFit(m, plan) /\ InsertsFit(m, plan)
    /\ ReplacesFit(m, plan) /\ SpaceFits(plan) /\ PointersFit(m, plan)

-----------------------------------------------------------------------------
\* The blocks after a plan.
LEMMA BlocksAfter ==
    ASSUME NEW plan, Apply(plan)
    PROVE  /\ DOMAIN blocks' = DOMAIN plan.insertBlocks \cup (DOMAIN blocks \ plan.deleteBlocks)
           /\ \A b \in DOMAIN plan.insertBlocks : blocks'[b] = plan.insertBlocks[b]
           /\ \A b \in DOMAIN blocks \ (plan.deleteBlocks \cup DOMAIN plan.insertBlocks) :
                 blocks'[b] = blocks[b]
  BY DEF Apply, With, Without, Restrict

\* The allocations after a plan.
LEMMA AllocsAfter ==
    ASSUME NEW plan, Apply(plan)
    PROVE  /\ DOMAIN allocs' = DOMAIN plan.insertAllocs \cup DOMAIN plan.replaceAllocs
                               \cup (DOMAIN allocs \ Cascade(plan))
           /\ \A a \in DOMAIN plan.insertAllocs : allocs'[a] = plan.insertAllocs[a]
           /\ \A a \in DOMAIN plan.replaceAllocs \ DOMAIN plan.insertAllocs :
                 allocs'[a] = plan.replaceAllocs[a]
           /\ \A a \in DOMAIN allocs \ (Cascade(plan) \cup DOMAIN plan.insertAllocs
                                        \cup DOMAIN plan.replaceAllocs) :
                 allocs'[a] = allocs[a]
  BY DEF Apply, With, Without, Restrict

\* The pointers after a plan.
LEMMA PointersAfter ==
    ASSUME NEW plan, Apply(plan)
    PROVE  /\ DOMAIN pointers' = DOMAIN plan.putPointers \cup (DOMAIN pointers \ plan.deletePointers)
           /\ \A p \in DOMAIN plan.putPointers : pointers'[p] = plan.putPointers[p]
           /\ \A p \in DOMAIN pointers \ (plan.deletePointers \cup DOMAIN plan.putPointers) :
                 pointers'[p] = pointers[p]
  BY DEF Apply, With, Without, Restrict

\* The ids after a plan: none is issued again.
LEMMA IdsAfter ==
    ASSUME TablesTyped, NEW m, NEW plan, Fits(m, plan), Apply(plan)
    PROVE  /\ nextId' \in [{"block", "alloc", "pointer"} -> Nat]
           /\ nextId.block <= nextId'.block /\ nextId.alloc <= nextId'.alloc
           /\ nextId.pointer <= nextId'.pointer
           /\ DOMAIN plan.insertBlocks \subseteq nextId.block .. nextId'.block - 1
           /\ DOMAIN plan.insertAllocs \subseteq nextId.alloc .. nextId'.alloc - 1
           /\ DOMAIN plan.putPointers \ DOMAIN pointers \subseteq nextId.pointer .. nextId'.pointer - 1
  <1>1. /\ Cardinality(DOMAIN plan.insertBlocks) \in Nat
        /\ Cardinality(DOMAIN plan.insertAllocs) \in Nat
        /\ DOMAIN plan.insertBlocks \subseteq
              nextId.block .. nextId.block + Cardinality(DOMAIN plan.insertBlocks) - 1
        /\ DOMAIN plan.insertAllocs \subseteq
              nextId.alloc .. nextId.alloc + Cardinality(DOMAIN plan.insertAllocs) - 1
    BY DEF Fits, BlocksFit, InsertsFit, Fresh
  <1>2. /\ Cardinality(DOMAIN plan.putPointers \ DOMAIN pointers) \in Nat
        /\ DOMAIN plan.putPointers \ DOMAIN pointers \subseteq
              nextId.pointer ..
                 nextId.pointer + Cardinality(DOMAIN plan.putPointers \ DOMAIN pointers) - 1
    BY DEF Fits, PointersFit, Fresh
  <1>3. nextId.block \in Nat /\ nextId.alloc \in Nat /\ nextId.pointer \in Nat
    BY DEF TablesTyped
  <1>4. nextId' = [block |-> nextId.block + Cardinality(DOMAIN plan.insertBlocks),
                   alloc |-> nextId.alloc + Cardinality(DOMAIN plan.insertAllocs),
                   pointer |-> nextId.pointer
                               + Cardinality(DOMAIN plan.putPointers \ DOMAIN pointers)]
    BY DEF Apply
  <1>5. /\ nextId'.block = nextId.block + Cardinality(DOMAIN plan.insertBlocks)
        /\ nextId'.alloc = nextId.alloc + Cardinality(DOMAIN plan.insertAllocs)
        /\ nextId'.pointer = nextId.pointer
                              + Cardinality(DOMAIN plan.putPointers \ DOMAIN pointers)
    BY <1>4
  <1>6. nextId' \in [{"block", "alloc", "pointer"} -> Nat]
    BY <1>1, <1>2, <1>3, <1>4
  <1>7. /\ nextId.block <= nextId'.block /\ nextId.alloc <= nextId'.alloc
        /\ nextId.pointer <= nextId'.pointer
    BY <1>1, <1>2, <1>3, <1>5
  <1>8. /\ DOMAIN plan.insertBlocks \subseteq nextId.block .. nextId'.block - 1
        /\ DOMAIN plan.insertAllocs \subseteq nextId.alloc .. nextId'.alloc - 1
    BY <1>1, <1>3, <1>5
  <1>9. DOMAIN plan.putPointers \ DOMAIN pointers \subseteq nextId.pointer .. nextId'.pointer - 1
    <2> DEFINE new == DOMAIN plan.putPointers \ DOMAIN pointers
               n == Cardinality(new)
    <2>1. n \in Nat /\ new \subseteq nextId.pointer .. nextId.pointer + n - 1
      BY <1>2
    <2>2. nextId'.pointer = nextId.pointer + n
      BY <1>5
    <2> HIDE DEF n, new
    <2>3. new \subseteq nextId.pointer .. nextId'.pointer - 1
      BY <2>1, <2>2, <1>3
    <2> QED
      BY <2>3 DEF new
  <1> QED
    BY <1>6, <1>7, <1>8, <1>9

\* A fit plan keeps the tables well typed.
LEMMA ApplyTyped ==
    ASSUME TablesTyped, NEW m, NEW plan, Fits(m, plan), Apply(plan)
    PROVE  TablesTyped'
  <1>1. /\ nextId.block \in Nat /\ nextId'.block \in Nat /\ nextId.block <= nextId'.block
        /\ nextId.alloc \in Nat /\ nextId'.alloc \in Nat /\ nextId.alloc <= nextId'.alloc
        /\ nextId.pointer \in Nat /\ nextId'.pointer \in Nat /\ nextId.pointer <= nextId'.pointer
    BY IdsAfter DEF TablesTyped
  <1>2. IsTable(blocks, nextId.block, CidrBlock)'
    <2>1. \A b \in DOMAIN plan.insertBlocks :
             plan.insertBlocks[b] \in CidrBlock /\ b \in nextId.block .. nextId'.block - 1
      BY IdsAfter DEF Fits, BlocksFit
    <2>2. \A b \in DOMAIN blocks : blocks[b] \in CidrBlock /\ b \in 0 .. nextId.block - 1
      BY DEF TablesTyped, IsTable
    <2>3. ASSUME NEW b \in DOMAIN blocks'
          PROVE  blocks'[b] \in CidrBlock /\ b \in 0 .. nextId'.block - 1
      <3>1. CASE b \in DOMAIN plan.insertBlocks
        <4>1. blocks'[b] = plan.insertBlocks[b]
          BY <3>1, BlocksAfter
        <4> QED
          BY <1>1, <2>1, <3>1, <4>1
      <3>2. CASE b \notin DOMAIN plan.insertBlocks
        <4>1. b \in DOMAIN blocks /\ blocks'[b] = blocks[b]
          BY <2>3, <3>2, BlocksAfter
        <4> QED
          BY <1>1, <2>2, <4>1
      <3> QED
        BY <3>1, <3>2
    <2> QED
      BY <2>3 DEF IsTable
  <1>3. IsTable(allocs, nextId.alloc, Allocation)'
    <2>1. \A a \in DOMAIN plan.insertAllocs :
             plan.insertAllocs[a] \in Allocation /\ a \in nextId.alloc .. nextId'.alloc - 1
      BY IdsAfter DEF Fits, InsertsFit
    <2>2. \A a \in DOMAIN plan.replaceAllocs :
             a \in DOMAIN allocs /\ plan.replaceAllocs[a] \in Allocation
      BY DEF Fits, ReplacesFit
    <2>3. \A a \in DOMAIN allocs : allocs[a] \in Allocation /\ a \in 0 .. nextId.alloc - 1
      BY DEF TablesTyped, IsTable
    <2>4. ASSUME NEW a \in DOMAIN allocs'
          PROVE  allocs'[a] \in Allocation /\ a \in 0 .. nextId'.alloc - 1
      <3>1. CASE a \in DOMAIN plan.insertAllocs
        <4>1. allocs'[a] = plan.insertAllocs[a]
          BY <3>1, AllocsAfter
        <4> QED
          BY <1>1, <2>1, <3>1, <4>1
      <3>2. CASE a \in DOMAIN plan.replaceAllocs \ DOMAIN plan.insertAllocs
        <4>1. allocs'[a] = plan.replaceAllocs[a]
          BY <3>2, AllocsAfter
        <4> QED
          BY <1>1, <2>2, <2>3, <3>2, <4>1
      <3>3. CASE a \notin DOMAIN plan.insertAllocs \cup DOMAIN plan.replaceAllocs
        <4>1. a \in DOMAIN allocs /\ allocs'[a] = allocs[a]
          BY <2>4, <3>3, AllocsAfter
        <4> QED
          BY <1>1, <2>3, <4>1
      <3> QED
        BY <3>1, <3>2, <3>3
    <2> QED
      BY <2>4 DEF IsTable
  <1>4. IsTable(pointers, nextId.pointer, HostnamePointer)'
    <2>1. \A p \in DOMAIN plan.putPointers : plan.putPointers[p] \in HostnamePointer
      BY DEF Fits, PointersFit
    <2>2. \A p \in DOMAIN plan.putPointers :
             p \notin DOMAIN pointers => p \in nextId.pointer .. nextId'.pointer - 1
      BY IdsAfter
    <2>3. \A p \in DOMAIN pointers :
             pointers[p] \in HostnamePointer /\ p \in 0 .. nextId.pointer - 1
      BY DEF TablesTyped, IsTable
    <2>4. ASSUME NEW p \in DOMAIN pointers'
          PROVE  pointers'[p] \in HostnamePointer /\ p \in 0 .. nextId'.pointer - 1
      <3>1. CASE p \in DOMAIN plan.putPointers
        <4>1. pointers'[p] = plan.putPointers[p]
          BY <3>1, PointersAfter
        <4> QED
          BY <1>1, <2>1, <2>2, <2>3, <3>1, <4>1
      <3>2. CASE p \notin DOMAIN plan.putPointers
        <4>1. p \in DOMAIN pointers /\ pointers'[p] = pointers[p]
          BY <2>4, <3>2, PointersAfter
        <4> QED
          BY <1>1, <2>3, <4>1
      <3> QED
        BY <3>1, <3>2
    <2> QED
      BY <2>4 DEF IsTable
  <1> QED
    BY <1>2, <1>3, <1>4, IdsAfter DEF TablesTyped

\* What a row of the allocations after a fit plan was before.
LEMMA Provenance ==
    ASSUME TablesTyped, NEW m, NEW plan, Fits(m, plan), Apply(plan), NEW a \in DOMAIN allocs'
    PROVE  \/ /\ a \in DOMAIN plan.insertAllocs /\ a \notin DOMAIN allocs
              /\ allocs'[a] = plan.insertAllocs[a]
           \/ /\ a \in DOMAIN plan.replaceAllocs /\ a \in DOMAIN allocs
              /\ a \notin DOMAIN plan.insertAllocs
              /\ allocs'[a] = plan.replaceAllocs[a]
              /\ allocs'[a].tenant = m.tenant /\ allocs'[a].block = m.block
              /\ allocs[a].tenant = m.tenant /\ allocs[a].block = m.block
              /\ allocs'[a].cidr = allocs[a].cidr
              /\ m.kind \in BlockKinds \ {"delete"}
           \/ /\ a \in DOMAIN allocs
              /\ a \notin DOMAIN plan.insertAllocs \cup DOMAIN plan.replaceAllocs
              /\ allocs[a].block \notin plan.deleteBlocks
              /\ allocs'[a] = allocs[a]
  <1>1. \A id \in DOMAIN plan.insertAllocs : id \notin DOMAIN allocs
    BY IdsAfter DEF TablesTyped, IsTable
  <1>2. CASE a \in DOMAIN plan.insertAllocs
    BY <1>1, <1>2, AllocsAfter
  <1>3. CASE a \in DOMAIN plan.replaceAllocs \ DOMAIN plan.insertAllocs
    BY <1>3, AllocsAfter DEF Fits, ReplacesFit
  <1>4. CASE a \notin DOMAIN plan.insertAllocs \cup DOMAIN plan.replaceAllocs
    BY <1>4, AllocsAfter DEF Cascade
  <1> QED
    BY <1>2, <1>3, <1>4

\* A fit plan leaves every allocation in a block of its tenant.
LEMMA ApplyInOwnBlock ==
    ASSUME TablesTyped, InOwnBlock, NEW m, NEW plan, Fits(m, plan), Apply(plan)
    PROVE  InOwnBlock'
  <1> SUFFICES ASSUME NEW a \in DOMAIN allocs'
               PROVE  /\ allocs'[a].block \in DOMAIN blocks'
                      /\ blocks'[allocs'[a].block].tenant = allocs'[a].tenant
                      /\ same_ip_version(blocks'[allocs'[a].block].cidr, allocs'[a].cidr)
                      /\ range_contains(blocks'[allocs'[a].block].cidr, allocs'[a].cidr)
    BY DEF InOwnBlock
  <1>1. \A b \in DOMAIN plan.insertBlocks : b \notin DOMAIN blocks
    BY IdsAfter DEF TablesTyped, IsTable
  <1>2. ASSUME NEW b \in DOMAIN blocks, b \notin plan.deleteBlocks
        PROVE  b \in DOMAIN blocks' /\ blocks'[b] = blocks[b]
    BY <1>1, <1>2, BlocksAfter
  <1>3. m.kind # "delete" => plan.deleteBlocks = {}
    BY DEF Fits, DeletesFit
  <1>4. CASE a \in DOMAIN allocs /\ allocs[a].block \notin plan.deleteBlocks
             /\ allocs'[a].block = allocs[a].block /\ allocs'[a].cidr = allocs[a].cidr
             /\ allocs'[a].tenant = allocs[a].tenant
    BY <1>2, <1>4 DEF InOwnBlock
  <1>5. CASE a \in DOMAIN plan.insertAllocs /\ allocs'[a] = plan.insertAllocs[a]
    <2> DEFINE row == plan.insertAllocs[a]
               home == With(plan.insertBlocks, blocks)
    <2>1. /\ \/ m.kind # "delete" /\ row.block = m.block /\ m.block \in DOMAIN blocks
             \/ row.block \in DOMAIN plan.insertBlocks
          /\ home[row.block].tenant = row.tenant
          /\ same_ip_version(home[row.block].cidr, row.cidr)
          /\ range_contains(home[row.block].cidr, row.cidr)
      BY <1>5 DEF Fits, InsertsFit
    <2>2. row.block \in DOMAIN blocks' /\ blocks'[row.block] = home[row.block]
      <3>1. CASE row.block \in DOMAIN plan.insertBlocks
        BY <3>1, BlocksAfter DEF With
      <3>2. CASE row.block \notin DOMAIN plan.insertBlocks
        <4>1. row.block \in DOMAIN blocks /\ row.block \notin plan.deleteBlocks
          BY <1>3, <2>1, <3>2
        <4>2. row.block \in DOMAIN blocks' /\ blocks'[row.block] = blocks[row.block]
          BY <1>2, <4>1
        <4> QED
          BY <3>2, <4>1, <4>2 DEF With
      <3> QED
        BY <3>1, <3>2
    <2> HIDE DEF home
    <2> QED
      BY <1>5, <2>1, <2>2
  <1> QED
    BY <1>3, <1>4, <1>5, Provenance

\* What is live after a plan was live before, or was made live by it.
LEMMA LiveAfter ==
    ASSUME TablesTyped, NEW m, NEW plan, Fits(m, plan), Apply(plan),
           NEW a \in DOMAIN allocs', allocs'[a].status \in LIVE
    PROVE  \/ /\ a \in Revived(plan)
              /\ With(plan.insertAllocs, plan.replaceAllocs)[a] = allocs'[a]
           \/ /\ a \in DOMAIN allocs /\ allocs[a].status \in LIVE
              /\ allocs[a].block = allocs'[a].block /\ allocs[a].cidr = allocs'[a].cidr
  <1> DEFINE rows == With(plan.insertAllocs, plan.replaceAllocs)
  <1>1. CASE a \in DOMAIN plan.insertAllocs /\ a \notin DOMAIN allocs
             /\ allocs'[a] = plan.insertAllocs[a]
    <2>1. a \in DOMAIN rows /\ rows[a] = plan.insertAllocs[a]
      BY <1>1 DEF With
    <2> QED
      BY <1>1, <2>1 DEF Revived
  <1>2. CASE /\ a \in DOMAIN plan.replaceAllocs /\ a \in DOMAIN allocs
             /\ a \notin DOMAIN plan.insertAllocs
             /\ allocs'[a] = plan.replaceAllocs[a]
             /\ allocs'[a].block = allocs[a].block /\ allocs'[a].cidr = allocs[a].cidr
    <2>1. a \in DOMAIN rows /\ rows[a] = plan.replaceAllocs[a]
      BY <1>2 DEF With
    <2> QED
      BY <1>2, <2>1 DEF Revived
  <1>3. CASE a \in DOMAIN allocs /\ allocs'[a] = allocs[a]
    BY <1>3
  <1> QED
    BY <1>1, <1>2, <1>3, Provenance

\* A fit plan keeps the live allocations of a block apart.
LEMMA ApplyNoLiveOverlap ==
    ASSUME TablesTyped, NoLiveOverlap, NEW m, NEW plan, Fits(m, plan), Apply(plan)
    PROVE  NoLiveOverlap'
  <1> SUFFICES ASSUME NEW a \in DOMAIN allocs', NEW b \in DOMAIN allocs', a # b,
                      allocs'[a].block = allocs'[b].block,
                      allocs'[a].status \in LIVE, allocs'[b].status \in LIVE
               PROVE  ~ ranges_overlap(allocs'[a].cidr, allocs'[b].cidr)
    BY DEF NoLiveOverlap
  <1> DEFINE rows == With(plan.insertAllocs, plan.replaceAllocs)
             New(c) == c \in Revived(plan) /\ rows[c] = allocs'[c]
             Old(c) == /\ c \in DOMAIN allocs /\ allocs[c].status \in LIVE
                       /\ allocs[c].block = allocs'[c].block
                       /\ allocs[c].cidr = allocs'[c].cidr
  <1>1. (New(a) \/ Old(a)) /\ (New(b) \/ Old(b))
    BY LiveAfter
  <1>2. ASSUME NEW c \in Revived(plan)
        PROVE  /\ \A d \in DOMAIN allocs :
                     allocs[d].status \in LIVE /\ allocs[d].block = rows[c].block
                     => ~ ranges_overlap(rows[c].cidr, allocs[d].cidr)
               /\ \A d \in Revived(plan) :
                     c # d /\ rows[c].block = rows[d].block
                     => ~ ranges_overlap(rows[c].cidr, rows[d].cidr)
    BY <1>2 DEF Fits, SpaceFits
  <1>3. CASE Old(a) /\ Old(b)
    BY <1>3 DEF NoLiveOverlap
  <1> HIDE DEF rows
  <1>4. CASE New(a)
    BY <1>1, <1>2, <1>4
  <1>5. CASE Old(a) /\ New(b)
    BY <1>2, <1>5 DEF ranges_overlap
  <1> QED
    BY <1>1, <1>3, <1>4, <1>5

-----------------------------------------------------------------------------
\* What a unit is sure of about its request while it waits for its scope or
\* holds it: the block it names has been issued, and the allocation whose
\* block it has learned is still in that block if it is there.
UnitOk(m) ==
    /\ m \in Mutation
    /\ m.kind \in BlockKinds => m.block \in Nat /\ m.block < nextId.block
    /\ m.kind \in ResolvedKinds =>
          /\ m.alloc \in Nat /\ m.alloc < nextId.alloc
          /\ m.alloc \in DOMAIN allocs =>
                allocs[m.alloc].tenant = m.tenant /\ allocs[m.alloc].block = m.block
    /\ m.kind = "load" => SoundDump(m.dump)

\* Different scopes are of different tenants, of different blocks, or one of a
\* block and one of a tenant.
LEMMA ScopesDiffer ==
    ASSUME NEW m, NEW n, scope(m) # scope(n)
    PROVE  /\ m.kind \in BlockKinds /\ n.kind \in BlockKinds
              => m.tenant # n.tenant \/ m.block # n.block
           /\ m.kind \notin BlockKinds /\ n.kind \notin BlockKinds => m.tenant # n.tenant
  BY DEF scope, block_scope, tenant_scope

\* The kinds of a block and those of a tenant.
LEMMA KindsApart == \A k \in TenantKinds : k \notin BlockKinds
  BY DEF TenantKinds, BlockKinds

\* A plan leaves alone the allocations of a block whose scope it does not hold.
LEMMA OtherRows ==
    ASSUME TablesInv, NEW m, NEW plan, Fits(m, plan), Apply(plan),
           NEW n, UnitOk(n), n.kind \in BlockKinds, scope(m) # scope(n)
    PROVE  /\ \A a \in DOMAIN allocs :
                 allocs[a].tenant = n.tenant /\ allocs[a].block = n.block
                 => a \in DOMAIN allocs' /\ allocs'[a] = allocs[a]
           /\ \A a \in DOMAIN allocs' :
                 allocs'[a].tenant = n.tenant /\ allocs'[a].block = n.block
                 => a \in DOMAIN allocs /\ allocs'[a] = allocs[a]
  <1>1. m.kind \in BlockKinds => m.tenant # n.tenant \/ m.block # n.block
    BY ScopesDiffer
  <1>2. ASSUME NEW a \in DOMAIN allocs, allocs[a].tenant = n.tenant, allocs[a].block = n.block
        PROVE  a \in DOMAIN allocs' /\ allocs'[a] = allocs[a]
    <2>1. a \notin DOMAIN plan.insertAllocs
      BY IdsAfter DEF TablesInv, TablesTyped, IsTable
    <2>2. a \notin DOMAIN plan.replaceAllocs
      BY <1>1, <1>2 DEF Fits, ReplacesFit
    <2>3. a \notin Cascade(plan)
      <3>1. blocks[n.block].tenant = n.tenant
        BY <1>2 DEF TablesInv, InOwnBlock
      <3>2. n.block \in plan.deleteBlocks => m.kind \in BlockKinds /\ n.block = m.block
                                             /\ blocks[n.block].tenant = m.tenant
        BY DEF Fits, DeletesFit, BlockKinds
      <3> QED
        BY <1>1, <1>2, <3>1, <3>2 DEF Cascade
    <2> QED
      BY <2>1, <2>2, <2>3, AllocsAfter
  <1>3. ASSUME NEW a \in DOMAIN allocs', allocs'[a].tenant = n.tenant, allocs'[a].block = n.block
        PROVE  a \in DOMAIN allocs /\ allocs'[a] = allocs[a]
    <2>1. TablesTyped
      BY DEF TablesInv
    <2>2. CASE a \in DOMAIN plan.insertAllocs /\ allocs'[a] = plan.insertAllocs[a]
      <3>1. n.block \notin DOMAIN plan.insertBlocks
        BY <2>1, IdsAfter DEF UnitOk, TablesTyped
      <3>2. /\ allocs'[a].tenant = m.tenant
            /\ \/ m.kind \in BlockKinds /\ allocs'[a].block = m.block
               \/ allocs'[a].block \in DOMAIN plan.insertBlocks
        BY <2>2 DEF Fits, InsertsFit
      <3> QED
        BY <1>1, <1>3, <3>1, <3>2
    <2>3. CASE /\ allocs'[a].tenant = m.tenant /\ allocs'[a].block = m.block
               /\ m.kind \in BlockKinds
      BY <1>1, <1>3, <2>3
    <2> QED
      BY <2>1, <2>2, <2>3, Provenance
  <1> QED
    BY <1>2, <1>3

\* A plan leaves alone the block whose scope it does not hold.
LEMMA OtherBlock ==
    ASSUME TablesInv, NEW m, NEW plan, Fits(m, plan), Apply(plan),
           NEW n, UnitOk(n), n.kind \in BlockKinds, scope(m) # scope(n)
    PROVE  Row(blocks, n.tenant, n.block)' = Row(blocks, n.tenant, n.block)
  <1>1. n.block \notin DOMAIN plan.insertBlocks
    BY IdsAfter DEF UnitOk, TablesInv, TablesTyped
  <1>2. CASE n.block \notin plan.deleteBlocks
    <2>1. n.block \in DOMAIN blocks' <=> n.block \in DOMAIN blocks
      BY <1>1, <1>2, BlocksAfter
    <2>2. n.block \in DOMAIN blocks => blocks'[n.block] = blocks[n.block]
      BY <1>1, <1>2, BlocksAfter
    <2> QED
      BY <2>1, <2>2 DEF Row
  <1>3. CASE n.block \in plan.deleteBlocks
    <2>1. n.block \notin DOMAIN blocks'
      BY <1>1, <1>3, BlocksAfter
    <2>2. blocks[n.block].tenant = m.tenant /\ m.block = n.block /\ m.kind \in BlockKinds
      BY <1>3 DEF Fits, DeletesFit, BlockKinds
    <2>3. m.tenant # n.tenant
      BY <2>2, ScopesDiffer
    <2> QED
      BY <2>1, <2>2, <2>3 DEF Row
  <1> QED
    BY <1>2, <1>3

\* A plan adds no block to a tenant whose scope it does not hold.
LEMMA OtherTenantBlocks ==
    ASSUME TablesInv, NEW m, NEW plan, Fits(m, plan), Apply(plan),
           NEW n, n.kind \in TenantKinds, scope(m) # scope(n),
           NEW b \in DOMAIN BlocksOf(n.tenant)'
    PROVE  b \in DOMAIN BlocksOf(n.tenant) /\ blocks'[b] = blocks[b]
  <1>1. b \in DOMAIN blocks' /\ blocks'[b].tenant = n.tenant
    BY DEF BlocksOf, Restrict
  <1>2. b \notin DOMAIN plan.insertBlocks
    <2>1. SUFFICES ASSUME b \in DOMAIN plan.insertBlocks PROVE FALSE
      OBVIOUS
    <2>2. m.kind \in TenantKinds /\ plan.insertBlocks[b].tenant = m.tenant
      BY <2>1 DEF Fits, BlocksFit
    <2>3. blocks'[b] = plan.insertBlocks[b]
      BY <2>1, BlocksAfter
    <2> QED
      BY <1>1, <2>2, <2>3, ScopesDiffer, KindsApart
  <1>3. b \in DOMAIN blocks /\ blocks'[b] = blocks[b]
    BY <1>1, <1>2, BlocksAfter
  <1> QED
    BY <1>1, <1>3 DEF BlocksOf, Restrict

\* A plan leaves alone the allocation whose block's scope it does not hold.
LEMMA OtherAlloc ==
    ASSUME TablesInv, NEW m, NEW plan, Fits(m, plan), Apply(plan),
           NEW n, UnitOk(n), n.kind \in ResolvedKinds, scope(m) # scope(n)
    PROVE  Row(allocs, n.tenant, n.alloc)' = Row(allocs, n.tenant, n.alloc)
  <1>1. n.kind \in BlockKinds
    BY DEF ResolvedKinds, BlockKinds
  <1>2. n.alloc \notin DOMAIN plan.insertAllocs
    BY IdsAfter DEF UnitOk, TablesInv, TablesTyped
  <1>3. CASE n.alloc \in DOMAIN allocs
    <2>1. allocs[n.alloc].tenant = n.tenant /\ allocs[n.alloc].block = n.block
      BY <1>3 DEF UnitOk
    <2>2. n.alloc \in DOMAIN allocs' /\ allocs'[n.alloc] = allocs[n.alloc]
      BY <1>1, <1>3, <2>1, OtherRows
    <2> QED
      BY <1>3, <2>2 DEF Row
  <1>4. CASE n.alloc \notin DOMAIN allocs
    <2>1. n.alloc \notin DOMAIN allocs'
      BY <1>2, <1>4, Provenance DEF TablesInv
    <2> QED
      BY <1>4, <2>1 DEF Row
  <1> QED
    BY <1>3, <1>4

\* A plan leaves alone the live allocations of a block whose scope it does
\* not hold.
LEMMA OtherLive ==
    ASSUME TablesInv, NEW m, NEW plan, Fits(m, plan), Apply(plan),
           NEW n, UnitOk(n), n.kind \in BlockKinds, scope(m) # scope(n)
    PROVE  LiveIn(n.tenant, n.block)' = LiveIn(n.tenant, n.block)
  <1> DEFINE S == {a \in DOMAIN allocs : /\ allocs[a].tenant = n.tenant
                                         /\ allocs[a].block = n.block
                                         /\ allocs[a].status \in LIVE}
  <1>1. S' = S
    BY OtherRows
  <1>2. \A a \in S : allocs'[a] = allocs[a]
    BY OtherRows
  <1>3. LiveIn(n.tenant, n.block) = [a \in S |-> allocs[a]]
    BY DEF LiveIn, Restrict
  <1>4. LiveIn(n.tenant, n.block)' = [a \in S' |-> allocs'[a]]
    BY DEF LiveIn, Restrict
  <1> HIDE DEF S
  <1> QED
    BY <1>1, <1>2, <1>3, <1>4

\* A plan leaves alone the pointers of a tenant whose scope it does not hold.
LEMMA OtherPointers ==
    ASSUME TablesInv, NEW m, NEW plan, Fits(m, plan), Apply(plan),
           NEW n, n.kind \in TenantKinds, scope(m) # scope(n)
    PROVE  PointersFor(n.tenant, n.pair)' = PointersFor(n.tenant, n.pair)
  <1> DEFINE S == {p \in DOMAIN pointers : /\ pointers[p].tenant = n.tenant
                                           /\ pointers[p].pair = n.pair}
  <1>1. m.kind \in TenantKinds => m.tenant # n.tenant
    BY ScopesDiffer, KindsApart
  <1>2. ASSUME NEW p \in DOMAIN pointers, pointers[p].tenant = n.tenant
        PROVE  p \in DOMAIN pointers' /\ pointers'[p] = pointers[p]
    <2>1. p \notin DOMAIN plan.putPointers /\ p \notin plan.deletePointers
      BY <1>1, <1>2 DEF Fits, PointersFit
    <2> QED
      BY <2>1, PointersAfter
  <1>3. ASSUME NEW p \in DOMAIN pointers', pointers'[p].tenant = n.tenant
        PROVE  p \in DOMAIN pointers /\ pointers'[p] = pointers[p]
    <2>1. p \notin DOMAIN plan.putPointers
      <3>1. p \in DOMAIN plan.putPointers => pointers'[p] = plan.putPointers[p]
        BY PointersAfter
      <3>2. p \in DOMAIN plan.putPointers =>
               m.kind \in TenantKinds /\ plan.putPointers[p].tenant = m.tenant
        BY DEF Fits, PointersFit
      <3> QED
        BY <1>1, <1>3, <3>1, <3>2
    <2> QED
      BY <2>1, PointersAfter
  <1>4. S' = S
    BY <1>2, <1>3
  <1>5. \A p \in S : pointers'[p] = pointers[p]
    BY <1>2
  <1>6. PointersFor(n.tenant, n.pair) = [p \in S |-> pointers[p]]
    BY DEF PointersFor, Restrict
  <1>7. PointersFor(n.tenant, n.pair)' = [p \in S' |-> pointers'[p]]
    BY DEF PointersFor, Restrict
  <1> HIDE DEF S
  <1> QED
    BY <1>4, <1>5, <1>6, <1>7

\* A keyed unit leaves alone the key of a unit of another scope.
LEMMA OtherKey ==
    ASSUME NEW m, NEW plan, NEW at, NEW ttl, Remember(m, plan, at, ttl),
           NEW n, Keyed(n), scope(m) # scope(n), IdemRecord(IdemKey(n)) = NULL
    PROVE  IdemRecord(IdemKey(n))' = NULL
  <1>1. CASE Keyed(m)
    <2>1. IdemKey(m) # IdemKey(n)
      BY <1>1, ScopesDiffer DEF IdemKey, Keyed, BlockKinds
    <2>2. IdemKey(n) \in DOMAIN idem' <=> IdemKey(n) \in DOMAIN idem
      BY <1>1, <2>1 DEF Remember, With, Only
    <2>3. IdemKey(n) \in DOMAIN idem => idem'[IdemKey(n)] = idem[IdemKey(n)]
      BY <1>1, <2>1 DEF Remember, With, Only
    <2> QED
      BY <2>2, <2>3 DEF IdemRecord
  <1>2. CASE ~ Keyed(m)
    BY <1>2 DEF Remember, IdemRecord
  <1> QED
    BY <1>1, <1>2

\* The eleven kinds.
LEMMA KindOf ==
    ASSUME NEW m \in Mutation
    PROVE  m.kind \in {"specific", "auto", "update", "release", "tags", "expire",
                       "create", "delete", "load", "pointer", "unpoint"}
  BY DEF Mutation, SpecificRequest, AutoRequest, UpdateRequest, ReleaseRequest,
         TagsRequest, ExpireRequest, CreateRequest, DeleteRequest, LoadRequest,
         SetPointerRequest, DeletePointerRequest

\* The seven parts of a view.
LEMMA PartOf ==
    ASSUME NEW m \in Mutation, NEW part \in reads(m)
    PROVE  part \in {"pointer", "alloc", "block", "blocks", "parent", "live", "idem"}
  BY KindOf DEF reads, If

\* What a unit has read under its scope is not disturbed by the plan of a unit
\* that holds another.
LEMMA OtherView ==
    ASSUME TablesInv, NEW m, NEW plan, NEW at, NEW ttl,
           Fits(m, plan), Apply(plan), Remember(m, plan, at, ttl),
           NEW n, UnitOk(n), scope(m) # scope(n),
           NEW v, DOMAIN v \subseteq reads(n), StableView(n, v)
    PROVE  StableView(n, v)'
  <1> SUFFICES ASSUME NEW part \in DOMAIN v
               PROVE  CASE part = "blocks" ->
                             \A b \in DOMAIN BlocksOf(n.tenant)' :
                                b \in DOMAIN v.blocks /\ v.blocks[b] = blocks'[b]
                        [] part = "parent" \/ (part = "alloc" /\ n.kind = "pointer") -> TRUE
                        [] part = "idem" -> v.idem = NULL => read_one(n, "idem")' = NULL
                        [] OTHER -> v[part] = read_one(n, part)'
    BY DEF StableView
  <1>1. part \in reads(n)
    OBVIOUS
  <1>2. n \in Mutation
    BY DEF UnitOk
  <1>3. CASE part = "blocks"
    <2>1. n.kind \in TenantKinds
      BY <1>1, <1>3, KindOf, <1>2 DEF reads, If, TenantKinds
    <2>2. \A b \in DOMAIN BlocksOf(n.tenant) : b \in DOMAIN v.blocks /\ v.blocks[b] = blocks[b]
      BY <1>3 DEF StableView
    <2>3. \A b \in DOMAIN BlocksOf(n.tenant)' :
             b \in DOMAIN BlocksOf(n.tenant) /\ blocks'[b] = blocks[b]
      BY <2>1, OtherTenantBlocks
    <2> QED
      BY <1>3, <2>2, <2>3
  <1>4. CASE part = "block"
    <2>1. n.kind \in BlockKinds
      BY <1>1, <1>4, KindOf, <1>2 DEF reads, If, BlockKinds
    <2>2. v[part] = Row(blocks, n.tenant, n.block)
      BY <1>4 DEF StableView, read_one
    <2>3. read_one(n, part)' = Row(blocks, n.tenant, n.block)'
      BY <1>4 DEF read_one
    <2> QED
      BY <1>4, <2>1, <2>2, <2>3, OtherBlock
  <1>5. CASE part = "live"
    <2>1. n.kind \in BlockKinds
      BY <1>1, <1>5, KindOf, <1>2 DEF reads, If, BlockKinds
    <2>2. v[part] = LiveIn(n.tenant, n.block)
      BY <1>5 DEF StableView, read_one
    <2>3. read_one(n, part)' = LiveIn(n.tenant, n.block)'
      BY <1>5 DEF read_one
    <2> QED
      BY <1>5, <2>1, <2>2, <2>3, OtherLive
  <1>6. CASE part = "alloc" /\ n.kind # "pointer"
    <2>1. n.kind \in ResolvedKinds
      BY <1>1, <1>6, KindOf, <1>2 DEF reads, If, ResolvedKinds
    <2>2. v[part] = Row(allocs, n.tenant, n.alloc)
      BY <1>6 DEF StableView, read_one
    <2>3. read_one(n, part)' = Row(allocs, n.tenant, n.alloc)'
      BY <1>6 DEF read_one
    <2> QED
      BY <1>6, <2>1, <2>2, <2>3, OtherAlloc
  <1>7. CASE part = "pointer"
    <2>1. n.kind \in TenantKinds
      BY <1>1, <1>7, KindOf, <1>2 DEF reads, If, TenantKinds
    <2>2. v[part] = PointersFor(n.tenant, n.pair)
      BY <1>7 DEF StableView, read_one
    <2>3. read_one(n, part)' = PointersFor(n.tenant, n.pair)'
      BY <1>7 DEF read_one
    <2> QED
      BY <1>7, <2>1, <2>2, <2>3, OtherPointers
  <1>8. CASE part = "idem"
    <2>1. Keyed(n)
      BY <1>1, <1>8, KindOf, <1>2 DEF reads, If
    <2>2. v.idem = NULL => IdemRecord(IdemKey(n)) = NULL
      BY <1>8 DEF StableView, read_one
    <2>3. read_one(n, "idem")' = IdemRecord(IdemKey(n))'
      BY DEF read_one
    <2> QED
      BY <1>8, <2>1, <2>2, <2>3, OtherKey
  <1>9. CASE part = "parent" \/ (part = "alloc" /\ n.kind = "pointer")
    BY <1>9
  <1> QED
    BY <1>1, <1>2, <1>3, <1>4, <1>5, <1>6, <1>7, <1>8, <1>9, PartOf

-----------------------------------------------------------------------------
\* The empty table has no row.
LEMMA NoRows == DOMAIN <<>> = {} /\ Cardinality({}) = 0
  BY FS_EmptySet

\* Nothing is inserted: the ids are trivially fresh.
LEMMA FreshNone ==
    ASSUME NEW rows, DOMAIN rows = {}, NEW next
    PROVE  Fresh(rows, next)
  BY NoRows DEF Fresh

\* One row is inserted at the next id.
LEMMA FreshOne ==
    ASSUME NEW row, NEW next \in Nat
    PROVE  /\ Fresh(Only(next, row), next)
           /\ DOMAIN Only(next, row) = {next} /\ Only(next, row)[next] = row
  <1>1. DOMAIN Only(next, row) = {next} /\ Only(next, row)[next] = row
    BY DEF Only
  <1>2. Cardinality({next}) = 1
    BY FS_Singleton
  <1> QED
    BY <1>1, <1>2 DEF Fresh

\* n rows are inserted at the next n ids.
LEMMA FreshRun ==
    ASSUME NEW n \in Nat, NEW next \in Nat, NEW rows, DOMAIN rows = next .. next + n - 1
    PROVE  Fresh(rows, next)
  <1>1. next + n - 1 \in Int
    OBVIOUS
  <1>2. Cardinality(next .. next + n - 1)
           = IF next > next + n - 1 THEN 0 ELSE next + n - 1 - next + 1
    BY <1>1, FS_Interval
  <1>3. Cardinality(next .. next + n - 1) = n
    BY <1>2
  <1> QED
    BY <1>3 DEF Fresh

\* The tenant of an allocation is that of its block.
LEMMA LiveOf ==
    ASSUME TablesInv, NEW t, NEW b, b \in DOMAIN blocks, blocks[b].tenant = t
    PROVE  /\ \A a \in DOMAIN allocs :
                 allocs[a].block = b /\ allocs[a].status \in LIVE => a \in DOMAIN LiveIn(t, b)
           /\ \A a \in DOMAIN LiveIn(t, b) :
                 /\ a \in DOMAIN allocs /\ LiveIn(t, b)[a] = allocs[a]
                 /\ allocs[a].tenant = t /\ allocs[a].block = b /\ allocs[a].status \in LIVE
  <1>1. \A a \in DOMAIN allocs : allocs[a].block = b => allocs[a].tenant = t
    BY DEF TablesInv, InOwnBlock
  <1> QED
    BY <1>1 DEF LiveIn, Restrict

\* The range of a row is among the ranges of its table.
LEMMA RangeOfRow ==
    ASSUME NEW rows, NEW a \in DOMAIN rows
    PROVE  rows[a].cidr \in Ranges(rows)
  BY DEF Ranges

\* A plan that only inserts allocations in the unit's block.
LEMMA InsertFits ==
    ASSUME TablesInv, NEW m, m.kind \in BlockKinds \ {"delete"},
           m.block \in DOMAIN blocks, blocks[m.block].tenant = m.tenant,
           NEW rows, Fresh(rows, nextId.alloc),
           \A a \in DOMAIN rows :
              /\ rows[a] \in Allocation
              /\ rows[a].tenant = m.tenant /\ rows[a].block = m.block
              /\ same_ip_version(blocks[m.block].cidr, rows[a].cidr)
              /\ range_contains(blocks[m.block].cidr, rows[a].cidr)
              /\ no_overlap(LiveIn(m.tenant, m.block), rows[a].cidr),
           \A a, b \in DOMAIN rows : a # b => ~ ranges_overlap(rows[a].cidr, rows[b].cidr)
    PROVE  Fits(m, insert(rows))
  <1> DEFINE plan == insert(rows)
  <1>1. /\ plan.insertAllocs = rows
        /\ plan.insertBlocks = <<>> /\ plan.replaceAllocs = <<>> /\ plan.putPointers = <<>>
        /\ plan.deleteBlocks = {} /\ plan.deletePointers = {}
    BY DEF insert, EmptyPlan
  <1> HIDE DEF plan
  <1>2. BlocksFit(m, plan) /\ DeletesFit(m, plan)
    BY <1>1, NoRows, FreshNone DEF BlocksFit, DeletesFit
  <1>3. ReplacesFit(m, plan)
    BY <1>1, NoRows DEF ReplacesFit
  <1>4. PointersFit(m, plan)
    BY <1>1, NoRows, FreshNone DEF PointersFit
  <1>5. InsertsFit(m, plan)
    <2>1. With(plan.insertBlocks, blocks)[m.block] = blocks[m.block]
      BY <1>1, NoRows DEF With
    <2>2. \A a \in DOMAIN rows : rows[a].block = m.block
      OBVIOUS
    <2> QED
      BY <1>1, <2>1, <2>2 DEF InsertsFit
  <1>6. SpaceFits(plan)
    <2>1. /\ DOMAIN With(plan.insertAllocs, plan.replaceAllocs) = DOMAIN rows
          /\ \A a \in DOMAIN rows :
                With(plan.insertAllocs, plan.replaceAllocs)[a] = rows[a]
      BY <1>1, NoRows DEF With
    <2>2. Revived(plan) \subseteq DOMAIN rows
      BY <2>1 DEF Revived
    <2>3. ASSUME NEW a \in DOMAIN rows, NEW b \in DOMAIN allocs,
                 allocs[b].status \in LIVE, allocs[b].block = m.block
          PROVE  ~ ranges_overlap(rows[a].cidr, allocs[b].cidr)
      <3>1. b \in DOMAIN LiveIn(m.tenant, m.block)
            /\ LiveIn(m.tenant, m.block)[b] = allocs[b]
        BY <2>3, LiveOf
      <3>2. LiveIn(m.tenant, m.block)[b].cidr \in Ranges(LiveIn(m.tenant, m.block))
        BY <3>1, RangeOfRow
      <3>3. no_overlap(LiveIn(m.tenant, m.block), rows[a].cidr)
        OBVIOUS
      <3> QED
        BY <3>1, <3>2, <3>3 DEF no_overlap
    <2> QED
      BY <2>1, <2>2, <2>3 DEF SpaceFits
  <1> QED
    BY <1>2, <1>3, <1>4, <1>5, <1>6 DEF Fits, plan

\* A plan that only overwrites allocations of the unit's block, and makes at
\* most one of them live, at addresses that are free.
LEMMA ReplaceFits ==
    ASSUME TablesInv, NEW m, m.kind \in BlockKinds \ {"delete"},
           NEW rows, NEW action,
           \A a \in DOMAIN rows :
              /\ a \in DOMAIN allocs /\ rows[a] \in Allocation
              /\ allocs[a].tenant = m.tenant /\ allocs[a].block = m.block
              /\ rows[a].tenant = m.tenant /\ rows[a].block = m.block
              /\ rows[a].cidr = allocs[a].cidr,
           \A a \in DOMAIN rows :
              rows[a].status \in LIVE /\ allocs[a].status \notin LIVE =>
                 /\ DOMAIN rows = {a}
                 /\ no_overlap(LiveIn(m.tenant, m.block), rows[a].cidr)
    PROVE  Fits(m, replace(rows, action))
  <1> DEFINE plan == replace(rows, action)
  <1>1. /\ plan.replaceAllocs = rows
        /\ plan.insertBlocks = <<>> /\ plan.insertAllocs = <<>> /\ plan.putPointers = <<>>
        /\ plan.deleteBlocks = {} /\ plan.deletePointers = {}
    BY DEF replace, EmptyPlan
  <1> HIDE DEF plan
  <1>2. BlocksFit(m, plan) /\ DeletesFit(m, plan)
    BY <1>1, NoRows, FreshNone DEF BlocksFit, DeletesFit
  <1>3. ReplacesFit(m, plan)
    BY <1>1 DEF ReplacesFit
  <1>4. PointersFit(m, plan)
    BY <1>1, NoRows, FreshNone DEF PointersFit
  <1>5. InsertsFit(m, plan)
    BY <1>1, NoRows, FreshNone DEF InsertsFit
  <1>6. SpaceFits(plan)
    <2>1. /\ DOMAIN With(plan.insertAllocs, plan.replaceAllocs) = DOMAIN rows
          /\ \A a \in DOMAIN rows :
                With(plan.insertAllocs, plan.replaceAllocs)[a] = rows[a]
      BY <1>1, NoRows DEF With
    <2>2. \A a \in Revived(plan) :
             /\ a \in DOMAIN rows /\ DOMAIN rows = {a}
             /\ no_overlap(LiveIn(m.tenant, m.block), rows[a].cidr)
      BY <2>1 DEF Revived
    <2>3. ASSUME NEW a \in Revived(plan), NEW b \in DOMAIN allocs,
                 allocs[b].status \in LIVE, allocs[b].block = rows[a].block
          PROVE  ~ ranges_overlap(rows[a].cidr, allocs[b].cidr)
      <3>1. a \in DOMAIN rows
        BY <2>2
      <3>2. rows[a].block = m.block /\ a \in DOMAIN allocs
            /\ allocs[a].tenant = m.tenant /\ allocs[a].block = m.block
        BY <3>1
      <3>3. m.block \in DOMAIN blocks /\ blocks[m.block].tenant = m.tenant
        BY <3>2 DEF TablesInv, InOwnBlock
      <3>4. b \in DOMAIN LiveIn(m.tenant, m.block)
            /\ LiveIn(m.tenant, m.block)[b] = allocs[b]
        BY <2>3, <3>2, <3>3, LiveOf
      <3>5. LiveIn(m.tenant, m.block)[b].cidr \in Ranges(LiveIn(m.tenant, m.block))
        BY <3>4, RangeOfRow
      <3>6. no_overlap(LiveIn(m.tenant, m.block), rows[a].cidr)
        BY <2>2
      <3> QED
        BY <3>4, <3>5, <3>6 DEF no_overlap
    <2>4. \A a, b \in Revived(plan) : a = b
      BY <2>2
    <2> QED
      BY <2>1, <2>2, <2>3, <2>4 DEF SpaceFits
  <1> QED
    BY <1>2, <1>3, <1>4, <1>5, <1>6 DEF Fits, plan

\* A plan that does nothing.
LEMMA EmptyFits ==
    ASSUME NEW m
    PROVE  Fits(m, EmptyPlan)
  <1> DEFINE plan == EmptyPlan
  <1>1. /\ plan.replaceAllocs = <<>>
        /\ plan.insertBlocks = <<>> /\ plan.insertAllocs = <<>> /\ plan.putPointers = <<>>
        /\ plan.deleteBlocks = {} /\ plan.deletePointers = {}
    BY DEF EmptyPlan
  <1> HIDE DEF plan
  <1>2. BlocksFit(m, plan) /\ DeletesFit(m, plan) /\ ReplacesFit(m, plan)
    BY <1>1, NoRows, FreshNone DEF BlocksFit, DeletesFit, ReplacesFit
  <1>3. PointersFit(m, plan) /\ InsertsFit(m, plan)
    BY <1>1, NoRows, FreshNone DEF PointersFit, InsertsFit
  <1>4. Revived(plan) = {}
    BY <1>1, NoRows DEF Revived, With
  <1> QED
    BY <1>2, <1>3, <1>4 DEF Fits, SpaceFits, plan

-----------------------------------------------------------------------------
\* Everything m declares has been read, and it is current.
Current(m, v) == DOMAIN v = reads(m) /\ StableView(m, v)

\* A row that is there.
LEMMA RowOf ==
    ASSUME NEW table, NEW t, NEW id, Row(table, t, id) # NULL
    PROVE  id \in DOMAIN table /\ table[id].tenant = t /\ Row(table, t, id) = table[id]
  BY DEF Row

\* What a unit of a block that found the block knows of it.
LEMMA BlockRead ==
    ASSUME NEW m, NEW v, Current(m, v), {"block", "live"} \subseteq reads(m), v.block # NULL
    PROVE  /\ m.block \in DOMAIN blocks /\ blocks[m.block].tenant = m.tenant
           /\ v.block = blocks[m.block] /\ v.live = LiveIn(m.tenant, m.block)
  <1>1. v.block = Row(blocks, m.tenant, m.block)
    BY DEF Current, StableView, read_one
  <1>2. v.live = LiveIn(m.tenant, m.block)
    BY DEF Current, StableView, read_one
  <1> QED
    BY <1>1, <1>2, RowOf

\* A new allocation is well typed.
LEMMA NewAllocation ==
    ASSUME NEW m \in SpecificRequest \cup AutoRequest, NEW cidr \in IpRange, NEW at \in Nat
    PROVE  LET row == new_allocation(m, cidr, at) IN
           row \in Allocation /\ row.tenant = m.tenant /\ row.block = m.block /\ row.cidr = cidr
  <1>1. m.tenant \in Tenants /\ m.block \in Nat /\ m.status \in Status
        /\ m.parent \in Optional(Nat) /\ m.tags \in TagSets /\ m.ttl \in Optional(Nat)
    BY DEF SpecificRequest, AutoRequest
  <1>2. (IF m.ttl = NULL THEN NULL ELSE at + m.ttl) \in Optional(Nat)
    BY <1>1 DEF Optional
  <1>3. NULL \in Optional(Nat)
    BY DEF Optional
  <1> QED
    BY <1>1, <1>2, <1>3 DEF new_allocation, Allocation

\* allocate_specific inserts one row: free, and in the block it read.
LEMMA SpecificFits ==
    ASSUME TablesInv, NEW m \in SpecificRequest, NEW v, Current(m, v),
           AllocateSpecificAccepts(m, v), NEW at \in Nat,
           NEW plan \in AllocateSpecificPlans(m, v, at)
    PROVE  Fits(m, plan)
  <1> DEFINE row == new_allocation(m, m.cidr, at)
             rows == Only(nextId.alloc, row)
  <1>1. m.kind = "specific" /\ m.cidr \in IpRange
    BY DEF SpecificRequest
  <1>2. {"block", "live"} \subseteq reads(m)
    BY <1>1 DEF reads
  <1>3. /\ m.block \in DOMAIN blocks /\ blocks[m.block].tenant = m.tenant
        /\ v.block = blocks[m.block] /\ v.live = LiveIn(m.tenant, m.block)
    BY <1>2, BlockRead DEF AllocateSpecificAccepts
  <1>4. row \in Allocation /\ row.tenant = m.tenant /\ row.block = m.block /\ row.cidr = m.cidr
    BY <1>1, NewAllocation
  <1>5. /\ same_ip_version(blocks[m.block].cidr, m.cidr)
        /\ range_contains(blocks[m.block].cidr, m.cidr)
        /\ no_overlap(LiveIn(m.tenant, m.block), m.cidr)
    BY <1>3 DEF AllocateSpecificAccepts
  <1>6. plan = insert(rows)
    BY DEF AllocateSpecificPlans
  <1> HIDE DEF row
  <1>7. /\ Fresh(rows, nextId.alloc)
        /\ DOMAIN rows = {nextId.alloc} /\ rows[nextId.alloc] = row
    BY FreshOne DEF TablesInv, TablesTyped
  <1> HIDE DEF rows
  <1>8. m.kind \in BlockKinds \ {"delete"}
    BY <1>1 DEF BlockKinds
  <1> QED
    BY <1>3, <1>4, <1>5, <1>6, <1>7, <1>8, InsertFits

\* update_allocation overwrites its row: back to a live status only where its
\* addresses are free.
LEMMA UpdateFits ==
    ASSUME TablesInv, NEW m \in UpdateRequest, UnitOk(m), NEW v, Current(m, v),
           UpdateAccepts(m, v), NEW at \in Nat, NEW plan \in UpdatePlans(m, v, at)
    PROVE  Fits(m, plan)
  <1> DEFINE row == [v.alloc EXCEPT !.status = IF m.status = NULL THEN @ ELSE m.status,
                                    !.releasedAt = IF m.status \in LIVE THEN NULL ELSE @]
             rows == Only(m.alloc, row)
  <1>1. m.kind = "update" /\ m.status \in Optional(Status)
    BY DEF UpdateRequest
  <1>2. v.alloc = Row(allocs, m.tenant, m.alloc) /\ v.live = LiveIn(m.tenant, m.block)
    BY <1>1 DEF Current, reads, StableView, read_one
  <1>3. m.alloc \in DOMAIN allocs /\ allocs[m.alloc].tenant = m.tenant
        /\ v.alloc = allocs[m.alloc] /\ allocs[m.alloc].block = m.block
    BY <1>1, <1>2, RowOf DEF UpdateAccepts, UnitOk, ResolvedKinds
  <1>4. v.alloc \in Allocation
    BY <1>3 DEF TablesInv, TablesTyped, IsTable
  <1>5. row \in Allocation /\ row.tenant = m.tenant /\ row.block = m.block
        /\ row.cidr = allocs[m.alloc].cidr
        /\ row.status = IF m.status = NULL THEN v.alloc.status ELSE m.status
    BY <1>1, <1>3, <1>4 DEF Allocation, Optional
  <1>6. row.status \in LIVE /\ allocs[m.alloc].status \notin LIVE
           => no_overlap(LiveIn(m.tenant, m.block), row.cidr)
    <2>1. v.alloc.status \notin LIVE => v.alloc.status = "released"
      BY <1>4 DEF Allocation, Status, LIVE
    <2> QED
      BY <1>2, <1>3, <1>5, <2>1 DEF UpdateAccepts
  <1>7. plan = replace(rows, "update")
    BY DEF UpdatePlans
  <1> HIDE DEF row
  <1>8. DOMAIN rows = {m.alloc} /\ rows[m.alloc] = row
    BY DEF Only
  <1> HIDE DEF rows
  <1>9. m.kind \in BlockKinds \ {"delete"}
    BY <1>1 DEF BlockKinds
  <1> QED
    BY <1>3, <1>5, <1>6, <1>7, <1>8, <1>9, ReplaceFits

\* release overwrites its row with a released one.
LEMMA ReleaseFits ==
    ASSUME TablesInv, NEW m \in ReleaseRequest, UnitOk(m), NEW v, Current(m, v),
           ReleaseAccepts(m, v), NEW at \in Nat, NEW plan \in ReleasePlans(m, v, at)
    PROVE  Fits(m, plan)
  <1> DEFINE row == released(v.alloc, at)
             rows == Only(m.alloc, row)
  <1>1. m.kind = "release"
    BY DEF ReleaseRequest
  <1>2. v.alloc = Row(allocs, m.tenant, m.alloc)
    BY <1>1 DEF Current, reads, StableView, read_one
  <1>3. m.alloc \in DOMAIN allocs /\ allocs[m.alloc].tenant = m.tenant
        /\ v.alloc = allocs[m.alloc] /\ allocs[m.alloc].block = m.block
    BY <1>1, <1>2, RowOf DEF ReleaseAccepts, UnitOk, ResolvedKinds
  <1>4. v.alloc \in Allocation
    BY <1>3 DEF TablesInv, TablesTyped, IsTable
  <1>5. row \in Allocation /\ row.tenant = m.tenant /\ row.block = m.block
        /\ row.cidr = allocs[m.alloc].cidr /\ row.status \notin LIVE
    BY <1>3, <1>4 DEF released, Allocation, Optional, Status, LIVE
  <1>6. plan = EmptyPlan \/ plan = replace(rows, "release")
    BY DEF ReleasePlans
  <1> HIDE DEF row
  <1>7. DOMAIN rows = {m.alloc} /\ rows[m.alloc] = row
    BY DEF Only
  <1> HIDE DEF rows
  <1>8. m.kind \in BlockKinds \ {"delete"}
    BY <1>1 DEF BlockKinds
  <1>9. Fits(m, replace(rows, "release"))
    BY <1>3, <1>5, <1>7, <1>8, ReplaceFits
  <1> QED
    BY <1>6, <1>9, EmptyFits

\* set_tags overwrites its row with other tags.
LEMMA TagsFits ==
    ASSUME TablesInv, NEW m \in TagsRequest, UnitOk(m), NEW v, Current(m, v),
           TagsAccepts(m, v), NEW at \in Nat, NEW plan \in TagsPlans(m, v, at)
    PROVE  Fits(m, plan)
  <1> DEFINE row == [v.alloc EXCEPT !.tags = m.tags]
             rows == Only(m.alloc, row)
  <1>1. m.kind = "tags" /\ m.tags \in TagSets
    BY DEF TagsRequest
  <1>2. v.alloc = Row(allocs, m.tenant, m.alloc)
    BY <1>1 DEF Current, reads, StableView, read_one
  <1>3. m.alloc \in DOMAIN allocs /\ allocs[m.alloc].tenant = m.tenant
        /\ v.alloc = allocs[m.alloc] /\ allocs[m.alloc].block = m.block
    BY <1>1, <1>2, RowOf DEF TagsAccepts, UnitOk, ResolvedKinds
  <1>4. v.alloc \in Allocation
    BY <1>3 DEF TablesInv, TablesTyped, IsTable
  <1>5. row \in Allocation /\ row.tenant = m.tenant /\ row.block = m.block
        /\ row.cidr = allocs[m.alloc].cidr /\ row.status = allocs[m.alloc].status
    BY <1>1, <1>3, <1>4 DEF Allocation
  <1>6. plan = EmptyPlan \/ plan = replace(rows, "set_tags")
    BY DEF TagsPlans
  <1> HIDE DEF row
  <1>7. DOMAIN rows = {m.alloc} /\ rows[m.alloc] = row
    BY DEF Only
  <1> HIDE DEF rows
  <1>8. m.kind \in BlockKinds \ {"delete"}
    BY <1>1 DEF BlockKinds
  <1>9. Fits(m, replace(rows, "set_tags"))
    BY <1>3, <1>5, <1>7, <1>8, ReplaceFits
  <1> QED
    BY <1>6, <1>9, EmptyFits

\* expire overwrites the live rows of the block whose lease is over.
LEMMA ExpireFits ==
    ASSUME TablesInv, NEW m \in ExpireRequest, NEW v, Current(m, v),
           NEW at \in Nat, NEW plan \in ExpirePlans(m, v, at)
    PROVE  Fits(m, plan)
  <1> DEFINE rows == [a \in Due(v.live, at) |-> released(v.live[a], at)]
  <1>1. m.kind = "expire"
    BY DEF ExpireRequest
  <1>2. v.live = LiveIn(m.tenant, m.block)
    BY <1>1 DEF Current, reads, StableView, read_one
  <1>3. ASSUME NEW a \in DOMAIN rows
        PROVE  /\ a \in DOMAIN allocs /\ rows[a] \in Allocation
               /\ allocs[a].tenant = m.tenant /\ allocs[a].block = m.block
               /\ rows[a].tenant = m.tenant /\ rows[a].block = m.block
               /\ rows[a].cidr = allocs[a].cidr /\ rows[a].status \notin LIVE
    <2>1. a \in DOMAIN LiveIn(m.tenant, m.block)
      BY <1>2, <1>3 DEF Due
    <2>2. /\ a \in DOMAIN allocs /\ v.live[a] = allocs[a]
          /\ allocs[a].tenant = m.tenant /\ allocs[a].block = m.block
      BY <1>2, <2>1 DEF LiveIn, Restrict
    <2>3. allocs[a] \in Allocation
      BY <2>2 DEF TablesInv, TablesTyped, IsTable
    <2>4. rows[a] = released(allocs[a], at)
      BY <1>3, <2>2
    <2> QED
      BY <2>2, <2>3, <2>4 DEF released, Allocation, Optional, Status, LIVE
  <1>4. plan = replace(rows, "expire")
    BY DEF ExpirePlans
  <1> HIDE DEF rows
  <1>5. m.kind \in BlockKinds \ {"delete"}
    BY <1>1 DEF BlockKinds
  <1> QED
    BY <1>3, <1>4, <1>5, ReplaceFits

-----------------------------------------------------------------------------
\* A multiple is a number times the divisor.
LEMMA MultipleOf ==
    ASSUME NEW a \in Nat, NEW size \in Nat \ {0}, a % size = 0
    PROVE  \E k \in Nat : a = size * k
  OBVIOUS

\* Different multiples of the size are a size apart.
LEMMA Apart ==
    ASSUME NEW a \in Nat, NEW b \in Nat, NEW size \in Nat \ {0},
           a % size = 0, b % size = 0, a < b
    PROVE  a + size <= b
  <1>1. PICK k \in Nat : a = size * k
    BY MultipleOf
  <1>2. PICK l \in Nat : b = size * l
    BY MultipleOf
  <1>3. size * k < size * l => size * k + size <= size * l
    OBVIOUS
  <1> QED
    BY <1>1, <1>2, <1>3

\* An address that find_free_blocks returns starts a block that is aligned,
\* inside the cidr block and clear of what is occupied.
LEMMA FreeStart ==
    ASSUME NEW block \in IpRange, NEW occupied, NEW size \in Nat \ {0},
           \A r \in occupied : r \in IpRange /\ range_contains(block, r),
           NEW count, NEW a \in find_free_blocks(block, occupied, size, count)
    PROVE  /\ a \in Nat /\ a % size = 0
           /\ block.start <= a /\ a + size - 1 <= block.end
           /\ \A r \in occupied : r.end < a \/ a + size - 1 < r.start
  <1>1. a \in FreeStarts(block, occupied, size)
    BY DEF find_free_blocks, Lowest
  <1>2. a % size = 0 /\ \A r \in occupied : r.end < a \/ a + size - 1 < r.start
    BY <1>1 DEF FreeStarts
  <1>3. block.start \in Nat /\ block.end \in Nat
    BY DEF IpRange
  <1>4. PICK e \in GapEnds(block, occupied) : a \in block.start .. e - size + 1
    BY <1>1 DEF FreeStarts
  <1>5. e \in Int /\ e <= block.end
    <2>1. CASE e = block.end
      BY <1>3, <2>1
    <2>2. ASSUME NEW r \in occupied, e = r.start - 1 PROVE e \in Int /\ e <= block.end
      <3>1. r.start \in Nat /\ r.end \in Nat /\ r.start <= r.end /\ r.end <= block.end
        BY DEF IpRange, range_contains
      <3> QED
        BY <1>3, <2>2, <3>1
    <2> QED
      BY <1>4, <2>1, <2>2 DEF GapEnds
  <1>6. a \in Nat /\ block.start <= a /\ a + size - 1 <= block.end
    BY <1>3, <1>4, <1>5
  <1> QED
    BY <1>2, <1>6

\* There are finitely many of them.
LEMMA FreeStartsFinite ==
    ASSUME NEW block \in IpRange, NEW occupied, NEW size \in Nat \ {0},
           \A r \in occupied : r \in IpRange /\ range_contains(block, r), NEW count
    PROVE  Cardinality(find_free_blocks(block, occupied, size, count)) \in Nat
  <1> DEFINE S == find_free_blocks(block, occupied, size, count)
  <1>1. block.start \in Nat /\ block.end \in Nat
    BY DEF IpRange
  <1>2. S \subseteq block.start .. block.end
    <2>1. ASSUME NEW a \in S PROVE a \in block.start .. block.end
      <3>1. a \in Nat /\ block.start <= a /\ a + size - 1 <= block.end
        BY FreeStart
      <3> QED
        BY <1>1, <3>1
    <2> QED
      BY <2>1
  <1>3. IsFiniteSet(block.start .. block.end)
    BY <1>1, FS_Interval
  <1> HIDE DEF S
  <1>4. IsFiniteSet(S)
    BY <1>2, <1>3, FS_Subset
  <1> QED
    BY <1>4, FS_CardinalityType DEF S

\* What is live in a block lies in it.
LEMMA LiveInside ==
    ASSUME TablesInv, NEW t, NEW b, b \in DOMAIN blocks, blocks[b].tenant = t
    PROVE  \A r \in Ranges(LiveIn(t, b)) : r \in IpRange /\ range_contains(blocks[b].cidr, r)
  <1> SUFFICES ASSUME NEW a \in DOMAIN LiveIn(t, b)
               PROVE  /\ LiveIn(t, b)[a].cidr \in IpRange
                      /\ range_contains(blocks[b].cidr, LiveIn(t, b)[a].cidr)
    BY DEF Ranges
  <1>1. a \in DOMAIN allocs /\ LiveIn(t, b)[a] = allocs[a] /\ allocs[a].block = b
    BY LiveOf
  <1>2. allocs[a] \in Allocation
    BY <1>1 DEF TablesInv, TablesTyped, IsTable
  <1>3. allocs[a].cidr \in IpRange
    BY <1>2 DEF Allocation
  <1>4. range_contains(blocks[b].cidr, allocs[a].cidr)
    BY <1>1 DEF TablesInv, InOwnBlock
  <1> QED
    BY <1>1, <1>3, <1>4

\* allocate_auto inserts rows at starts that are free and apart.
LEMMA AutoFits ==
    ASSUME TablesInv, NEW m \in AutoRequest, NEW v, Current(m, v),
           AllocateAutoAccepts(m, v), NEW at \in Nat,
           NEW plan \in AllocateAutoPlans(m, v, at)
    PROVE  Fits(m, plan)
  <1> DEFINE S == AutoStarts(m, v)
             ids == nextId.alloc .. nextId.alloc + Cardinality(S) - 1
             new(f, a) == new_allocation(m, Cidr(f[a], m.size, v.block.cidr.v4), at)
  <1>1. m.kind = "auto" /\ m.size \in Nat \ {0}
    BY DEF AutoRequest
  <1>2. {"block", "live"} \subseteq reads(m)
    BY <1>1 DEF reads
  <1>3. /\ m.block \in DOMAIN blocks /\ blocks[m.block].tenant = m.tenant
        /\ v.block = blocks[m.block] /\ v.live = LiveIn(m.tenant, m.block)
    BY <1>2, BlockRead DEF AllocateAutoAccepts
  <1>4. blocks[m.block].cidr \in IpRange
    BY <1>3 DEF TablesInv, TablesTyped, IsTable, CidrBlock
  <1>5. \A r \in Ranges(v.live) : r \in IpRange /\ range_contains(blocks[m.block].cidr, r)
    BY <1>3, LiveInside
  <1>6. S = find_free_blocks(blocks[m.block].cidr, Ranges(v.live), m.size, m.count)
    BY <1>3 DEF AutoStarts
  <1>7. ASSUME NEW a \in S
        PROVE  /\ a \in Nat /\ a % m.size = 0
               /\ blocks[m.block].cidr.start <= a /\ a + m.size - 1 <= blocks[m.block].cidr.end
               /\ \A r \in Ranges(v.live) : r.end < a \/ a + m.size - 1 < r.start
    BY <1>1, <1>4, <1>5, <1>6, FreeStart
  <1>8. Cardinality(S) \in Nat
    BY <1>1, <1>4, <1>5, <1>6, FreeStartsFinite
  <1>9. PICK f \in [ids -> S] :
           /\ \A a, b \in ids : a < b => f[a] < f[b]
           /\ plan = insert([a \in ids |-> new(f, a)])
    BY DEF AllocateAutoPlans
  <1>10. nextId.alloc \in Nat
    BY DEF TablesInv, TablesTyped
  <1> DEFINE rows == [a \in ids |-> new(f, a)]
  <1>11. Fresh(rows, nextId.alloc)
    BY <1>8, <1>10, FreshRun
  <1> HIDE DEF S
  <1>12. ASSUME NEW a \in ids
         PROVE  /\ f[a] \in S /\ rows[a] \in Allocation
                /\ rows[a].tenant = m.tenant /\ rows[a].block = m.block
                /\ rows[a].cidr.start = f[a] /\ rows[a].cidr.end = f[a] + m.size - 1
                /\ same_ip_version(blocks[m.block].cidr, rows[a].cidr)
    <2> DEFINE cidr == Cidr(f[a], m.size, v.block.cidr.v4)
    <2>1. f[a] \in S
      BY <1>9, <1>12
    <2>2. f[a] \in Nat /\ v.block.cidr.v4 \in BOOLEAN
      BY <1>3, <1>4, <1>7, <2>1 DEF IpRange
    <2>3. cidr \in IpRange /\ cidr.start = f[a] /\ cidr.end = f[a] + m.size - 1
          /\ cidr.v4 = v.block.cidr.v4
      BY <1>1, <2>2 DEF Cidr, IpRange
    <2> HIDE DEF cidr
    <2>4. new_allocation(m, cidr, at) \in Allocation
          /\ new_allocation(m, cidr, at).tenant = m.tenant
          /\ new_allocation(m, cidr, at).block = m.block
          /\ new_allocation(m, cidr, at).cidr = cidr
      BY <2>3, NewAllocation
    <2>5. rows[a] = new_allocation(m, cidr, at)
      BY <1>12 DEF cidr
    <2> HIDE DEF rows
    <2> QED
      BY <1>3, <2>1, <2>3, <2>4, <2>5 DEF same_ip_version
  <1>13. DOMAIN rows = ids
    OBVIOUS
  <1> HIDE DEF rows
  <1>14. \A a \in ids : range_contains(blocks[m.block].cidr, rows[a].cidr)
    BY <1>7, <1>12 DEF range_contains
  <1>15. \A a \in ids : no_overlap(LiveIn(m.tenant, m.block), rows[a].cidr)
    <2> SUFFICES ASSUME NEW a \in ids, NEW r \in Ranges(LiveIn(m.tenant, m.block))
                 PROVE  ~ ranges_overlap(rows[a].cidr, r)
      BY DEF no_overlap
    <2>1. r.end < f[a] \/ f[a] + m.size - 1 < r.start
      BY <1>3, <1>7, <1>12
    <2>2. r.start \in Nat /\ r.end \in Nat /\ f[a] \in Nat
      BY <1>3, <1>5, <1>7, <1>12 DEF IpRange
    <2> QED
      BY <1>1, <1>12, <2>1, <2>2 DEF ranges_overlap
  <1>16. ASSUME NEW a \in ids, NEW b \in ids, a # b
         PROVE  ~ ranges_overlap(rows[a].cidr, rows[b].cidr)
    <2>1. f[a] < f[b] \/ f[b] < f[a]
      <3>1. a \in Int /\ b \in Int
        BY <1>8, <1>10
      <3>2. a < b \/ b < a
        BY <1>16, <3>1
      <3> QED
        BY <1>9, <3>2
    <2>2. /\ f[a] \in Nat /\ f[a] % m.size = 0
          /\ f[b] \in Nat /\ f[b] % m.size = 0
      BY <1>7, <1>12
    <2>3. f[a] + m.size <= f[b] \/ f[b] + m.size <= f[a]
      BY <1>1, <2>1, <2>2, Apart
    <2> QED
      BY <1>1, <1>12, <2>2, <2>3 DEF ranges_overlap
  <1>17. m.kind \in BlockKinds \ {"delete"}
    BY <1>1 DEF BlockKinds
  <1>18. plan = insert(rows)
    BY <1>9 DEF rows
  <1> HIDE DEF ids
  <1> QED
    BY <1>3, <1>11, <1>12, <1>13, <1>14, <1>15, <1>16, <1>17, <1>18, InsertFits

-----------------------------------------------------------------------------
\* create_cidr_block inserts one block of the tenant.
LEMMA CreateFits ==
    ASSUME TablesInv, NEW m \in CreateRequest, NEW v, NEW at,
           NEW plan \in CreatePlans(m, v, at)
    PROVE  Fits(m, plan)
  <1> DEFINE row == [tenant |-> m.tenant, cidr |-> m.cidr]
             rows == Only(nextId.block, row)
  <1>1. m.kind \in TenantKinds
    BY DEF CreateRequest, TenantKinds
  <1>2. row \in CidrBlock /\ row.tenant = m.tenant
    BY DEF CreateRequest, CidrBlock
  <1>3. /\ plan.insertBlocks = rows
        /\ plan.insertAllocs = <<>> /\ plan.replaceAllocs = <<>> /\ plan.putPointers = <<>>
        /\ plan.deleteBlocks = {} /\ plan.deletePointers = {}
    BY DEF CreatePlans, EmptyPlan
  <1> HIDE DEF row
  <1>4. /\ Fresh(rows, nextId.block)
        /\ DOMAIN rows = {nextId.block} /\ rows[nextId.block] = row
    BY FreshOne DEF TablesInv, TablesTyped
  <1> HIDE DEF rows
  <1>5. BlocksFit(m, plan)
    BY <1>1, <1>2, <1>3, <1>4 DEF BlocksFit
  <1>6. DeletesFit(m, plan) /\ ReplacesFit(m, plan)
    BY <1>3, NoRows DEF DeletesFit, ReplacesFit
  <1>7. PointersFit(m, plan) /\ InsertsFit(m, plan)
    BY <1>3, NoRows, FreshNone DEF PointersFit, InsertsFit
  <1>8. Revived(plan) = {}
    BY <1>3, NoRows DEF Revived, With
  <1> QED
    BY <1>5, <1>6, <1>7, <1>8 DEF Fits, SpaceFits

\* delete_cidr_block deletes one block, and its allocations with it.
LEMMA DeleteFits ==
    ASSUME TablesInv, NEW m \in DeleteRequest, NEW v, Current(m, v),
           DeleteAccepts(m, v), NEW at, NEW plan \in DeletePlans(m, v, at)
    PROVE  Fits(m, plan)
  <1>1. m.kind = "delete"
    BY DEF DeleteRequest
  <1>2. {"block", "live"} \subseteq reads(m)
    BY <1>1 DEF reads
  <1>3. m.block \in DOMAIN blocks /\ blocks[m.block].tenant = m.tenant
    BY <1>2, BlockRead DEF DeleteAccepts
  <1>4. /\ plan.deleteBlocks = {m.block}
        /\ plan.insertBlocks = <<>> /\ plan.insertAllocs = <<>>
        /\ plan.replaceAllocs = <<>> /\ plan.putPointers = <<>> /\ plan.deletePointers = {}
    BY DEF DeletePlans, EmptyPlan
  <1>5. BlocksFit(m, plan) /\ ReplacesFit(m, plan)
    BY <1>4, NoRows, FreshNone DEF BlocksFit, ReplacesFit
  <1>6. DeletesFit(m, plan)
    BY <1>1, <1>3, <1>4 DEF DeletesFit
  <1>7. PointersFit(m, plan) /\ InsertsFit(m, plan)
    BY <1>4, NoRows, FreshNone DEF PointersFit, InsertsFit
  <1>8. Revived(plan) = {}
    BY <1>4, NoRows DEF Revived, With
  <1> QED
    BY <1>5, <1>6, <1>7, <1>8 DEF Fits, SpaceFits

\* A plan that only writes pointers.
LEMMA PointerPlanFits ==
    ASSUME NEW m, m.kind \in TenantKinds, NEW plan,
           /\ plan.insertBlocks = <<>> /\ plan.insertAllocs = <<>>
           /\ plan.replaceAllocs = <<>> /\ plan.deleteBlocks = {},
           Fresh([p \in DOMAIN plan.putPointers \ DOMAIN pointers |-> NULL], nextId.pointer),
           \A p \in DOMAIN plan.putPointers :
              /\ plan.putPointers[p] \in HostnamePointer
              /\ plan.putPointers[p].tenant = m.tenant
              /\ p \in DOMAIN pointers => pointers[p].tenant = m.tenant,
           \A p \in plan.deletePointers : p \in DOMAIN pointers => pointers[p].tenant = m.tenant
    PROVE  Fits(m, plan)
  <1>1. BlocksFit(m, plan) /\ ReplacesFit(m, plan) /\ DeletesFit(m, plan)
    BY NoRows, FreshNone DEF BlocksFit, ReplacesFit, DeletesFit
  <1>2. InsertsFit(m, plan)
    BY NoRows, FreshNone DEF InsertsFit
  <1>3. PointersFit(m, plan)
    BY DEF PointersFit
  <1>4. Revived(plan) = {}
    BY NoRows DEF Revived, With
  <1> QED
    BY <1>1, <1>2, <1>3, <1>4 DEF Fits, SpaceFits

\* set_hostname_pointer inserts the pointer of a pair, or overwrites it.
LEMMA SetPointerFits ==
    ASSUME TablesInv, NEW m \in SetPointerRequest, NEW v, Current(m, v), NEW at,
           NEW plan \in SetPointerPlans(m, v, at)
    PROVE  Fits(m, plan)
  <1> DEFINE row == [tenant |-> m.tenant, pair |-> m.pair, alloc |-> m.alloc]
  <1>1. m.kind = "pointer" /\ m.kind \in TenantKinds
    BY DEF SetPointerRequest, TenantKinds
  <1>2. v.pointer = PointersFor(m.tenant, m.pair)
    BY <1>1 DEF Current, reads, StableView, read_one
  <1>3. row \in HostnamePointer /\ row.tenant = m.tenant
    BY DEF SetPointerRequest, HostnamePointer
  <1>4. nextId.pointer \in Nat /\ nextId.pointer \notin DOMAIN pointers
    BY DEF TablesInv, TablesTyped, IsTable
  <1>5. PICK id : /\ id = nextId.pointer \/ id \in DOMAIN v.pointer
                  /\ plan.putPointers = Only(id, row)
                  /\ plan.insertBlocks = <<>> /\ plan.insertAllocs = <<>>
                  /\ plan.replaceAllocs = <<>> /\ plan.deleteBlocks = {}
                  /\ plan.deletePointers = {}
    BY DEF SetPointerPlans, EmptyPlan
  <1>6. id \in DOMAIN v.pointer => id \in DOMAIN pointers /\ pointers[id].tenant = m.tenant
    BY <1>2 DEF PointersFor, Restrict
  <1> HIDE DEF row
  <1>7. DOMAIN plan.putPointers = {id} /\ plan.putPointers[id] = row
    BY <1>5 DEF Only
  <1>8. Fresh([p \in DOMAIN plan.putPointers \ DOMAIN pointers |-> NULL], nextId.pointer)
    <2> DEFINE new == DOMAIN plan.putPointers \ DOMAIN pointers
               rows == [p \in new |-> NULL]
    <2>1. CASE id = nextId.pointer
      <3>1. new = {id}
        BY <1>4, <1>7, <2>1
      <3> HIDE DEF new
      <3>2. DOMAIN rows = nextId.pointer .. nextId.pointer + 1 - 1
        BY <1>4, <2>1, <3>1
      <3> HIDE DEF rows
      <3>3. Fresh(rows, nextId.pointer)
        BY <1>4, <3>2, FreshRun
      <3> QED
        BY <3>3 DEF rows, new
    <2>2. CASE id \in DOMAIN v.pointer
      <3>1. new = {}
        BY <1>6, <1>7, <2>2
      <3> HIDE DEF new
      <3>2. DOMAIN rows = {}
        BY <3>1
      <3> HIDE DEF rows
      <3>3. Fresh(rows, nextId.pointer)
        BY <3>2, FreshNone
      <3> QED
        BY <3>3 DEF rows, new
    <2> QED
      BY <1>5, <2>1, <2>2
  <1> QED
    BY <1>1, <1>3, <1>4, <1>5, <1>6, <1>7, <1>8, PointerPlanFits

\* delete_hostname_pointer deletes the pointer of a pair.
LEMMA DeletePointerFits ==
    ASSUME TablesInv, NEW m \in DeletePointerRequest, NEW v, Current(m, v), NEW at,
           NEW plan \in DeletePointerPlans(m, v, at)
    PROVE  Fits(m, plan)
  <1>1. m.kind = "unpoint" /\ m.kind \in TenantKinds
    BY DEF DeletePointerRequest, TenantKinds
  <1>2. v.pointer = PointersFor(m.tenant, m.pair)
    BY <1>1 DEF Current, reads, StableView, read_one
  <1>3. PICK id \in DOMAIN v.pointer :
        /\ plan.deletePointers = {id}
        /\ plan.putPointers = <<>> /\ plan.insertBlocks = <<>> /\ plan.insertAllocs = <<>>
        /\ plan.replaceAllocs = <<>> /\ plan.deleteBlocks = {}
    BY DEF DeletePointerPlans, EmptyPlan
  <1>4. \A p \in DOMAIN v.pointer : p \in DOMAIN pointers /\ pointers[p].tenant = m.tenant
    BY <1>2 DEF PointersFor, Restrict
  <1>5. DOMAIN plan.putPointers = {}
    BY <1>3, NoRows
  <1>6. Fresh([p \in DOMAIN plan.putPointers \ DOMAIN pointers |-> NULL], nextId.pointer)
    BY <1>5, FreshNone
  <1> QED
    BY <1>1, <1>3, <1>4, <1>5, <1>6, PointerPlanFits

-----------------------------------------------------------------------------
\* The position in a run of n ids.
LEMMA RunIndex ==
    ASSUME NEW n \in Nat, NEW next \in Nat
    PROVE  \A id \in next .. next + n - 1 : id - next + 1 \in 1 .. n
  OBVIOUS

\* The elements of a sequence.
LEMMA SeqElements ==
    ASSUME NEW S, NEW s \in Seq(S)
    PROVE  Len(s) \in Nat /\ DOMAIN s = 1 .. Len(s) /\ \A i \in 1 .. Len(s) : s[i] \in S
  OBVIOUS

\* load inserts the blocks of the dump and its allocations, in those blocks.
LEMMA LoadFits ==
    ASSUME TablesInv, NEW m \in LoadRequest, SoundDump(m.dump), NEW v,
           LoadAccepts(m, v), NEW at, NEW plan \in LoadPlans(m, v, at)
    PROVE  Fits(m, plan)
  <1> DEFINE cs == m.dump.cidr_blocks
             as == m.dump.allocations
             AllocationOfDump == [block : Nat, cidr : IpRange, status : Status, tags : TagSets]
             newBlocks == nextId.block .. nextId.block + Len(cs) - 1
             newAllocs == nextId.alloc .. nextId.alloc + Len(as) - 1
             ci(b) == b - nextId.block + 1
             ai(a) == a - nextId.alloc + 1
             blockRows == [b \in newBlocks |-> [tenant |-> m.tenant, cidr |-> cs[ci(b)]]]
             allocRows == [a \in newAllocs |->
                [tenant |-> m.tenant, block |-> nextId.block + as[ai(a)].block - 1,
                 cidr |-> as[ai(a)].cidr, status |-> as[ai(a)].status, parent |-> NULL,
                 tags |-> as[ai(a)].tags, releasedAt |-> NULL, expiresAt |-> NULL]]
  <1>1. m.kind = "load" /\ m.kind \in TenantKinds /\ m.tenant \in Tenants /\ m.dump \in IpamDump
    BY DEF LoadRequest, TenantKinds
  <1>2. cs \in Seq(IpRange) /\ as \in Seq(AllocationOfDump)
    BY <1>1 DEF IpamDump
  <1>3. Len(cs) \in Nat /\ DOMAIN cs = 1 .. Len(cs) /\ \A i \in 1 .. Len(cs) : cs[i] \in IpRange
    BY <1>2, SeqElements
  <1>4. /\ Len(as) \in Nat /\ DOMAIN as = 1 .. Len(as)
        /\ \A i \in 1 .. Len(as) : as[i] \in AllocationOfDump
    <2> HIDE DEF AllocationOfDump
    <2> QED
      BY <1>2, SeqElements
  <1>5. nextId.block \in Nat /\ nextId.alloc \in Nat
        /\ \A b \in DOMAIN blocks : b \in Nat /\ b < nextId.block
    BY DEF TablesInv, TablesTyped, IsTable
  <1>6. /\ plan.insertBlocks = blockRows /\ plan.insertAllocs = allocRows
        /\ plan.replaceAllocs = <<>> /\ plan.putPointers = <<>>
        /\ plan.deleteBlocks = {} /\ plan.deletePointers = {}
    BY DEF LoadPlans, EmptyPlan
  <1>7. /\ \A b \in newBlocks : ci(b) \in 1 .. Len(cs)
        /\ \A a \in newAllocs : ai(a) \in 1 .. Len(as)
    <2> HIDE DEF cs, as
    <2>1. Len(cs) \in Nat /\ Len(as) \in Nat
      BY <1>3, <1>4
    <2> QED
      BY <1>5, <2>1, RunIndex
  <1>8. /\ Fresh(blockRows, nextId.block) /\ Fresh(allocRows, nextId.alloc)
        /\ DOMAIN blockRows = newBlocks /\ DOMAIN allocRows = newAllocs
    <2>1. DOMAIN blockRows = newBlocks /\ DOMAIN allocRows = newAllocs
      OBVIOUS
    <2> HIDE DEF blockRows, allocRows
    <2> QED
      BY <1>3, <1>4, <1>5, <2>1, FreshRun
  <1>9. ASSUME NEW b \in newBlocks
        PROVE  /\ blockRows[b] \in CidrBlock /\ blockRows[b].tenant = m.tenant
               /\ blockRows[b].cidr = cs[ci(b)]
    <2>1. cs[ci(b)] \in IpRange
      BY <1>3, <1>7
    <2> HIDE DEF ci, cs
    <2> QED
      BY <1>1, <2>1 DEF CidrBlock
  <1>10. ASSUME NEW a \in newAllocs
         PROVE  LET i == ai(a) IN
                /\ i \in DOMAIN as /\ allocRows[a] \in Allocation
                /\ allocRows[a].tenant = m.tenant
                /\ allocRows[a].block = nextId.block + as[i].block - 1
                /\ allocRows[a].cidr = as[i].cidr
                /\ allocRows[a].status = as[i].status
                /\ as[i].block \in DOMAIN cs
                /\ allocRows[a].block \in newBlocks
                /\ ci(allocRows[a].block) = as[i].block
    <2>1. ai(a) \in DOMAIN as /\ as[ai(a)] \in AllocationOfDump
      BY <1>4, <1>7
    <2>2. as[ai(a)].block \in DOMAIN cs
      BY <2>1 DEF LoadAccepts
    <2> DEFINE old == as[ai(a)]
    <2>3. /\ old.block \in Nat /\ old.cidr \in IpRange /\ old.status \in Status
          /\ old.tags \in TagSets
      BY <2>1
    <2>4. old.block \in 1 .. Len(cs)
      BY <1>3, <2>2
    <2>5. allocRows[a] = [tenant |-> m.tenant, block |-> nextId.block + old.block - 1,
                 cidr |-> old.cidr, status |-> old.status, parent |-> NULL,
                 tags |-> old.tags, releasedAt |-> NULL, expiresAt |-> NULL]
      BY <1>10
    <2> HIDE DEF old, allocRows, cs
    <2>6. nextId.block + old.block - 1 \in Nat
      BY <1>5, <2>3, <2>4
    <2>7. allocRows[a] \in Allocation
      BY <1>1, <2>3, <2>5, <2>6 DEF Allocation, Optional
    <2>8. allocRows[a].block = nextId.block + old.block - 1
      BY <2>5
    <2>9. allocRows[a].block \in newBlocks /\ ci(allocRows[a].block) = old.block
      BY <1>3, <1>5, <2>3, <2>4, <2>8
    <2>10. /\ allocRows[a].tenant = m.tenant /\ allocRows[a].cidr = old.cidr
           /\ allocRows[a].status = old.status
      BY <2>5
    <2> QED
      BY <2>1, <2>2, <2>7, <2>8, <2>9, <2>10 DEF old
  <1> HIDE DEF blockRows, allocRows
  <1>11. BlocksFit(m, plan)
    BY <1>1, <1>6, <1>8, <1>9 DEF BlocksFit
  <1>12. DeletesFit(m, plan) /\ ReplacesFit(m, plan)
    BY <1>6, NoRows DEF DeletesFit, ReplacesFit
  <1>13. PointersFit(m, plan)
    BY <1>6, NoRows, FreshNone DEF PointersFit
  <1>14. ASSUME NEW a \in newAllocs
         PROVE  /\ With(plan.insertBlocks, blocks)[allocRows[a].block].tenant = m.tenant
                /\ same_ip_version(With(plan.insertBlocks, blocks)[allocRows[a].block].cidr,
                                   allocRows[a].cidr)
                /\ range_contains(With(plan.insertBlocks, blocks)[allocRows[a].block].cidr,
                                  allocRows[a].cidr)
    <2> DEFINE i == ai(a)
               b == allocRows[a].block
    <2>1. i \in DOMAIN as /\ as[i].block \in DOMAIN cs /\ b \in newBlocks
          /\ ci(b) = as[i].block /\ allocRows[a].cidr = as[i].cidr
      BY <1>10
    <2>2. same_ip_version(cs[as[i].block], as[i].cidr) /\ range_contains(cs[as[i].block], as[i].cidr)
      BY <2>1 DEF SoundDump
    <2>3. blockRows[b].tenant = m.tenant /\ blockRows[b].cidr = cs[ci(b)]
      BY <1>9, <2>1
    <2>4. With(plan.insertBlocks, blocks)[b] = blockRows[b]
      BY <1>6, <1>8, <2>1 DEF With
    <2> HIDE DEF i, b, ci, cs, as
    <2> QED
      BY <2>1, <2>2, <2>3, <2>4 DEF b
  <1>15. InsertsFit(m, plan)
    BY <1>6, <1>8, <1>10, <1>14 DEF InsertsFit
  <1>16. SpaceFits(plan)
    <2> DEFINE rows == With(plan.insertAllocs, plan.replaceAllocs)
    <2>1. DOMAIN rows = newAllocs /\ \A a \in newAllocs : rows[a] = allocRows[a]
      BY <1>6, <1>8, NoRows DEF With
    <2>2. \A a \in Revived(plan) : a \in newAllocs /\ allocRows[a].status \in LIVE
      BY <2>1 DEF Revived
    <2>3. ASSUME NEW a \in newAllocs, NEW b \in DOMAIN allocs
          PROVE  allocs[b].block # allocRows[a].block
      <3>1. allocs[b].block \in DOMAIN blocks
        BY DEF TablesInv, InOwnBlock
      <3>2. allocRows[a].block \in newBlocks
        BY <1>10
      <3> QED
        BY <1>5, <3>1, <3>2
    <2>4. ASSUME NEW a \in newAllocs, NEW b \in newAllocs, a # b,
                 allocRows[a].status \in LIVE, allocRows[b].status \in LIVE,
                 allocRows[a].block = allocRows[b].block
          PROVE  ~ ranges_overlap(allocRows[a].cidr, allocRows[b].cidr)
      <3>1. ai(a) # ai(b)
        BY <1>4, <1>5, <2>4
      <3>2. /\ ai(a) \in DOMAIN as /\ ai(b) \in DOMAIN as
            /\ as[ai(a)].block = as[ai(b)].block
            /\ as[ai(a)].status \in LIVE /\ as[ai(b)].status \in LIVE
            /\ allocRows[a].cidr = as[ai(a)].cidr /\ allocRows[b].cidr = as[ai(b)].cidr
        BY <1>10, <2>4
      <3> HIDE DEF ai
      <3> QED
        BY <3>1, <3>2 DEF SoundDump
    <2> HIDE DEF newAllocs, rows
    <2> QED
      BY <2>1, <2>2, <2>3, <2>4 DEF SpaceFits, rows
  <1> QED
    BY <1>11, <1>12, <1>13, <1>15, <1>16 DEF Fits

-----------------------------------------------------------------------------
\* Every plan of every Mutation, decided on a current view, is fit.
LEMMA PlansFit ==
    ASSUME TablesInv, NEW m, UnitOk(m), NEW v, Current(m, v), Accepts(m, v),
           NEW at \in Nat, NEW plan \in Plans(m, v, at)
    PROVE  Fits(m, plan)
  <1>1. m \in Mutation
    BY DEF UnitOk
  <1>2. CASE m \in SpecificRequest
    BY <1>2, SpecificFits DEF SpecificRequest, Accepts, Plans
  <1>3. CASE m \in AutoRequest
    BY <1>3, AutoFits DEF AutoRequest, Accepts, Plans
  <1>4. CASE m \in UpdateRequest
    BY <1>4, UpdateFits DEF UpdateRequest, Accepts, Plans
  <1>5. CASE m \in ReleaseRequest
    BY <1>5, ReleaseFits DEF ReleaseRequest, Accepts, Plans
  <1>6. CASE m \in TagsRequest
    BY <1>6, TagsFits DEF TagsRequest, Accepts, Plans
  <1>7. CASE m \in ExpireRequest
    BY <1>7, ExpireFits DEF ExpireRequest, Accepts, Plans
  <1>8. CASE m \in CreateRequest
    BY <1>8, CreateFits DEF CreateRequest, Accepts, Plans
  <1>9. CASE m \in DeleteRequest
    BY <1>9, DeleteFits DEF DeleteRequest, Accepts, Plans
  <1>10. CASE m \in LoadRequest
    <2>1. m.kind = "load"
      BY <1>10 DEF LoadRequest
    <2>2. SoundDump(m.dump)
      BY <2>1 DEF UnitOk
    <2>3. LoadAccepts(m, v) /\ plan \in LoadPlans(m, v, at)
      BY <2>1 DEF Accepts, Plans
    <2> QED
      BY <1>10, <2>2, <2>3, LoadFits
  <1>11. CASE m \in SetPointerRequest
    BY <1>11, SetPointerFits DEF SetPointerRequest, Accepts, Plans
  <1>12. CASE m \in DeletePointerRequest
    BY <1>12, DeletePointerFits DEF DeletePointerRequest, Accepts, Plans
  <1> QED
    BY <1>1, <1>2, <1>3, <1>4, <1>5, <1>6, <1>7, <1>8, <1>9, <1>10, <1>11, <1>12 DEF Mutation

-----------------------------------------------------------------------------
(* The callers.                                                              *)

\* Type correctness of the callers.
CallersTyped ==
    /\ clock \in Nat
    /\ pc \in [Procs -> {"idle", "resolving", "queued", "connected", "locked"}]
    /\ unit \in [Procs -> Optional(Mutation)]
    /\ start \in [Procs -> 0 .. clock]
    /\ DOMAIN view = Procs
    /\ \A p \in Procs : pc[p] = "idle" <=> unit[p] = NULL
    /\ \A p \in Procs : pc[p] # "locked" => view[p] = <<>>
    /\ \A p \in Locked : DOMAIN view[p] \subseteq reads(unit[p])

\* What a caller is sure of, by where it is.
Sure(p) ==
    /\ pc[p] = "resolving" =>
          unit[p].kind \in ResolvedKinds /\ unit[p].alloc \in Nat /\ unit[p].alloc < nextId.alloc
    /\ pc[p] \in {"queued", "connected", "locked"} => UnitOk(unit[p])
    /\ pc[p] = "locked" => StableView(unit[p], view[p])

\* A scope has one holder.
ScopesHeld == \A p, q \in Locked : p # q => scope(unit[p]) # scope(unit[q])

\* The inductive invariant.
IInv ==
    /\ TablesInv /\ CallersTyped /\ ScopesHeld
    /\ \A p \in Procs : Sure(p)

-----------------------------------------------------------------------------
\* The fields that the invariant speaks of have their types in a Mutation.
LEMMA MutationFields ==
    ASSUME NEW m \in Mutation
    PROVE  /\ m.tenant \in Tenants
           /\ m.kind \in BlockKinds \ ResolvedKinds => m.block \in Nat
           /\ m.kind \in ResolvedKinds => m.alloc \in Nat
           /\ m.kind \in ResolvedKinds => \A b \in Nat : [m EXCEPT !.block = b] \in Mutation
           /\ m # NULL
  <1>1. m # NULL
    BY RequestsAssumption
  <1>2. CASE m \in SpecificRequest
    BY <1>1, <1>2 DEF SpecificRequest, ResolvedKinds
  <1>3. CASE m \in AutoRequest
    BY <1>1, <1>3 DEF AutoRequest, ResolvedKinds
  <1>4. CASE m \in UpdateRequest
    BY <1>1, <1>4 DEF UpdateRequest, ResolvedKinds, Mutation, Optional
  <1>5. CASE m \in ReleaseRequest
    BY <1>1, <1>5 DEF ReleaseRequest, ResolvedKinds, Mutation, Optional
  <1>6. CASE m \in TagsRequest
    BY <1>1, <1>6 DEF TagsRequest, ResolvedKinds, Mutation, Optional
  <1>7. CASE m \in ExpireRequest
    BY <1>1, <1>7 DEF ExpireRequest, ResolvedKinds
  <1>8. CASE m \in CreateRequest
    BY <1>1, <1>8 DEF CreateRequest, ResolvedKinds, BlockKinds
  <1>9. CASE m \in DeleteRequest
    BY <1>1, <1>9 DEF DeleteRequest, ResolvedKinds
  <1>10. CASE m \in LoadRequest
    BY <1>1, <1>10 DEF LoadRequest, ResolvedKinds, BlockKinds
  <1>11. CASE m \in SetPointerRequest
    BY <1>1, <1>11 DEF SetPointerRequest, ResolvedKinds, BlockKinds
  <1>12. CASE m \in DeletePointerRequest
    BY <1>1, <1>12 DEF DeletePointerRequest, ResolvedKinds, BlockKinds
  <1> QED
    BY <1>2, <1>3, <1>4, <1>5, <1>6, <1>7, <1>8, <1>9, <1>10, <1>11, <1>12 DEF Mutation

\* The tables but for the idempotency records are as they were, and of those
\* none is new.
Quiet ==
    /\ UNCHANGED <<blocks, allocs, pointers, nextId>>
    /\ \A k \in DOMAIN idem' : k \in DOMAIN idem /\ idem'[k] = idem[k]

\* A quiet step keeps what holds of the tables.
LEMMA QuietTables ==
    ASSUME TablesInv, Quiet
    PROVE  TablesInv'
  BY DEF Quiet, TablesInv, TablesTyped, IsTable, InOwnBlock, NoLiveOverlap

\* A quiet step keeps what is settled of a unit.
LEMMA QuietUnit ==
    ASSUME Quiet, NEW m, UnitOk(m)
    PROVE  UnitOk(m)'
  BY DEF Quiet, UnitOk

\* A quiet step keeps a view current.
LEMMA QuietView ==
    ASSUME Quiet, NEW m, NEW v, StableView(m, v)
    PROVE  StableView(m, v)'
  <1>1. /\ BlocksOf(m.tenant)' = BlocksOf(m.tenant)
        /\ LiveIn(m.tenant, m.block)' = LiveIn(m.tenant, m.block)
        /\ PointersFor(m.tenant, m.pair)' = PointersFor(m.tenant, m.pair)
        /\ blocks' = blocks /\ allocs' = allocs
    BY DEF Quiet, BlocksOf, LiveIn, PointersFor
  <1>2. read_one(m, "idem") = NULL => read_one(m, "idem")' = NULL
    BY DEF Quiet, read_one, IdemRecord
  <1>3. \A part : part # "idem" => read_one(m, part)' = read_one(m, part)
    BY <1>1 DEF read_one
  <1> QED
    BY <1>1, <1>2, <1>3 DEF StableView

\* A caller that is untouched by a step stays sure, when the tables are.
LEMMA QuietSure ==
    ASSUME Quiet, NEW q \in Procs, Sure(q),
           pc'[q] = pc[q], unit'[q] = unit[q], view'[q] = view[q]
    PROVE  Sure(q)'
  <1>1. pc'[q] = "resolving" =>
           unit'[q].kind \in ResolvedKinds /\ unit'[q].alloc \in Nat
           /\ unit'[q].alloc < nextId'.alloc
    BY DEF Sure, Quiet
  <1>2. ASSUME pc'[q] \in {"queued", "connected", "locked"} PROVE UnitOk(unit[q])'
    <2>1. UnitOk(unit[q])
      BY <1>2 DEF Sure
    <2> QED
      BY <2>1 DEF UnitOk, Quiet
  <1>3. ASSUME pc'[q] = "locked" PROVE StableView(unit[q], view[q])'
    <2>1. StableView(unit[q], view[q])
      BY <1>3 DEF Sure
    <2>2. \A m, v : StableView(m, v) => StableView(m, v)'
      BY QuietView
    <2> QED
      BY <2>1, <2>2
  <1> QED
    BY <1>1, <1>2, <1>3 DEF Sure

-----------------------------------------------------------------------------
\* The invariant holds initially.
LEMMA InitIInv == Init => IInv
  <1> SUFFICES ASSUME Init PROVE IInv
    OBVIOUS
  <1>1. TablesInv
    BY NoRows DEF Init, TablesInit, TablesInv, TablesTyped, IsTable, InOwnBlock, NoLiveOverlap
  <1>2. CallersTyped /\ ScopesHeld
    BY DEF Init, CallersTyped, ScopesHeld, Locked, Optional
  <1>3. \A p \in Procs : Sure(p)
    BY DEF Init, Sure
  <1> QED
    BY <1>1, <1>2, <1>3 DEF IInv

\* The other callers, when one ends its unit.
LEMMA FinishCallers ==
    ASSUME CallersTyped, ScopesHeld, NEW p \in Procs, Finish(p)
    PROVE  CallersTyped' /\ ScopesHeld'
  <1>1. /\ clock \in Nat /\ clock' = clock
        /\ pc' = [pc EXCEPT ![p] = "idle"] /\ unit' = [unit EXCEPT ![p] = NULL]
        /\ start' = [start EXCEPT ![p] = 0] /\ view' = [view EXCEPT ![p] = <<>>]
    BY DEF Finish, CallersTyped
  <1>2. /\ pc' \in [Procs -> {"idle", "resolving", "queued", "connected", "locked"}]
        /\ unit' \in [Procs -> Optional(Mutation)]
        /\ start' \in [Procs -> 0 .. clock']
        /\ DOMAIN view' = Procs
    BY <1>1 DEF CallersTyped, Optional
  <1>3. /\ pc'[p] = "idle" /\ unit'[p] = NULL /\ view'[p] = <<>>
        /\ \A q \in Procs \ {p} : pc'[q] = pc[q] /\ unit'[q] = unit[q] /\ view'[q] = view[q]
    BY <1>1 DEF CallersTyped
  <1>4. \A q \in Procs : pc'[q] = "idle" <=> unit'[q] = NULL
    BY <1>3 DEF CallersTyped
  <1>5. \A q \in Procs : pc'[q] # "locked" => view'[q] = <<>>
    BY <1>3 DEF CallersTyped
  <1>6. \A q \in Locked' : q \in Locked /\ q # p
    BY <1>3 DEF Locked
  <1>7. \A q \in Locked' : DOMAIN view'[q] \subseteq reads(unit'[q])
    BY <1>3, <1>6 DEF CallersTyped, Locked
  <1>8. ScopesHeld'
    BY <1>3, <1>6 DEF ScopesHeld, Locked
  <1> QED
    BY <1>1, <1>2, <1>4, <1>5, <1>7, <1>8 DEF CallersTyped

\* A unit that ends without a commit.
LEMMA FinishIInv ==
    ASSUME IInv, NEW p \in Procs, Finish(p), Quiet
    PROVE  IInv'
  <1>1. CallersTyped /\ ScopesHeld /\ TablesInv
    BY DEF IInv
  <1>2. CallersTyped' /\ ScopesHeld'
    BY <1>1, FinishCallers
  <1>3. TablesInv'
    BY <1>1, QuietTables
  <1>4. ASSUME NEW q \in Procs PROVE Sure(q)'
    <2>1. CASE q = p
      BY <1>1, <2>1 DEF Sure, Finish, CallersTyped
    <2>2. CASE q # p
      <3>1. pc'[q] = pc[q] /\ unit'[q] = unit[q] /\ view'[q] = view[q]
        BY <1>1, <2>2 DEF Finish, CallersTyped
      <3>2. Sure(q)
        BY DEF IInv
      <3> QED
        BY <3>1, <3>2, QuietSure
    <2> QED
      BY <2>1, <2>2
  <1> QED
    BY <1>2, <1>3, <1>4 DEF IInv

\* A step of one caller that leaves the tables and the clock alone and takes
\* no scope.
LEMMA CallerIInv ==
    ASSUME IInv, NEW p \in Procs, Quiet, UNCHANGED clock,
           NEW label \in {"resolving", "queued", "connected"},
           NEW m \in Mutation, NEW at \in 0 .. clock,
           pc[p] # "locked",
           /\ pc' = [pc EXCEPT ![p] = label] /\ unit' = [unit EXCEPT ![p] = m]
           /\ start' = [start EXCEPT ![p] = at] /\ UNCHANGED view,
           label = "resolving" => m.kind \in ResolvedKinds /\ m.alloc < nextId.alloc,
           label # "resolving" => UnitOk(m)
    PROVE  IInv'
  <1>1. CallersTyped /\ ScopesHeld /\ TablesInv
    BY DEF IInv
  <1>2. /\ pc'[p] = label /\ unit'[p] = m
        /\ \A q \in Procs \ {p} : pc'[q] = pc[q] /\ unit'[q] = unit[q] /\ view'[q] = view[q]
        /\ view'[p] = <<>>
    BY <1>1 DEF CallersTyped
  <1>3. \A q \in Locked' : q \in Locked /\ q # p
    BY <1>2 DEF Locked
  <1>4. m # NULL
    BY RequestsAssumption
  <1>5. /\ clock' \in Nat /\ DOMAIN view' = Procs
        /\ pc' \in [Procs -> {"idle", "resolving", "queued", "connected", "locked"}]
        /\ unit' \in [Procs -> Optional(Mutation)]
        /\ start' \in [Procs -> 0 .. clock']
    BY <1>1 DEF CallersTyped, Optional
  <1>6. \A q \in Procs : pc'[q] = "idle" <=> unit'[q] = NULL
    BY <1>1, <1>2, <1>4 DEF CallersTyped
  <1>7. \A q \in Procs : pc'[q] # "locked" => view'[q] = <<>>
    BY <1>1, <1>2 DEF CallersTyped
  <1>8. \A q \in Locked' : DOMAIN view'[q] \subseteq reads(unit'[q])
    BY <1>1, <1>2, <1>3 DEF CallersTyped, Locked
  <1>9. CallersTyped'
    BY <1>5, <1>6, <1>7, <1>8 DEF CallersTyped
  <1>10. ScopesHeld'
    BY <1>1, <1>2, <1>3 DEF ScopesHeld, Locked
  <1>11. TablesInv'
    BY <1>1, QuietTables
  <1>12. Sure(p)'
    <2>1. label = "resolving" => m.alloc \in Nat /\ m.alloc < nextId'.alloc
      BY MutationFields DEF Quiet
    <2>2. label # "resolving" => UnitOk(m)'
      BY QuietUnit
    <2>3. label # "resolving" => UnitOk(unit[p])'
      BY <1>2, <2>2 DEF UnitOk
    <2> QED
      BY <1>2, <2>1, <2>3 DEF Sure
  <1>13. ASSUME NEW q \in Procs, q # p PROVE Sure(q)'
    <2>1. Sure(q)
      BY DEF IInv
    <2> QED
      BY <1>2, <1>13, <2>1, QuietSure
  <1> QED
    BY <1>9, <1>10, <1>11, <1>12, <1>13 DEF IInv

-----------------------------------------------------------------------------
\* The steps before the scope is taken.
LEMMA SubmitIInv ==
    ASSUME IInv, NEW p \in Procs, NEW r \in Requests, Submit(p, r)
    PROVE  IInv'
  <1> DEFINE label == IF r.kind \in ResolvedKinds THEN "resolving" ELSE "queued"
  <1>1. r \in Mutation
    BY RequestsAssumption
  <1>2. Quiet /\ clock' = clock
    BY DEF Submit, Quiet, tables
  <1>3. clock \in 0 .. clock
    BY DEF IInv, CallersTyped
  <1>4. r.kind \in ResolvedKinds => r.alloc < nextId.alloc
    BY DEF Submit, Issued
  <1>5. ASSUME r.kind \notin ResolvedKinds PROVE UnitOk(r)
    <2>1. r.kind \in BlockKinds => r.block \in Nat /\ r.block < nextId.block
      BY <1>1, <1>5, MutationFields DEF Submit, Issued
    <2>2. r.kind = "load" => SoundDump(r.dump)
      BY DumpsAssumption
    <2> QED
      BY <1>1, <1>5, <2>1, <2>2 DEF UnitOk
  <1>6. /\ pc[p] # "locked" /\ label \in {"resolving", "queued", "connected"}
        /\ label = "resolving" <=> r.kind \in ResolvedKinds
    BY DEF Submit
  <1>7. /\ pc' = [pc EXCEPT ![p] = label] /\ unit' = [unit EXCEPT ![p] = r]
        /\ start' = [start EXCEPT ![p] = clock] /\ UNCHANGED view
    BY DEF Submit
  <1> HIDE DEF label
  <1> QED
    BY <1>1, <1>2, <1>3, <1>4, <1>5, <1>6, <1>7, CallerIInv

\* get_allocation, before the unit, names the block the unit will lock.
LEMMA ResolveIInv ==
    ASSUME IInv, NEW p \in Procs, Resolve(p)
    PROVE  IInv'
  <1>1. Quiet /\ clock' = clock
    BY DEF Resolve, Quiet, tables
  <1>2. pc[p] = "resolving" /\ pc[p] # "locked"
    BY DEF Resolve
  <1>3. /\ unit[p].kind \in ResolvedKinds /\ unit[p].alloc \in Nat
        /\ unit[p].alloc < nextId.alloc
    BY <1>2 DEF IInv, Sure
  <1>4. unit[p] \in Mutation
    BY <1>2 DEF IInv, CallersTyped, Optional
  <1>5. PICK a \in DOMAIN allocs :
           /\ a = unit[p].alloc /\ allocs[a].tenant = unit[p].tenant
           /\ unit' = [unit EXCEPT ![p] = [unit[p] EXCEPT !.block = allocs[a].block]]
    BY <1>3 DEF Resolve, Resolutions
  <1> DEFINE b == allocs[a].block
             m == [unit[p] EXCEPT !.block = b]
  <1>6. b \in Nat /\ b < nextId.block
    BY <1>5 DEF IInv, TablesInv, TablesTyped, IsTable, InOwnBlock
  <1>7. m \in Mutation
    BY <1>3, <1>4, <1>6, MutationFields
  <1>8. m.kind = unit[p].kind /\ m.alloc = unit[p].alloc /\ m.tenant = unit[p].tenant /\ m.block = b
    <2>1. unit[p] \in UpdateRequest \cup ReleaseRequest \cup TagsRequest
      BY <1>3, <1>4 DEF Mutation, ResolvedKinds, SpecificRequest, AutoRequest, ExpireRequest,
                        CreateRequest, DeleteRequest, LoadRequest, SetPointerRequest,
                        DeletePointerRequest
    <2> HIDE DEF b
    <2>2. CASE unit[p] \in UpdateRequest
      BY <2>2 DEF UpdateRequest
    <2>3. CASE unit[p] \in ReleaseRequest
      BY <2>3 DEF ReleaseRequest
    <2>4. CASE unit[p] \in TagsRequest
      BY <2>4 DEF TagsRequest
    <2> QED
      BY <2>1, <2>2, <2>3, <2>4
  <1> HIDE DEF m
  <1>9. UnitOk(m)
    BY <1>3, <1>5, <1>6, <1>7, <1>8 DEF UnitOk, ResolvedKinds
  <1>10. clock \in 0 .. clock
    BY DEF IInv, CallersTyped
  <1>11. /\ pc' = [pc EXCEPT ![p] = "queued"] /\ unit' = [unit EXCEPT ![p] = m]
         /\ start' = [start EXCEPT ![p] = clock] /\ UNCHANGED view
    BY <1>5 DEF Resolve, m
  <1> QED
    BY <1>1, <1>2, <1>7, <1>9, <1>10, <1>11, CallerIInv

\* A pooled connection changes no caller's request.
LEMMA ConnectIInv ==
    ASSUME IInv, NEW p \in Procs, Connect(p)
    PROVE  IInv'
  <1>1. Quiet /\ clock' = clock
    BY DEF Connect, Quiet, tables
  <1>2. pc[p] = "queued" /\ pc[p] # "locked"
    BY DEF Connect
  <1>3. unit[p] \in Mutation /\ start[p] \in 0 .. clock
    BY <1>2 DEF IInv, CallersTyped, Optional
  <1>4. UnitOk(unit[p])
    BY <1>2 DEF IInv, Sure
  <1>5. unit' = [unit EXCEPT ![p] = unit[p]] /\ start' = [start EXCEPT ![p] = start[p]]
    BY DEF Connect, IInv, CallersTyped
  <1>6. pc' = [pc EXCEPT ![p] = "connected"] /\ UNCHANGED view
    BY DEF Connect
  <1> QED
    BY <1>1, <1>2, <1>3, <1>4, <1>5, <1>6, CallerIInv

\* Every way for a unit to end without a commit.
LEMMA EndIInv ==
    ASSUME IInv, NEW p \in Procs,
           \/ ResolveFails(p) \/ Busy(p) \/ Replay(p) \/ Reject(p)
           \/ ConstraintFails(p) \/ Drop(p)
    PROVE  IInv'
  <1>1. Finish(p) /\ UNCHANGED tables
    BY DEF ResolveFails, Busy, Replay, Reject, ConstraintFails, Drop
  <1>2. Quiet
    BY <1>1 DEF Quiet, tables
  <1> QED
    BY <1>1, <1>2, FinishIInv

-----------------------------------------------------------------------------
\* A scope is taken only when no other holder has it.
LEMMA AcquireIInv ==
    ASSUME IInv, NEW p \in Procs, AcquireScope(p)
    PROVE  IInv'
  <1>1. CallersTyped /\ ScopesHeld /\ TablesInv
    BY DEF IInv
  <1>2. Quiet /\ clock' = clock
    BY DEF AcquireScope, Quiet, tables
  <1>3. /\ pc[p] = "connected" /\ unit' = unit /\ view' = view /\ start' = start
        /\ pc' = [pc EXCEPT ![p] = "locked"]
    BY DEF AcquireScope
  <1>4. pc'[p] = "locked" /\ \A q \in Procs \ {p} : pc'[q] = pc[q]
    BY <1>1, <1>3 DEF CallersTyped
  <1>5. view[p] = <<>>
    BY <1>1, <1>3 DEF CallersTyped
  <1>6. CallersTyped'
    <2>1. /\ clock' \in Nat /\ DOMAIN view' = Procs
          /\ pc' \in [Procs -> {"idle", "resolving", "queued", "connected", "locked"}]
          /\ unit' \in [Procs -> Optional(Mutation)]
          /\ start' \in [Procs -> 0 .. clock']
      BY <1>1, <1>2, <1>3 DEF CallersTyped
    <2>2. \A q \in Procs : pc'[q] = "idle" <=> unit'[q] = NULL
      BY <1>1, <1>3, <1>4 DEF CallersTyped
    <2>3. \A q \in Procs : pc'[q] # "locked" => view'[q] = <<>>
      BY <1>1, <1>3, <1>4 DEF CallersTyped
    <2>4. \A q \in Locked' : DOMAIN view'[q] \subseteq reads(unit'[q])
      BY <1>1, <1>3, <1>4, <1>5, NoRows DEF CallersTyped, Locked
    <2> QED
      BY <2>1, <2>2, <2>3, <2>4 DEF CallersTyped
  <1>7. ScopesHeld'
    <2>1. \A q \in Locked : LockKey(scope(unit[q])) # LockKey(scope(unit[p]))
      BY DEF AcquireScope
    <2>2. ASSUME NEW q \in Locked PROVE scope(unit[q]) # scope(unit[p])
      <3> SUFFICES ASSUME scope(unit[q]) = scope(unit[p]) PROVE FALSE
        OBVIOUS
      <3>1. LockKey(scope(unit[q])) = LockKey(scope(unit[p]))
        OBVIOUS
      <3> QED
        BY <2>1, <3>1
    <2>3. \A q \in Locked' : q = p \/ q \in Locked
      BY <1>4 DEF Locked
    <2> QED
      BY <1>1, <1>3, <2>2, <2>3 DEF ScopesHeld
  <1>8. TablesInv'
    BY <1>1, <1>2, QuietTables
  <1>9. Sure(p)'
    <2>1. UnitOk(unit[p])
      BY <1>3 DEF IInv, Sure
    <2>2. UnitOk(unit[p])'
      BY <1>2, <1>3, <2>1 DEF UnitOk, Quiet
    <2>3. StableView(unit[p], view[p])'
      BY <1>3, <1>5, NoRows DEF StableView
    <2> QED
      BY <1>4, <2>2, <2>3 DEF Sure
  <1>10. ASSUME NEW q \in Procs, q # p PROVE Sure(q)'
    <2>1. Sure(q)
      BY DEF IInv
    <2> QED
      BY <1>2, <1>3, <1>4, <1>10, <2>1, QuietSure
  <1> QED
    BY <1>6, <1>7, <1>8, <1>9, <1>10 DEF IInv

\* A view grows by what the tables hold.
LEMMA ViewGrows ==
    ASSUME NEW m, NEW v, StableView(m, v), NEW part, part \notin DOMAIN v
    PROVE  StableView(m, With(Only(part, read_one(m, part)), v))
  <1> DEFINE w == With(Only(part, read_one(m, part)), v)
  <1>1. /\ DOMAIN w = {part} \cup DOMAIN v /\ w[part] = read_one(m, part)
        /\ \A other \in DOMAIN v : w[other] = v[other]
    BY DEF With, Only
  <1>2. read_one(m, "blocks") = BlocksOf(m.tenant)
    BY DEF read_one
  <1>3. \A b \in DOMAIN BlocksOf(m.tenant) : BlocksOf(m.tenant)[b] = blocks[b]
    BY DEF BlocksOf, Restrict
  <1> HIDE DEF w
  <1>4. ASSUME NEW other \in DOMAIN w
        PROVE  CASE other = "blocks" ->
                      \A b \in DOMAIN BlocksOf(m.tenant) :
                         b \in DOMAIN w.blocks /\ w.blocks[b] = blocks[b]
                 [] other = "parent" \/ (other = "alloc" /\ m.kind = "pointer") -> TRUE
                 [] other = "idem" -> w.idem = NULL => read_one(m, "idem") = NULL
                 [] OTHER -> w[other] = read_one(m, other)
    <2>1. CASE other = part
      BY <1>1, <1>2, <1>3, <2>1
    <2>2. CASE other # part
      <3>1. other \in DOMAIN v /\ w[other] = v[other]
        BY <1>1, <1>4, <2>2
      <3> QED
        BY <3>1 DEF StableView
    <2> QED
      BY <2>1, <2>2
  <1>5. StableView(m, w)
    BY <1>4 DEF StableView
  <1> QED
    BY <1>5 DEF w

\* A read adds to its unit's view what the tables hold.
LEMMA ReadIInv ==
    ASSUME IInv, NEW p \in Procs, Read(p)
    PROVE  IInv'
  <1>1. CallersTyped /\ ScopesHeld /\ TablesInv
    BY DEF IInv
  <1>2. /\ Quiet /\ clock' = clock /\ pc[p] = "locked"
        /\ pc' = pc /\ unit' = unit /\ start' = start
    BY DEF Read, Quiet, tables, Locked
  <1>3. PICK part \in reads(unit[p]) \ DOMAIN view[p] :
           view' = [view EXCEPT ![p] = With(Only(part, read_one(unit[p], part)), view[p])]
    BY <1>1 DEF Read, CallersTyped
  <1> DEFINE w == With(Only(part, read_one(unit[p], part)), view[p])
  <1>4. /\ view'[p] = w /\ DOMAIN view' = Procs
        /\ \A q \in Procs \ {p} : view'[q] = view[q]
    BY <1>1, <1>3 DEF CallersTyped
  <1>5. DOMAIN w \subseteq reads(unit[p])
    <2>1. DOMAIN w = {part} \cup DOMAIN view[p]
      BY DEF With, Only
    <2> HIDE DEF w
    <2> QED
      BY <1>1, <1>2, <1>3, <2>1 DEF CallersTyped, Locked
  <1>6. UnitOk(unit[p]) /\ StableView(unit[p], view[p])
    BY <1>2 DEF IInv, Sure
  <1>7. StableView(unit[p], w)
    BY <1>3, <1>6, ViewGrows
  <1> HIDE DEF w
  <1>8. CallersTyped'
    <2>1. /\ clock' \in Nat
          /\ pc' \in [Procs -> {"idle", "resolving", "queued", "connected", "locked"}]
          /\ unit' \in [Procs -> Optional(Mutation)]
          /\ start' \in [Procs -> 0 .. clock']
          /\ \A q \in Procs : pc'[q] = "idle" <=> unit'[q] = NULL
      BY <1>1, <1>2 DEF CallersTyped
    <2>2. \A q \in Procs : pc'[q] # "locked" => view'[q] = <<>>
      BY <1>1, <1>2, <1>4 DEF CallersTyped
    <2>3. \A q \in Locked' : DOMAIN view'[q] \subseteq reads(unit'[q])
      BY <1>1, <1>2, <1>4, <1>5 DEF CallersTyped, Locked
    <2> QED
      BY <1>4, <2>1, <2>2, <2>3 DEF CallersTyped
  <1>9. ScopesHeld'
    BY <1>1, <1>2 DEF ScopesHeld, Locked
  <1>10. TablesInv'
    BY <1>1, <1>2, QuietTables
  <1>11. Sure(p)'
    <2>1. UnitOk(unit[p])'
      BY <1>2, <1>6 DEF UnitOk, Quiet
    <2>2. \A m, v : StableView(m, v) => StableView(m, v)'
      BY <1>2, QuietView
    <2>3. StableView(unit[p], view[p])'
      BY <1>2, <1>4, <1>7, <2>2
    <2> QED
      BY <1>2, <2>1, <2>3 DEF Sure
  <1>12. ASSUME NEW q \in Procs, q # p PROVE Sure(q)'
    <2>1. Sure(q)
      BY DEF IInv
    <2> QED
      BY <1>2, <1>4, <1>12, <2>1, QuietSure
  <1> QED
    BY <1>8, <1>9, <1>10, <1>11, <1>12 DEF IInv

-----------------------------------------------------------------------------
\* What was settled when a unit was submitted and resolved, another's plan
\* leaves: ids only grow, and an allocation stays in its block.
LEMMA UnitKept ==
    ASSUME TablesInv, NEW m, NEW plan, Fits(m, plan), Apply(plan), NEW n, UnitOk(n)
    PROVE  UnitOk(n)'
  <1>1. /\ nextId.block \in Nat /\ nextId.alloc \in Nat
        /\ nextId'.block \in Nat /\ nextId'.alloc \in Nat
        /\ nextId.block <= nextId'.block /\ nextId.alloc <= nextId'.alloc
    BY IdsAfter DEF TablesInv, TablesTyped
  <1>2. n.kind \in BlockKinds => n.block \in Nat /\ n.block < nextId'.block
    BY <1>1 DEF UnitOk
  <1>3. n.kind \in ResolvedKinds => n.alloc \in Nat /\ n.alloc < nextId'.alloc
    BY <1>1 DEF UnitOk
  <1>4. ASSUME n.kind \in ResolvedKinds, n.alloc \in DOMAIN allocs'
        PROVE  allocs'[n.alloc].tenant = n.tenant /\ allocs'[n.alloc].block = n.block
    <2>1. n.alloc \notin DOMAIN plan.insertAllocs
      <3>1. n.alloc \in Nat /\ n.alloc < nextId.alloc
        BY <1>4 DEF UnitOk
      <3>2. DOMAIN plan.insertAllocs \subseteq nextId.alloc .. nextId'.alloc - 1
        BY IdsAfter DEF TablesInv
      <3> QED
        BY <1>1, <3>1, <3>2
    <2>2. \/ /\ n.alloc \in DOMAIN allocs
             /\ allocs'[n.alloc].tenant = m.tenant /\ allocs'[n.alloc].block = m.block
             /\ allocs[n.alloc].tenant = m.tenant /\ allocs[n.alloc].block = m.block
          \/ n.alloc \in DOMAIN allocs /\ allocs'[n.alloc] = allocs[n.alloc]
      BY <1>4, <2>1, Provenance DEF TablesInv
    <2> QED
      BY <1>4, <2>2 DEF UnitOk
  <1>5. n \in Mutation /\ (n.kind = "load" => SoundDump(n.dump))
    BY DEF UnitOk
  <1> QED
    BY <1>2, <1>3, <1>4, <1>5 DEF UnitOk

\* A commit leaves the other callers sure of what they are sure of: a holder
\* of another scope finds its reads as they were.
LEMMA CommitSure ==
    ASSUME TablesInv, NEW m, NEW plan, NEW at, NEW ttl,
           Fits(m, plan), Apply(plan), Remember(m, plan, at, ttl),
           NEW q \in Procs, Sure(q), pc[q] = "locked" => scope(unit[q]) # scope(m),
           pc[q] = "locked" => DOMAIN view[q] \subseteq reads(unit[q]),
           pc'[q] = pc[q], unit'[q] = unit[q], view'[q] = view[q]
    PROVE  Sure(q)'
  <1>1. ASSUME pc'[q] = "resolving"
        PROVE  /\ unit'[q].kind \in ResolvedKinds /\ unit'[q].alloc \in Nat
               /\ unit'[q].alloc < nextId'.alloc
    <2>1. /\ unit'[q].kind \in ResolvedKinds /\ unit'[q].alloc \in Nat
          /\ unit'[q].alloc < nextId.alloc
      BY <1>1 DEF Sure
    <2>2. nextId.alloc \in Nat /\ nextId'.alloc \in Nat /\ nextId.alloc <= nextId'.alloc
      BY IdsAfter DEF TablesInv, TablesTyped
    <2> QED
      BY <2>1, <2>2
  <1>2. ASSUME pc'[q] \in {"queued", "connected", "locked"} PROVE UnitOk(unit[q])'
    <2>1. UnitOk(unit[q])
      BY <1>2 DEF Sure
    <2>2. \A n : UnitOk(n) => UnitOk(n)'
      BY UnitKept
    <2> QED
      BY <2>1, <2>2
  <1>3. ASSUME pc'[q] = "locked" PROVE StableView(unit[q], view[q])'
    <2>1. /\ UnitOk(unit[q]) /\ StableView(unit[q], view[q])
          /\ scope(m) # scope(unit[q]) /\ DOMAIN view[q] \subseteq reads(unit[q])
      BY <1>3 DEF Sure
    <2>2. \A n, v : /\ UnitOk(n) /\ scope(m) # scope(n)
                    /\ DOMAIN v \subseteq reads(n) /\ StableView(n, v)
                    => StableView(n, v)'
      BY OtherView
    <2> QED
      BY <2>1, <2>2
  <1> QED
    BY <1>1, <1>2, <1>3 DEF Sure

\* A commit applies a plan decided on a current view, so a fit one.
LEMMA CommitIInv ==
    ASSUME IInv, NEW p \in Procs, Commit(p)
    PROVE  IInv'
  <1> DEFINE m == unit[p]
             at == start[p]
  <1>1. CallersTyped /\ ScopesHeld /\ TablesInv
    BY DEF IInv
  <1>2. pc[p] = "locked" /\ DOMAIN view[p] = reads(m) /\ Accepts(m, view[p]) /\ Finish(p)
    BY DEF Commit, Decided, Loaded, Locked
  <1>3. PICK plan \in Plans(m, view[p], at) : Apply(plan) /\ Remember(m, plan, at, TTL)
    BY DEF Commit
  <1>4. at \in Nat
    BY <1>1 DEF CallersTyped
  <1>5. UnitOk(m) /\ StableView(m, view[p])
    BY <1>2 DEF IInv, Sure
  <1> HIDE DEF m, at
  <1>6. Current(m, view[p])
    BY <1>2, <1>5 DEF Current
  <1>7. Fits(m, plan)
    BY <1>1, <1>2, <1>3, <1>4, <1>5, <1>6, PlansFit
  <1>8. TablesTyped /\ InOwnBlock /\ NoLiveOverlap
    BY <1>1 DEF TablesInv
  <1>9. TablesTyped'
    BY <1>3, <1>7, <1>8, ApplyTyped
  <1>10. InOwnBlock'
    BY <1>3, <1>7, <1>8, ApplyInOwnBlock
  <1>11. NoLiveOverlap'
    BY <1>3, <1>7, <1>8, ApplyNoLiveOverlap
  <1>12. CallersTyped' /\ ScopesHeld'
    BY <1>1, <1>2, FinishCallers
  <1>13. Sure(p)'
    BY <1>1, <1>2 DEF Sure, Finish, CallersTyped
  <1>14. ASSUME NEW q \in Procs, q # p PROVE Sure(q)'
    <2>1. pc'[q] = pc[q] /\ unit'[q] = unit[q] /\ view'[q] = view[q]
      BY <1>1, <1>2, <1>14 DEF Finish, CallersTyped
    <2>2. Sure(q)
      BY DEF IInv
    <2>3. pc[q] = "locked" => scope(unit[q]) # scope(m)
      BY <1>1, <1>2, <1>14 DEF ScopesHeld, Locked, m
    <2>4. pc[q] = "locked" => DOMAIN view[q] \subseteq reads(unit[q])
      BY <1>1 DEF CallersTyped, Locked
    <2> QED
      BY <1>1, <1>3, <1>7, <2>1, <2>2, <2>3, <2>4, CommitSure
  <1> QED
    BY <1>9, <1>10, <1>11, <1>12, <1>13, <1>14 DEF IInv, TablesInv

-----------------------------------------------------------------------------
\* The steps that are no caller's.
LEMMA CrashIInv ==
    ASSUME IInv, Crash
    PROVE  IInv'
  <1>1. CallersTyped /\ ScopesHeld /\ TablesInv
    BY DEF IInv
  <1>2. Quiet /\ clock' = clock
    BY DEF Crash, Quiet, tables
  <1>3. /\ pc' = [p \in Procs |-> "idle"] /\ unit' = [p \in Procs |-> NULL]
        /\ start' = [p \in Procs |-> 0] /\ view' = [p \in Procs |-> <<>>]
    BY DEF Crash
  <1>4. CallersTyped' /\ ScopesHeld'
    BY <1>1, <1>2, <1>3 DEF CallersTyped, ScopesHeld, Locked, Optional
  <1>5. TablesInv'
    BY <1>1, <1>2, QuietTables
  <1>6. \A p \in Procs : Sure(p)'
    BY <1>3 DEF Sure
  <1> QED
    BY <1>4, <1>5, <1>6 DEF IInv

\* A step that leaves the callers alone and, of the tables, all but the
\* idempotency records it deletes.
LEMMA QuietIInv ==
    ASSUME IInv, Quiet, UNCHANGED callers, clock' \in Nat, clock <= clock'
    PROVE  IInv'
  <1>1. CallersTyped /\ ScopesHeld /\ TablesInv
    BY DEF IInv
  <1>2. pc' = pc /\ unit' = unit /\ start' = start /\ view' = view
    BY DEF callers
  <1>3. CallersTyped'
    <2>1. /\ DOMAIN view' = Procs
          /\ pc' \in [Procs -> {"idle", "resolving", "queued", "connected", "locked"}]
          /\ unit' \in [Procs -> Optional(Mutation)]
          /\ \A p \in Procs : pc'[p] = "idle" <=> unit'[p] = NULL
          /\ \A p \in Procs : pc'[p] # "locked" => view'[p] = <<>>
          /\ \A p \in Locked' : DOMAIN view'[p] \subseteq reads(unit'[p])
      BY <1>1, <1>2 DEF CallersTyped, Locked
    <2>2. start' \in [Procs -> 0 .. clock']
      <3>1. clock \in Nat /\ start \in [Procs -> 0 .. clock]
        BY <1>1 DEF CallersTyped
      <3>2. 0 .. clock \subseteq 0 .. clock'
        BY <3>1
      <3> QED
        BY <1>2, <3>1, <3>2
    <2> QED
      BY <2>1, <2>2 DEF CallersTyped
  <1>4. ScopesHeld'
    BY <1>1, <1>2 DEF ScopesHeld, Locked
  <1>5. TablesInv'
    BY <1>1, QuietTables
  <1>6. ASSUME NEW p \in Procs PROVE Sure(p)'
    <2>1. Sure(p)
      BY DEF IInv
    <2> QED
      BY <1>2, <2>1, QuietSure
  <1> QED
    BY <1>3, <1>4, <1>5, <1>6 DEF IInv

\* The sweep of expired idempotency records is quiet.
LEMMA ReapIInv ==
    ASSUME IInv, NEW now \in 0 .. clock, ReapIdempotency(now)
    PROVE  IInv'
  <1>1. UNCHANGED callers /\ clock' = clock
    BY DEF ReapIdempotency, Atomic!ReapIdempotency
  <1>2. Quiet
    BY DEF ReapIdempotency, Atomic!ReapIdempotency, Atomic!Restrict, Quiet
  <1>3. clock' \in Nat /\ clock <= clock'
    BY <1>1 DEF IInv, CallersTyped
  <1> QED
    BY <1>1, <1>2, <1>3, QuietIInv

\* Time passes.
LEMMA TickIInv ==
    ASSUME IInv, Tick
    PROVE  IInv'
  <1>1. UNCHANGED callers /\ Quiet
    BY DEF Tick, Quiet, tables
  <1>2. clock' \in Nat /\ clock <= clock'
    BY DEF Tick, IInv, CallersTyped
  <1> QED
    BY <1>1, <1>2, QuietIInv

-----------------------------------------------------------------------------
\* The invariant is inductive.
LEMMA NextIInv == IInv /\ [Next]_vars => IInv'
  <1> SUFFICES ASSUME IInv, [Next]_vars PROVE IInv'
    OBVIOUS
  <1>1. ASSUME NEW p \in Procs, NEW r \in Requests, Submit(p, r) PROVE IInv'
    BY <1>1, SubmitIInv
  <1>2. ASSUME NEW p \in Procs, Wait(p) PROVE IInv'
    BY <1>2, ResolveIInv, ConnectIInv, EndIInv DEF Wait
  <1>3. ASSUME NEW p \in Procs, AcquireScope(p) PROVE IInv'
    BY <1>3, AcquireIInv
  <1>4. ASSUME NEW p \in Procs, Busy(p) \/ Drop(p) PROVE IInv'
    BY <1>4, EndIInv
  <1>5. ASSUME NEW p \in Procs, Run(p) PROVE IInv'
    BY <1>5, ReadIInv, CommitIInv, EndIInv DEF Run
  <1>6. CASE Crash
    BY <1>6, CrashIInv
  <1>7. ASSUME NEW now \in 0 .. clock, ReapIdempotency(now) PROVE IInv'
    BY <1>7, ReapIInv
  <1>8. CASE Tick
    BY <1>8, TickIInv
  <1>9. CASE UNCHANGED vars
    <2>1. Quiet /\ UNCHANGED callers /\ clock' = clock
      BY <1>9 DEF vars, tables, Quiet
    <2>2. clock' \in Nat /\ clock <= clock'
      BY <2>1 DEF IInv, CallersTyped
    <2> QED
      BY <2>1, <2>2, QuietIInv
  <1> QED
    BY <1>1, <1>2, <1>3, <1>4, <1>5, <1>6, <1>7, <1>8, <1>9 DEF Next

\* What holds in every state of the system: the address space is consistent,
\* every Lock Scope has one holder, and what each holder has read is so.
THEOREM Invariant == Spec => []IInv
  BY InitIInv, NextIInv, PTL DEF Spec

\* Type correctness, for any numbers of callers, requests, ids and addresses.
THEOREM TypeCorrect == Spec => []TypeOK
  <1>1. IInv => TypeOK
    BY DEF IInv, TablesInv, TablesTyped, CallersTyped, TypeOK
  <1> QED
    BY <1>1, Invariant, PTL

\* allocate_specific, allocate_auto, update, release, expire, delete and load
\* never leave two live allocations of a block on one address, however their
\* units interleave, time out, are dropped or die in a crash.
THEOREM AllocationsDisjoint == Spec => []NoLiveOverlap
  <1>1. IInv => NoLiveOverlap
    BY DEF IInv, TablesInv
  <1> QED
    BY <1>1, Invariant, PTL

\* An allocation's block exists, is its tenant's and contains it: no delete of
\* a block can slip between a unit's read of it and the unit's insert.
THEOREM AllocationsInBlocks == Spec => []InOwnBlock
  <1>1. IInv => InOwnBlock
    BY DEF IInv, TablesInv
  <1> QED
    BY <1>1, Invariant, PTL

\* The Lock Scopes suffice: what execute's decide step relies on is still so
\* when it commits, though no unit reads and writes in one statement.
THEOREM ReadsStayTrue == Spec => []ViewsCurrent
  <1>1. IInv => ViewsCurrent
    BY DEF IInv, Sure, ViewsCurrent, Locked
  <1> QED
    BY <1>1, Invariant, PTL

-----------------------------------------------------------------------------
(* Units are atomic.                                                        *)

(* AtomicIpam's instance has its own copy of every operator it extends: the *)
(* lemmas below say that each is the one of this module.                    *)

\* Reads.
LEMMA SameReads ==
    ASSUME NEW m
    PROVE  /\ Atomic!reads(m) = reads(m)
           /\ \A part : Atomic!read_one(m, part) = read_one(m, part)
           /\ Atomic!Keyed(m) <=> Keyed(m)
           /\ Atomic!IdemKey(m) = IdemKey(m)
  <1>1. Atomic!Keyed(m) <=> Keyed(m)
    BY DEF Atomic!Keyed, Keyed
  <1>2. Atomic!IdemKey(m) = IdemKey(m)
    BY DEF Atomic!IdemKey, IdemKey
  <1>3. Atomic!reads(m) = reads(m)
    BY <1>1 DEF Atomic!reads, reads, Atomic!If, If
  <1>4. /\ \A t, r, id : Atomic!Row(t, r, id) = Row(t, r, id)
        /\ \A t : Atomic!BlocksOf(t) = BlocksOf(t)
        /\ \A t, b : Atomic!LiveIn(t, b) = LiveIn(t, b)
        /\ \A t, p : Atomic!PointersFor(t, p) = PointersFor(t, p)
        /\ \A k : Atomic!IdemRecord(k) = IdemRecord(k)
    BY DEF Atomic!Row, Row, Atomic!BlocksOf, BlocksOf, Atomic!LiveIn, LiveIn,
           Atomic!PointersFor, PointersFor, Atomic!IdemRecord, IdemRecord,
           Atomic!Restrict, Restrict, Atomic!LIVE, LIVE
  <1>5. \A part : Atomic!read_one(m, part) = read_one(m, part)
    BY <1>2, <1>4 DEF Atomic!read_one, read_one
  <1> QED
    BY <1>1, <1>2, <1>3, <1>5

\* Snapshots and resolutions.
LEMMA SameSnapshot ==
    ASSUME NEW m
    PROVE  /\ Atomic!Snapshot(m) = Snapshot(m)
           /\ Atomic!Resolutions(m) = Resolutions(m)
           /\ \A v : Atomic!Found(m, v) <=> Found(m, v)
  <1>1. Atomic!Snapshot(m) = Snapshot(m)
    BY SameReads DEF Atomic!Snapshot, Snapshot
  <1>2. Atomic!Resolutions(m) = Resolutions(m)
    BY DEF Atomic!Resolutions, Resolutions, Atomic!ResolvedKinds, ResolvedKinds
  <1>3. \A v : Atomic!Found(m, v) <=> Found(m, v)
    BY SameReads DEF Atomic!Found, Found
  <1> QED
    BY <1>1, <1>2, <1>3

\* Decisions.
LEMMA SameAccepts ==
    ASSUME NEW m \in Mutation, NEW v
    PROVE  Atomic!Accepts(m, v) <=> Accepts(m, v)
  <1>1. /\ \A a, b : Atomic!ranges_overlap(a, b) <=> ranges_overlap(a, b)
        /\ \A a, b : Atomic!range_contains(a, b) <=> range_contains(a, b)
        /\ \A a, b : Atomic!same_ip_version(a, b) <=> same_ip_version(a, b)
    BY DEF Atomic!ranges_overlap, ranges_overlap, Atomic!range_contains, range_contains,
           Atomic!same_ip_version, same_ip_version
  <1>2. \A rows, cidr : Atomic!no_overlap(rows, cidr) <=> no_overlap(rows, cidr)
    BY <1>1 DEF Atomic!no_overlap, no_overlap, Atomic!Ranges, Ranges
  <1>3. Atomic!AutoStarts(m, v) = AutoStarts(m, v)
    BY DEF Atomic!AutoStarts, AutoStarts, Atomic!find_free_blocks, find_free_blocks,
           Atomic!Lowest, Lowest, Atomic!FreeStarts, FreeStarts, Atomic!GapEnds, GapEnds,
           Atomic!Ranges, Ranges, Atomic!Cardinality, Cardinality
  <1>4. Atomic!AllocateSpecificAccepts(m, v) <=> AllocateSpecificAccepts(m, v)
    BY <1>1, <1>2 DEF Atomic!AllocateSpecificAccepts, AllocateSpecificAccepts
  <1>5. Atomic!AllocateAutoAccepts(m, v) <=> AllocateAutoAccepts(m, v)
    BY <1>3 DEF Atomic!AllocateAutoAccepts, AllocateAutoAccepts,
                Atomic!MAX_AUTO_ALLOCATE_COUNT, MAX_AUTO_ALLOCATE_COUNT
  <1>6. Atomic!UpdateAccepts(m, v) <=> UpdateAccepts(m, v)
    BY <1>2 DEF Atomic!UpdateAccepts, UpdateAccepts, Atomic!LIVE, LIVE
  <1>7. /\ Atomic!ReleaseAccepts(m, v) <=> ReleaseAccepts(m, v)
        /\ Atomic!TagsAccepts(m, v) <=> TagsAccepts(m, v)
        /\ Atomic!DeleteAccepts(m, v) <=> DeleteAccepts(m, v)
        /\ Atomic!LoadAccepts(m, v) <=> LoadAccepts(m, v)
        /\ Atomic!SetPointerAccepts(m, v) <=> SetPointerAccepts(m, v)
        /\ Atomic!DeletePointerAccepts(m, v) <=> DeletePointerAccepts(m, v)
    BY DEF Atomic!ReleaseAccepts, ReleaseAccepts, Atomic!TagsAccepts, TagsAccepts,
           Atomic!DeleteAccepts, DeleteAccepts, Atomic!LoadAccepts, LoadAccepts,
           Atomic!SetPointerAccepts, SetPointerAccepts,
           Atomic!DeletePointerAccepts, DeletePointerAccepts
  <1>8. Atomic!CreateAccepts(m, v) <=> CreateAccepts(m, v)
    BY <1>1 DEF Atomic!CreateAccepts, CreateAccepts
  <1> QED
    BY <1>4, <1>5, <1>6, <1>7, <1>8, KindOf DEF Atomic!Accepts, Accepts

\* Plans.
LEMMA SamePlans ==
    ASSUME NEW m, NEW v, NEW at
    PROVE  Atomic!Plans(m, v, at) = Plans(m, v, at)
  <1>1. /\ Atomic!EmptyPlan = EmptyPlan
        /\ \A a, t, id : Atomic!Fact(a, t, id) = Fact(a, t, id)
        /\ \A id, row : Atomic!Only(id, row) = Only(id, row)
        /\ \A id, kind : Atomic!HistoryEntry(id, kind) = HistoryEntry(id, kind)
    BY DEF Atomic!EmptyPlan, EmptyPlan, Atomic!Fact, Fact, Atomic!Only, Only,
           Atomic!HistoryEntry, HistoryEntry
  <1>2. /\ \A rows : Atomic!insert(rows) = insert(rows)
        /\ \A rows, action : Atomic!replace(rows, action) = replace(rows, action)
        /\ \A cidr : Atomic!new_allocation(m, cidr, at) = new_allocation(m, cidr, at)
        /\ \A row : Atomic!released(row, at) = released(row, at)
    BY <1>1 DEF Atomic!insert, insert, Atomic!replace, replace,
                Atomic!new_allocation, new_allocation, Atomic!released, released
  <1>3. Atomic!AllocateSpecificPlans(m, v, at) = AllocateSpecificPlans(m, v, at)
    BY <1>1, <1>2 DEF Atomic!AllocateSpecificPlans, AllocateSpecificPlans
  <1>4. Atomic!AllocateAutoPlans(m, v, at) = AllocateAutoPlans(m, v, at)
    <2>1. Atomic!AutoStarts(m, v) = AutoStarts(m, v)
      BY DEF Atomic!AutoStarts, AutoStarts, Atomic!find_free_blocks, find_free_blocks,
             Atomic!Lowest, Lowest, Atomic!FreeStarts, FreeStarts, Atomic!GapEnds, GapEnds,
             Atomic!Ranges, Ranges, Atomic!Cardinality, Cardinality
    <2> QED
      BY <1>2, <2>1 DEF Atomic!AllocateAutoPlans, AllocateAutoPlans, Atomic!Cidr, Cidr,
                        Atomic!Cardinality, Cardinality
  <1>5. /\ Atomic!UpdatePlans(m, v, at) = UpdatePlans(m, v, at)
        /\ Atomic!ReleasePlans(m, v, at) = ReleasePlans(m, v, at)
        /\ Atomic!TagsPlans(m, v, at) = TagsPlans(m, v, at)
    BY <1>1, <1>2 DEF Atomic!UpdatePlans, UpdatePlans, Atomic!ReleasePlans, ReleasePlans,
                      Atomic!TagsPlans, TagsPlans, Atomic!LIVE, LIVE
  <1>6. Atomic!ExpirePlans(m, v, at) = ExpirePlans(m, v, at)
    BY <1>2 DEF Atomic!ExpirePlans, ExpirePlans, Atomic!Due, Due
  <1>7. /\ Atomic!CreatePlans(m, v, at) = CreatePlans(m, v, at)
        /\ Atomic!DeletePlans(m, v, at) = DeletePlans(m, v, at)
    BY <1>1 DEF Atomic!CreatePlans, CreatePlans, Atomic!DeletePlans, DeletePlans
  <1>8. Atomic!LoadPlans(m, v, at) = LoadPlans(m, v, at)
    <2> DEFINE cs == m.dump.cidr_blocks
               as == m.dump.allocations
               newBlocks == nextId.block .. nextId.block + Len(cs) - 1
               newAllocs == nextId.alloc .. nextId.alloc + Len(as) - 1
               old(a) == as[a - nextId.alloc + 1]
               blockRows == [b \in newBlocks |->
                  [tenant |-> m.tenant, cidr |-> cs[b - nextId.block + 1]]]
               allocRows == [a \in newAllocs |->
                  [tenant |-> m.tenant, block |-> nextId.block + old(a).block - 1,
                   cidr |-> old(a).cidr, status |-> old(a).status, parent |-> NULL,
                   tags |-> old(a).tags, releasedAt |-> NULL, expiresAt |-> NULL]]
    <2>1. LoadPlans(m, v, at) =
            {[EmptyPlan EXCEPT
                !.insertBlocks = blockRows, !.insertAllocs = allocRows,
                !.audits = {Fact("load", "block", b) : b \in newBlocks}
                           \cup {Fact("load", "alloc", a) : a \in newAllocs}]}
      BY DEF LoadPlans
    <2>2. Atomic!LoadPlans(m, v, at) =
            {[Atomic!EmptyPlan EXCEPT
                !.insertBlocks = blockRows, !.insertAllocs = allocRows,
                !.audits = {Atomic!Fact("load", "block", b) : b \in newBlocks}
                           \cup {Atomic!Fact("load", "alloc", a) : a \in newAllocs}]}
      BY DEF Atomic!LoadPlans
    <2> HIDE DEF blockRows, allocRows, newBlocks, newAllocs
    <2>3. /\ {Atomic!Fact("load", "block", b) : b \in newBlocks}
             = {Fact("load", "block", b) : b \in newBlocks}
          /\ {Atomic!Fact("load", "alloc", a) : a \in newAllocs}
             = {Fact("load", "alloc", a) : a \in newAllocs}
      BY <1>1
    <2> QED
      BY <1>1, <2>1, <2>2, <2>3
  <1>9. /\ Atomic!SetPointerPlans(m, v, at) = SetPointerPlans(m, v, at)
        /\ Atomic!DeletePointerPlans(m, v, at) = DeletePointerPlans(m, v, at)
    BY <1>1 DEF Atomic!SetPointerPlans, SetPointerPlans,
                Atomic!DeletePointerPlans, DeletePointerPlans
  <1> QED
    BY <1>3, <1>4, <1>5, <1>6, <1>7, <1>8, <1>9 DEF Atomic!Plans, Plans

\* Constraints and effects.
LEMMA SameEffects ==
    ASSUME NEW m, NEW plan, NEW at, NEW ttl
    PROVE  /\ Atomic!ConstraintsHold(plan) <=> ConstraintsHold(plan)
           /\ Atomic!Apply(plan) <=> Apply(plan)
           /\ Atomic!Remember(m, plan, at, ttl) <=> Remember(m, plan, at, ttl)
  <1>1. /\ Atomic!Cascade(plan) = Cascade(plan)
        /\ \A S : Atomic!Optional(S) = Optional(S)
        /\ \A id, row : Atomic!Only(id, row) = Only(id, row)
        /\ \A rows, table : Atomic!With(rows, table) = With(rows, table)
        /\ \A table, ids : Atomic!Without(table, ids) = Without(table, ids)
    BY DEF Atomic!Cascade, Cascade, Atomic!Optional, Optional, Atomic!Only, Only,
           Atomic!With, With, Atomic!Without, Without, Atomic!Restrict, Restrict
  <1>2. Atomic!LinksHold(plan) <=> LinksHold(plan)
    BY <1>1 DEF Atomic!LinksHold, LinksHold
  <1>3. Atomic!ConstraintsHold(plan) <=> ConstraintsHold(plan)
    BY <1>1, <1>2 DEF Atomic!ConstraintsHold, ConstraintsHold
  <1>4. Atomic!Apply(plan) <=> Apply(plan)
    BY <1>1 DEF Atomic!Apply, Apply, Atomic!Cardinality, Cardinality
  <1>5. Atomic!Remember(m, plan, at, ttl) <=> Remember(m, plan, at, ttl)
    BY <1>1, SameReads DEF Atomic!Remember, Remember
  <1> QED
    BY <1>3, <1>4, <1>5

-----------------------------------------------------------------------------
(* What a unit decides on its view, it would decide on the tables.          *)

\* Most reads of a unit are, when it decides, what the tables hold.
LEMMA ReadsAgree ==
    ASSUME NEW m, NEW v, Current(m, v), NEW part \in reads(m),
           part \notin {"blocks", "parent", "idem"}, part = "alloc" => m.kind # "pointer"
    PROVE  v[part] = Snapshot(m)[part]
  <1>1. v[part] = read_one(m, part)
    BY DEF Current, StableView
  <1> QED
    BY <1>1 DEF Snapshot

\* The two kinds of unit that read a block and its live allocations.
LEMMA BlockReadsAgree ==
    ASSUME NEW m, NEW v, Current(m, v), {"block", "live"} \subseteq reads(m)
    PROVE  v.block = Snapshot(m).block /\ v.live = Snapshot(m).live
  BY ReadsAgree

\* A block of the tenant that is there now was there when the unit read the
\* blocks.
LEMMA BlocksAgree ==
    ASSUME NEW m, NEW v, Current(m, v), "blocks" \in reads(m)
    PROVE  \A b \in DOMAIN Snapshot(m).blocks :
              b \in DOMAIN v.blocks /\ v.blocks[b] = Snapshot(m).blocks[b]
  <1>1. Snapshot(m).blocks = BlocksOf(m.tenant)
    BY DEF Snapshot, read_one
  <1>2. \A b \in DOMAIN BlocksOf(m.tenant) : BlocksOf(m.tenant)[b] = blocks[b]
    BY DEF BlocksOf, Restrict
  <1>3. \A b \in DOMAIN BlocksOf(m.tenant) : b \in DOMAIN v.blocks /\ v.blocks[b] = blocks[b]
    BY DEF Current, StableView
  <1> QED
    BY <1>1, <1>2, <1>3

\* A row that a unit has read outside its scope may have changed or gone, but
\* its id is not issued again, and its tenant and range are for life.
LinkRead(m, v) ==
    /\ "parent" \in DOMAIN v /\ v.parent # NULL =>
          /\ m.parent \in Nat /\ m.parent < nextId.alloc
          /\ m.parent \in DOMAIN allocs =>
                allocs[m.parent].tenant = m.tenant /\ allocs[m.parent].cidr = v.parent.cidr
    /\ "alloc" \in DOMAIN v /\ m.kind = "pointer" /\ v.alloc # NULL =>
          /\ m.alloc \in Nat /\ m.alloc < nextId.alloc
          /\ m.alloc \in DOMAIN allocs => allocs[m.alloc].tenant = m.tenant

\* The row of a link that is there.
LEMMA LinkedRow ==
    ASSUME TablesInv, NEW t, NEW a \in DOMAIN allocs, allocs[a].tenant = t
    PROVE  Row(allocs, t, a) = allocs[a] /\ allocs[a] # NULL
  <1>1. allocs[a] \in Allocation
    BY DEF TablesInv, TablesTyped, IsTable
  <1> QED
    BY <1>1, RowsAssumption DEF Row

\* allocate_specific: the foreign key of the insert finds a parent that is
\* gone, and one that is there still contains the new range.
LEMMA SpecificAgrees ==
    ASSUME TablesInv, NEW m \in SpecificRequest, NEW v, Current(m, v), LinkRead(m, v),
           AllocateSpecificAccepts(m, v), NEW at, NEW plan \in AllocateSpecificPlans(m, v, at),
           ConstraintsHold(plan)
    PROVE  AllocateSpecificAccepts(m, Snapshot(m))
  <1>1. m.kind = "specific"
    BY DEF SpecificRequest
  <1>2. {"block", "live"} \subseteq reads(m) /\ (m.parent # NULL => "parent" \in reads(m))
    BY <1>1 DEF reads, If
  <1>3. v.block = Snapshot(m).block /\ v.live = Snapshot(m).live
    BY <1>2, BlockReadsAgree
  <1>4. ASSUME m.parent # NULL
        PROVE  Snapshot(m).parent # NULL /\ range_contains(Snapshot(m).parent.cidr, m.cidr)
    <2>1. v.parent # NULL /\ range_contains(v.parent.cidr, m.cidr)
      BY <1>4 DEF AllocateSpecificAccepts
    <2>2. m.parent \in DOMAIN allocs
      <3> DEFINE row == new_allocation(m, m.cidr, at)
      <3>1. plan.insertAllocs = Only(nextId.alloc, row)
        BY DEF AllocateSpecificPlans, insert, EmptyPlan
      <3>2. row.parent = m.parent
        BY DEF new_allocation
      <3> HIDE DEF row
      <3>3. nextId.alloc \in DOMAIN plan.insertAllocs /\ plan.insertAllocs[nextId.alloc] = row
        BY <3>1 DEF Only
      <3>4. row.parent \in Optional(DOMAIN allocs)
        BY <3>3 DEF ConstraintsHold, LinksHold
      <3> QED
        BY <1>4, <3>2, <3>4 DEF Optional
    <2>3. "parent" \in DOMAIN v
      BY <1>2, <1>4 DEF Current
    <2>4. allocs[m.parent].tenant = m.tenant /\ allocs[m.parent].cidr = v.parent.cidr
      BY <2>1, <2>2, <2>3 DEF LinkRead
    <2>5. Snapshot(m).parent = Row(allocs, m.tenant, m.parent)
      BY <1>2, <1>4 DEF Snapshot, read_one
    <2>6. Snapshot(m).parent = allocs[m.parent] /\ allocs[m.parent] # NULL
      BY <2>2, <2>4, <2>5, LinkedRow
    <2> QED
      BY <2>1, <2>4, <2>6
  <1> QED
    BY <1>3, <1>4 DEF AllocateSpecificAccepts

\* set_hostname_pointer: so does the foreign key of the pointer.
LEMMA SetPointerAgrees ==
    ASSUME TablesInv, NEW m \in SetPointerRequest, NEW v, Current(m, v), LinkRead(m, v),
           SetPointerAccepts(m, v), NEW at, NEW plan \in SetPointerPlans(m, v, at),
           ConstraintsHold(plan)
    PROVE  SetPointerAccepts(m, Snapshot(m))
  <1> SUFFICES ASSUME m.alloc # NULL PROVE Snapshot(m).alloc # NULL
    BY DEF SetPointerAccepts
  <1>1. m.kind = "pointer"
    BY DEF SetPointerRequest
  <1>2. "alloc" \in reads(m)
    BY <1>1 DEF reads, If
  <1>3. m.alloc \in DOMAIN allocs
    <2> DEFINE row == [tenant |-> m.tenant, pair |-> m.pair, alloc |-> m.alloc]
    <2>1. \E id : plan.putPointers = Only(id, row)
      BY DEF SetPointerPlans, EmptyPlan
    <2>2. PICK id : plan.putPointers = Only(id, row)
      BY <2>1
    <2>3. id \in DOMAIN plan.putPointers /\ plan.putPointers[id].alloc = m.alloc
      BY <2>2 DEF Only
    <2> QED
      BY <2>3 DEF ConstraintsHold, LinksHold, Optional
  <1>4. "alloc" \in DOMAIN v /\ v.alloc # NULL
    BY <1>2 DEF Current, SetPointerAccepts
  <1>5. allocs[m.alloc].tenant = m.tenant
    BY <1>1, <1>3, <1>4 DEF LinkRead
  <1>6. Snapshot(m).alloc = Row(allocs, m.tenant, m.alloc)
    BY <1>2 DEF Snapshot, read_one
  <1> QED
    BY <1>3, <1>5, <1>6, LinkedRow

\* A unit that is accepted, and whose plan the constraints let through, is
\* accepted on the tables of that moment.
LEMMA AcceptsAgree ==
    ASSUME TablesInv, NEW m \in Mutation, NEW v, Current(m, v), LinkRead(m, v), Accepts(m, v),
           NEW at, NEW plan \in Plans(m, v, at), ConstraintsHold(plan)
    PROVE  Accepts(m, Snapshot(m))
  <1> DEFINE S == Snapshot(m)
  <1>1. CASE m \in SpecificRequest
    <2>1. m.kind = "specific"
      BY <1>1 DEF SpecificRequest
    <2> QED
      BY <1>1, <2>1, SpecificAgrees DEF Accepts, Plans
  <1>2. CASE m \in AutoRequest
    <2>1. m.kind = "auto" /\ {"block", "live"} \subseteq reads(m)
      BY <1>2 DEF AutoRequest, reads
    <2>2. v.block = S.block /\ v.live = S.live
      BY <2>1, BlockReadsAgree
    <2> HIDE DEF S
    <2>3. AllocateAutoAccepts(m, v) => AllocateAutoAccepts(m, S)
      BY <2>2 DEF AllocateAutoAccepts, AutoStarts
    <2> QED
      BY <2>1, <2>3 DEF Accepts, S
  <1>3. CASE m \in UpdateRequest
    <2>1. m.kind = "update" /\ {"alloc", "live"} \subseteq reads(m)
      BY <1>3 DEF UpdateRequest, reads
    <2>2. v.alloc = S.alloc /\ v.live = S.live
      BY <2>1, ReadsAgree
    <2> HIDE DEF S
    <2>3. UpdateAccepts(m, v) => UpdateAccepts(m, S)
      BY <2>2 DEF UpdateAccepts
    <2> QED
      BY <2>1, <2>3 DEF Accepts, S
  <1>4. CASE m \in ReleaseRequest \cup TagsRequest
    <2>1. m.kind \in {"release", "tags"} /\ "alloc" \in reads(m)
      BY <1>4 DEF ReleaseRequest, TagsRequest, reads
    <2>2. v.alloc = S.alloc
      BY <2>1, ReadsAgree
    <2> HIDE DEF S
    <2>3. /\ ReleaseAccepts(m, v) => ReleaseAccepts(m, S)
          /\ TagsAccepts(m, v) => TagsAccepts(m, S)
      BY <2>2 DEF ReleaseAccepts, TagsAccepts
    <2> QED
      BY <2>1, <2>3 DEF Accepts, S
  <1>5. CASE m \in ExpireRequest
    BY <1>5 DEF ExpireRequest, Accepts
  <1>6. CASE m \in CreateRequest \cup LoadRequest
    <2>1. m.kind \in {"create", "load"} /\ "blocks" \in reads(m)
      BY <1>6 DEF CreateRequest, LoadRequest, reads
    <2>2. \A b \in DOMAIN S.blocks : b \in DOMAIN v.blocks /\ v.blocks[b] = S.blocks[b]
      BY <2>1, BlocksAgree
    <2> HIDE DEF S
    <2>3. CreateAccepts(m, v) => CreateAccepts(m, S)
      BY <2>2 DEF CreateAccepts
    <2>4. LoadAccepts(m, v) => LoadAccepts(m, S)
      BY <2>2 DEF LoadAccepts
    <2> QED
      BY <2>1, <2>3, <2>4 DEF Accepts, S
  <1>7. CASE m \in DeleteRequest
    <2>1. m.kind = "delete" /\ {"block", "live"} \subseteq reads(m)
      BY <1>7 DEF DeleteRequest, reads
    <2>2. v.block = S.block /\ v.live = S.live
      BY <2>1, BlockReadsAgree
    <2> HIDE DEF S
    <2>3. DeleteAccepts(m, v) => DeleteAccepts(m, S)
      BY <2>2 DEF DeleteAccepts
    <2> QED
      BY <2>1, <2>3 DEF Accepts, S
  <1>8. CASE m \in SetPointerRequest
    <2>1. m.kind = "pointer"
      BY <1>8 DEF SetPointerRequest
    <2> QED
      BY <1>8, <2>1, SetPointerAgrees DEF Accepts, Plans
  <1>9. CASE m \in DeletePointerRequest
    <2>1. m.kind = "unpoint" /\ "pointer" \in reads(m)
      BY <1>9 DEF DeletePointerRequest, reads
    <2>2. v.pointer = S.pointer
      BY <2>1, ReadsAgree
    <2> HIDE DEF S
    <2>3. DeletePointerAccepts(m, v) => DeletePointerAccepts(m, S)
      BY <2>2 DEF DeletePointerAccepts
    <2> QED
      BY <2>1, <2>3 DEF Accepts, S
  <1> QED
    BY <1>1, <1>2, <1>3, <1>4, <1>5, <1>6, <1>7, <1>8, <1>9 DEF Mutation

\* And the plan is one that would be made on them.
LEMMA PlansAgree ==
    ASSUME NEW m \in Mutation, NEW v, Current(m, v), NEW at
    PROVE  Plans(m, v, at) = Plans(m, Snapshot(m), at)
  <1> DEFINE S == Snapshot(m)
  <1>1. CASE m.kind = "auto"
    <2>1. {"block", "live"} \subseteq reads(m)
      BY <1>1 DEF reads
    <2>2. v.block = S.block /\ v.live = S.live
      BY <2>1, BlockReadsAgree
    <2> HIDE DEF S
    <2>3. AutoStarts(m, v) = AutoStarts(m, S)
      BY <2>2 DEF AutoStarts
    <2>4. AllocateAutoPlans(m, v, at) = AllocateAutoPlans(m, S, at)
      BY <2>2, <2>3 DEF AllocateAutoPlans
    <2> QED
      BY <1>1, <2>4 DEF Plans, S
  <1>2. CASE m.kind \in {"update", "release", "tags"}
    <2>1. "alloc" \in reads(m)
      BY <1>2 DEF reads
    <2>2. v.alloc = S.alloc
      BY <1>2, <2>1, ReadsAgree
    <2> HIDE DEF S
    <2>3. /\ UpdatePlans(m, v, at) = UpdatePlans(m, S, at)
          /\ ReleasePlans(m, v, at) = ReleasePlans(m, S, at)
          /\ TagsPlans(m, v, at) = TagsPlans(m, S, at)
      BY <2>2 DEF UpdatePlans, ReleasePlans, TagsPlans
    <2> QED
      BY <1>2, <2>3 DEF Plans, S
  <1>3. CASE m.kind = "expire"
    <2>1. "live" \in reads(m)
      BY <1>3 DEF reads
    <2>2. v.live = S.live
      BY <2>1, ReadsAgree
    <2> HIDE DEF S
    <2>3. ExpirePlans(m, v, at) = ExpirePlans(m, S, at)
      BY <2>2 DEF ExpirePlans
    <2> QED
      BY <1>3, <2>3 DEF Plans, S
  <1>4. CASE m.kind \in {"pointer", "unpoint"}
    <2>1. "pointer" \in reads(m)
      BY <1>4 DEF reads
    <2>2. v.pointer = S.pointer
      BY <2>1, ReadsAgree
    <2> HIDE DEF S
    <2>3. /\ SetPointerPlans(m, v, at) = SetPointerPlans(m, S, at)
          /\ DeletePointerPlans(m, v, at) = DeletePointerPlans(m, S, at)
      BY <2>2 DEF SetPointerPlans, DeletePointerPlans
    <2> QED
      BY <1>4, <2>3 DEF Plans, S
  <1>5. CASE m.kind \in {"specific", "create", "delete", "load"}
    <2> HIDE DEF S
    <2>1. /\ AllocateSpecificPlans(m, v, at) = AllocateSpecificPlans(m, S, at)
          /\ CreatePlans(m, v, at) = CreatePlans(m, S, at)
          /\ DeletePlans(m, v, at) = DeletePlans(m, S, at)
          /\ LoadPlans(m, v, at) = LoadPlans(m, S, at)
      BY DEF AllocateSpecificPlans, CreatePlans, DeletePlans, LoadPlans
    <2> QED
      BY <1>5, <2>1 DEF Plans, S
  <1> QED
    BY <1>1, <1>2, <1>3, <1>4, <1>5, KindOf

-----------------------------------------------------------------------------
(* The invariant of the refinement.                                         *)

\* A unit's request is one of the Requests, with its block filled in.
Fills(m, r) ==
    IF r.kind \in ResolvedKinds THEN \E b \in Nat : m = [r EXCEPT !.block = b] ELSE m = r

\* What a caller runs is what was asked of it.
Asked(p) ==
    /\ pc[p] = "resolving" => unit[p] \in Requests
    /\ pc[p] \in {"queued", "connected", "locked"} => \E r \in Requests : Fills(unit[p], r)

LinksRead(p) == pc[p] = "locked" => LinkRead(unit[p], view[p])

AInv == IInv /\ \A p \in Procs : Asked(p) /\ LinksRead(p)

\* A quiet step keeps what is known of a link.
LEMMA QuietLink ==
    ASSUME Quiet, NEW m, NEW v, LinkRead(m, v)
    PROVE  LinkRead(m, v)'
  BY DEF Quiet, LinkRead

\* So does the plan of another unit: ids are not issued again, and a row
\* keeps its tenant and its range.
LEMMA RowKept ==
    ASSUME TablesInv, NEW m, NEW plan, Fits(m, plan), Apply(plan),
           NEW a \in Nat, a < nextId.alloc
    PROVE  /\ a < nextId'.alloc
           /\ a \in DOMAIN allocs' =>
                 /\ a \in DOMAIN allocs /\ allocs'[a].tenant = allocs[a].tenant
                 /\ allocs'[a].cidr = allocs[a].cidr
  <1>1. nextId.alloc \in Nat /\ nextId'.alloc \in Nat /\ nextId.alloc <= nextId'.alloc
    BY IdsAfter DEF TablesInv, TablesTyped
  <1>2. a \notin DOMAIN plan.insertAllocs
    <2>1. DOMAIN plan.insertAllocs \subseteq nextId.alloc .. nextId'.alloc - 1
      BY IdsAfter DEF TablesInv
    <2> QED
      BY <1>1, <2>1
  <1>3. ASSUME a \in DOMAIN allocs'
        PROVE  /\ a \in DOMAIN allocs /\ allocs'[a].tenant = allocs[a].tenant
               /\ allocs'[a].cidr = allocs[a].cidr
    BY <1>2, <1>3, Provenance DEF TablesInv
  <1> QED
    BY <1>1, <1>3

\* What is known of a link stays known.
LEMMA LinkKept ==
    ASSUME TablesInv, NEW m, NEW plan, Fits(m, plan), Apply(plan),
           NEW n, NEW v, LinkRead(n, v)
    PROVE  LinkRead(n, v)'
  <1>1. ASSUME "parent" \in DOMAIN v, v.parent # NULL
        PROVE  /\ n.parent \in Nat /\ n.parent < nextId'.alloc
               /\ n.parent \in DOMAIN allocs' =>
                     /\ allocs'[n.parent].tenant = n.tenant
                     /\ allocs'[n.parent].cidr = v.parent.cidr
    <2>1. /\ n.parent \in Nat /\ n.parent < nextId.alloc
          /\ n.parent \in DOMAIN allocs =>
                /\ allocs[n.parent].tenant = n.tenant
                /\ allocs[n.parent].cidr = v.parent.cidr
      BY <1>1 DEF LinkRead
    <2> QED
      BY <2>1, RowKept
  <1>2. ASSUME "alloc" \in DOMAIN v, n.kind = "pointer", v.alloc # NULL
        PROVE  /\ n.alloc \in Nat /\ n.alloc < nextId'.alloc
               /\ n.alloc \in DOMAIN allocs' => allocs'[n.alloc].tenant = n.tenant
    <2>1. /\ n.alloc \in Nat /\ n.alloc < nextId.alloc
          /\ n.alloc \in DOMAIN allocs => allocs[n.alloc].tenant = n.tenant
      BY <1>2 DEF LinkRead
    <2> QED
      BY <2>1, RowKept
  <1> QED
    BY <1>1, <1>2 DEF LinkRead

\* A read of a link learns its tenant and its range.
LEMMA LinkGrows ==
    ASSUME TablesInv, NEW m, NEW v, LinkRead(m, v), NEW part, part \notin DOMAIN v
    PROVE  LinkRead(m, With(Only(part, read_one(m, part)), v))
  <1> DEFINE w == With(Only(part, read_one(m, part)), v)
  <1>1. /\ DOMAIN w = {part} \cup DOMAIN v /\ w[part] = read_one(m, part)
        /\ \A other \in DOMAIN v : w[other] = v[other]
    BY DEF With, Only
  <1>2. \A a \in DOMAIN allocs : a \in Nat /\ a < nextId.alloc
    BY DEF TablesInv, TablesTyped, IsTable
  <1>3. /\ read_one(m, "parent") = Row(allocs, m.tenant, m.parent)
        /\ read_one(m, "alloc") = Row(allocs, m.tenant, m.alloc)
    BY DEF read_one
  <1> HIDE DEF w
  <1>4. ASSUME "parent" \in DOMAIN w, w.parent # NULL
        PROVE  /\ m.parent \in Nat /\ m.parent < nextId.alloc
               /\ m.parent \in DOMAIN allocs =>
                     /\ allocs[m.parent].tenant = m.tenant
                     /\ allocs[m.parent].cidr = w.parent.cidr
    <2>1. CASE part = "parent"
      BY <1>1, <1>2, <1>3, <1>4, <2>1, RowOf
    <2>2. CASE part # "parent"
      BY <1>1, <1>4, <2>2 DEF LinkRead
    <2> QED
      BY <2>1, <2>2
  <1>5. ASSUME "alloc" \in DOMAIN w, m.kind = "pointer", w.alloc # NULL
        PROVE  /\ m.alloc \in Nat /\ m.alloc < nextId.alloc
               /\ m.alloc \in DOMAIN allocs => allocs[m.alloc].tenant = m.tenant
    <2>1. CASE part = "alloc"
      BY <1>1, <1>2, <1>3, <1>5, <2>1, RowOf
    <2>2. CASE part # "alloc"
      BY <1>1, <1>5, <2>2 DEF LinkRead
    <2> QED
      BY <2>1, <2>2
  <1>6. LinkRead(m, w)
    BY <1>4, <1>5 DEF LinkRead
  <1> QED
    BY <1>6 DEF w

\* The invariant holds initially.
LEMMA InitAInv == Init => AInv
  <1> SUFFICES ASSUME Init PROVE AInv
    OBVIOUS
  <1>1. IInv
    BY InitIInv
  <1>2. \A p \in Procs : pc[p] = "idle"
    BY DEF Init
  <1> QED
    BY <1>1, <1>2 DEF AInv, Asked, LinksRead

\* A caller that is untouched by a quiet step.
LEMMA QuietCaller ==
    ASSUME Quiet, NEW q \in Procs, Asked(q), LinksRead(q),
           pc'[q] = pc[q], unit'[q] = unit[q], view'[q] = view[q]
    PROVE  Asked(q)' /\ LinksRead(q)'
  <1>1. Asked(q)'
    BY DEF Asked, Fills
  <1>2. \A m, v : LinkRead(m, v) => LinkRead(m, v)'
    BY QuietLink
  <1>3. LinksRead(q)'
    BY <1>2 DEF LinksRead
  <1> QED
    BY <1>1, <1>3

\* A step by which one caller leaves its place, the tables quiet.
LEMMA CallerAInv ==
    ASSUME AInv, IInv', Quiet, NEW p \in Procs,
           \A q \in Procs \ {p} : pc'[q] = pc[q] /\ unit'[q] = unit[q] /\ view'[q] = view[q],
           Asked(p)', LinksRead(p)'
    PROVE  AInv'
  <1>1. ASSUME NEW q \in Procs, q # p PROVE Asked(q)' /\ LinksRead(q)'
    BY <1>1, QuietCaller DEF AInv
  <1> QED
    BY <1>1 DEF AInv

\* The steps before the scope is taken.
LEMMA WaitAInv ==
    ASSUME AInv, IInv', NEW p \in Procs,
           \/ \E r \in Requests : Submit(p, r)
           \/ Resolve(p) \/ Connect(p) \/ AcquireScope(p)
    PROVE  AInv'
  <1>1. CallersTyped /\ TablesInv /\ Asked(p)
    BY DEF AInv, IInv
  <1>2. Quiet /\ view' = view
    BY DEF Submit, Resolve, Connect, AcquireScope, Quiet, tables
  <1>3. ASSUME NEW r \in Requests, Submit(p, r) PROVE AInv'
    <2>1. /\ unit'[p] = r /\ pc'[p] = IF r.kind \in ResolvedKinds THEN "resolving" ELSE "queued"
          /\ \A q \in Procs \ {p} : pc'[q] = pc[q] /\ unit'[q] = unit[q]
      BY <1>1, <1>3 DEF Submit, CallersTyped
    <2>2. Asked(p)' /\ LinksRead(p)'
      BY <2>1 DEF Asked, LinksRead, Fills
    <2> QED
      BY <1>2, <2>1, <2>2, CallerAInv
  <1>4. CASE Resolve(p)
    <2>1. pc[p] = "resolving" /\ unit[p] \in Requests
      BY <1>1, <1>4 DEF Resolve, Asked
    <2>2. unit[p].kind \in ResolvedKinds
      BY <2>1 DEF AInv, IInv, Sure
    <2>3. /\ unit'[p] \in Resolutions(unit[p]) /\ pc'[p] = "queued"
          /\ \A q \in Procs \ {p} : pc'[q] = pc[q] /\ unit'[q] = unit[q]
      BY <1>1, <1>4 DEF Resolve, CallersTyped
    <2>4. PICK a \in DOMAIN allocs : unit'[p] = [unit[p] EXCEPT !.block = allocs[a].block]
      BY <2>2, <2>3 DEF Resolutions
    <2>5. allocs[a].block \in Nat
      BY <1>1 DEF TablesInv, TablesTyped, IsTable, Allocation
    <2>6. Fills(unit'[p], unit[p])
      BY <2>2, <2>4, <2>5 DEF Fills
    <2>7. Asked(p)' /\ LinksRead(p)'
      BY <2>1, <2>3, <2>6 DEF Asked, LinksRead, Fills
    <2> QED
      BY <1>2, <2>3, <2>7, CallerAInv
  <1>5. CASE Connect(p) \/ AcquireScope(p)
    <2>1. /\ pc[p] \in {"queued", "connected"} /\ pc'[p] \in {"connected", "locked"}
          /\ unit' = unit /\ \A q \in Procs \ {p} : pc'[q] = pc[q]
      BY <1>1, <1>5 DEF Connect, AcquireScope, CallersTyped
    <2>2. view'[p] = <<>>
      BY <1>1, <1>2, <2>1 DEF CallersTyped
    <2>3. Asked(p)'
      BY <1>1, <2>1 DEF Asked, Fills
    <2>4. LinksRead(p)'
      BY <2>2, NoRows DEF LinksRead, LinkRead
    <2> QED
      BY <1>2, <2>1, <2>3, <2>4, CallerAInv
  <1> QED
    BY <1>3, <1>4, <1>5

\* A read.
LEMMA ReadAInv ==
    ASSUME AInv, IInv', NEW p \in Procs, Read(p)
    PROVE  AInv'
  <1>1. CallersTyped /\ TablesInv /\ Asked(p) /\ LinksRead(p)
    BY DEF AInv, IInv
  <1>2. Quiet /\ pc[p] = "locked" /\ pc' = pc /\ unit' = unit
    BY DEF Read, Quiet, tables, Locked
  <1>3. PICK part \in reads(unit[p]) \ DOMAIN view[p] :
           view' = [view EXCEPT ![p] = With(Only(part, read_one(unit[p], part)), view[p])]
    BY <1>1 DEF Read, CallersTyped
  <1>4. /\ view'[p] = With(Only(part, read_one(unit[p], part)), view[p])
        /\ \A q \in Procs \ {p} : view'[q] = view[q]
    BY <1>1, <1>3 DEF CallersTyped
  <1>5. LinkRead(unit[p], view[p])
    BY <1>1, <1>2 DEF LinksRead
  <1>6. LinkRead(unit[p], view'[p])
    BY <1>1, <1>3, <1>4, <1>5, LinkGrows
  <1>7. Asked(p)' /\ LinksRead(p)'
    BY <1>1, <1>2, <1>6 DEF Asked, Fills, LinksRead, LinkRead, Quiet
  <1> QED
    BY <1>2, <1>4, <1>7, CallerAInv

\* The end of a unit without a commit.
LEMMA EndAInv ==
    ASSUME AInv, IInv', NEW p \in Procs,
           \/ ResolveFails(p) \/ Busy(p) \/ Replay(p) \/ Reject(p)
           \/ ConstraintFails(p) \/ Drop(p)
    PROVE  AInv'
  <1>1. Finish(p) /\ UNCHANGED tables
    BY DEF ResolveFails, Busy, Replay, Reject, ConstraintFails, Drop
  <1>2. Quiet
    BY <1>1 DEF Quiet, tables
  <1>3. /\ pc'[p] = "idle"
        /\ \A q \in Procs \ {p} : pc'[q] = pc[q] /\ unit'[q] = unit[q] /\ view'[q] = view[q]
    BY <1>1 DEF Finish, AInv, IInv, CallersTyped
  <1>4. Asked(p)' /\ LinksRead(p)'
    BY <1>3 DEF Asked, LinksRead
  <1> QED
    BY <1>2, <1>3, <1>4, CallerAInv

\* What a commit rests on: a fit plan, made on a view that is current.
LEMMA CommitOf ==
    ASSUME AInv, NEW p \in Procs, Commit(p)
    PROVE  /\ pc[p] = "locked" /\ UnitOk(unit[p]) /\ Current(unit[p], view[p])
           /\ LinkRead(unit[p], view[p]) /\ Accepts(unit[p], view[p])
           /\ ~ Found(unit[p], view[p]) /\ start[p] \in 0 .. clock /\ start[p] \in Nat
           /\ clock' = clock /\ Finish(p)
           /\ \E plan \in Plans(unit[p], view[p], start[p]) :
                 /\ ConstraintsHold(plan) /\ Apply(plan)
                 /\ Remember(unit[p], plan, start[p], TTL)
                 /\ Fits(unit[p], plan)
  <1>1. /\ pc[p] = "locked" /\ DOMAIN view[p] = reads(unit[p]) /\ Accepts(unit[p], view[p])
        /\ ~ Found(unit[p], view[p]) /\ Finish(p)
    BY DEF Commit, Decided, Loaded, Locked
  <1>2. /\ UnitOk(unit[p]) /\ StableView(unit[p], view[p]) /\ LinkRead(unit[p], view[p])
        /\ TablesInv
    BY <1>1 DEF AInv, IInv, Sure, LinksRead
  <1>3. Current(unit[p], view[p])
    BY <1>1, <1>2 DEF Current
  <1>4. start[p] \in 0 .. clock /\ start[p] \in Nat
    BY DEF AInv, IInv, CallersTyped
  <1>5. PICK plan \in Plans(unit[p], view[p], start[p]) :
           /\ ConstraintsHold(plan) /\ Apply(plan) /\ Remember(unit[p], plan, start[p], TTL)
    BY DEF Commit
  <1>6. Fits(unit[p], plan)
    BY <1>1, <1>2, <1>3, <1>4, PlansFit
  <1>7. clock' = clock
    BY <1>1 DEF Finish
  <1> QED
    BY <1>1, <1>2, <1>3, <1>4, <1>5, <1>6, <1>7

\* A commit.
LEMMA CommitAInv ==
    ASSUME AInv, IInv', NEW p \in Procs, Commit(p)
    PROVE  AInv'
  <1>1. PICK plan : Fits(unit[p], plan) /\ Apply(plan)
    BY CommitOf
  <1>2. Finish(p) /\ TablesInv
    BY CommitOf DEF AInv, IInv
  <1>3. /\ pc'[p] = "idle"
        /\ \A q \in Procs \ {p} : pc'[q] = pc[q] /\ unit'[q] = unit[q] /\ view'[q] = view[q]
    BY <1>2 DEF Finish, AInv, IInv, CallersTyped
  <1>4. \A n, v : LinkRead(n, v) => LinkRead(n, v)'
    BY <1>1, <1>2, LinkKept
  <1>5. ASSUME NEW q \in Procs PROVE Asked(q)' /\ LinksRead(q)'
    <2>1. CASE q = p
      BY <1>3, <2>1 DEF Asked, LinksRead
    <2>2. CASE q # p
      <3>1. pc'[q] = pc[q] /\ unit'[q] = unit[q] /\ view'[q] = view[q]
        BY <1>3, <2>2
      <3>2. Asked(q) /\ LinksRead(q)
        BY DEF AInv
      <3>3. Asked(q)'
        BY <3>1, <3>2 DEF Asked, Fills
      <3>4. LinksRead(q)'
        BY <1>4, <3>1, <3>2 DEF LinksRead
      <3> QED
        BY <3>3, <3>4
    <2> QED
      BY <2>1, <2>2
  <1> QED
    BY <1>5 DEF AInv

\* The invariant is inductive.
LEMMA NextAInv == AInv /\ [Next]_vars => AInv'
  <1> SUFFICES ASSUME AInv, [Next]_vars PROVE AInv'
    OBVIOUS
  <1>1. IInv'
    BY NextIInv DEF AInv
  <1>2. ASSUME NEW p \in Procs, \E r \in Requests : Submit(p, r) PROVE AInv'
    BY <1>1, <1>2, WaitAInv
  <1>3. ASSUME NEW p \in Procs, Wait(p) \/ AcquireScope(p) PROVE AInv'
    BY <1>1, <1>3, WaitAInv, EndAInv DEF Wait
  <1>4. ASSUME NEW p \in Procs, Busy(p) \/ Drop(p) PROVE AInv'
    BY <1>1, <1>4, EndAInv
  <1>5. ASSUME NEW p \in Procs, Run(p) PROVE AInv'
    BY <1>1, <1>5, ReadAInv, CommitAInv, EndAInv DEF Run
  <1>6. CASE Crash
    <2>1. \A p \in Procs : pc'[p] = "idle"
      BY <1>6 DEF Crash
    <2> QED
      BY <1>1, <2>1 DEF AInv, Asked, LinksRead
  <1>7. ASSUME Quiet, UNCHANGED callers PROVE AInv'
    <2>1. pc' = pc /\ unit' = unit /\ view' = view
      BY <1>7 DEF callers
    <2>2. \A q \in Procs : Asked(q)' /\ LinksRead(q)'
      BY <1>7, <2>1, QuietCaller DEF AInv
    <2> QED
      BY <1>1, <2>2 DEF AInv
  <1>8. ASSUME NEW now \in 0 .. clock, ReapIdempotency(now) PROVE AInv'
    <2>1. Quiet /\ UNCHANGED callers
      BY <1>8 DEF ReapIdempotency, Atomic!ReapIdempotency, Atomic!Restrict, Quiet
    <2> QED
      BY <1>7, <2>1
  <1>9. CASE Tick \/ UNCHANGED vars
    <2>1. Quiet /\ UNCHANGED callers
      BY <1>9 DEF Tick, vars, tables, Quiet
    <2> QED
      BY <1>7, <2>1
  <1> QED
    BY <1>2, <1>3, <1>4, <1>5, <1>6, <1>8, <1>9 DEF Next

-----------------------------------------------------------------------------
(* The refinement.                                                          *)

\* The unit of a caller is a resolution of what it was asked: the allocation
\* it names, if it is still there, is still in the block it locked.
LEMMA ResolvesTo ==
    ASSUME TablesInv, NEW m, UnitOk(m), NEW v, Current(m, v), Accepts(m, v),
           NEW r \in Mutation, Fills(m, r)
    PROVE  m \in Resolutions(r)
  <1>1. CASE r.kind \notin ResolvedKinds
    BY <1>1 DEF Fills, Resolutions
  <1>2. CASE r.kind \in ResolvedKinds
    <2>1. PICK b \in Nat : m = [r EXCEPT !.block = b]
      BY <1>2 DEF Fills
    <2>2. r \in UpdateRequest \cup ReleaseRequest \cup TagsRequest
      BY <1>2 DEF Mutation, ResolvedKinds, SpecificRequest, AutoRequest, ExpireRequest,
                  CreateRequest, DeleteRequest, LoadRequest, SetPointerRequest,
                  DeletePointerRequest
    <2>3. m.kind = r.kind /\ m.alloc = r.alloc /\ m.tenant = r.tenant /\ m.block = b
      <3>1. CASE r \in UpdateRequest
        BY <2>1, <3>1 DEF UpdateRequest
      <3>2. CASE r \in ReleaseRequest
        BY <2>1, <3>2 DEF ReleaseRequest
      <3>3. CASE r \in TagsRequest
        BY <2>1, <3>3 DEF TagsRequest
      <3> QED
        BY <2>2, <3>1, <3>2, <3>3
    <2>4. v.alloc # NULL /\ "alloc" \in reads(m) /\ m.kind # "pointer"
      BY <1>2, <2>3 DEF ResolvedKinds, Accepts, UpdateAccepts, ReleaseAccepts, TagsAccepts, reads
    <2>5. Row(allocs, m.tenant, m.alloc) # NULL
      BY <2>4 DEF Current, StableView, read_one
    <2>6. m.alloc \in DOMAIN allocs /\ allocs[m.alloc].tenant = m.tenant
      BY <2>5, RowOf
    <2>7. allocs[m.alloc].block = b
      BY <1>2, <2>3, <2>6 DEF UnitOk
    <2> QED
      BY <1>2, <2>1, <2>3, <2>6, <2>7 DEF Resolutions
  <1> QED
    BY <1>1, <1>2

\* No record of its key was found, and there is none.
LEMMA NotFoundNow ==
    ASSUME NEW m, NEW v, Current(m, v), ~ Found(m, v)
    PROVE  ~ Found(m, Snapshot(m))
  <1> SUFFICES ASSUME Keyed(m) PROVE Snapshot(m).idem = NULL
    BY DEF Found
  <1>1. "idem" \in reads(m)
    BY DEF Keyed, reads, If
  <1>2. v.idem = NULL
    BY DEF Found
  <1>3. read_one(m, "idem") = NULL
    BY <1>1, <1>2 DEF Current, StableView
  <1> QED
    BY <1>1, <1>3 DEF Snapshot

\* A commit is a unit that runs at one instant, on the tables as they are.
LEMMA CommitExecutes ==
    ASSUME AInv, NEW p \in Procs, Commit(p)
    PROVE  \E r \in Requests, at \in 0 .. clock : Atomic!Execute(r, at)
  <1> DEFINE m == unit[p]
             v == view[p]
             at == start[p]
  <1>1. /\ pc[p] = "locked" /\ UnitOk(m) /\ Current(m, v) /\ LinkRead(m, v) /\ Accepts(m, v)
        /\ ~ Found(m, v) /\ at \in 0 .. clock /\ clock' = clock
    BY CommitOf
  <1>2. PICK plan \in Plans(m, v, at) :
           ConstraintsHold(plan) /\ Apply(plan) /\ Remember(m, plan, at, TTL)
    BY CommitOf
  <1>3. PICK r \in Requests : Fills(m, r)
    BY <1>1 DEF AInv, Asked
  <1>4. TablesInv /\ r \in Mutation
    BY RequestsAssumption DEF AInv, IInv
  <1> HIDE DEF m, v, at
  <1>5. m \in Mutation
    BY <1>1 DEF UnitOk
  <1>6. m \in Atomic!Resolutions(r)
    BY <1>1, <1>3, <1>4, ResolvesTo, SameSnapshot
  <1>7. ~ Atomic!Found(m, Atomic!Snapshot(m))
    BY <1>1, NotFoundNow, SameSnapshot
  <1>8. Atomic!Accepts(m, Atomic!Snapshot(m))
    <2>1. Accepts(m, Snapshot(m))
      BY <1>1, <1>2, <1>4, <1>5, AcceptsAgree
    <2> QED
      BY <1>5, <2>1, SameAccepts, SameSnapshot
  <1>9. plan \in Atomic!Plans(m, Atomic!Snapshot(m), at)
    <2>1. plan \in Plans(m, Snapshot(m), at)
      BY <1>1, <1>2, <1>5, PlansAgree
    <2> QED
      BY <2>1, SamePlans, SameSnapshot
  <1>10. /\ Atomic!ConstraintsHold(plan) /\ Atomic!Apply(plan)
         /\ Atomic!Remember(m, plan, at, TTL)
    BY <1>2, SameEffects
  <1>11. Atomic!Execute(r, at)
    BY <1>1, <1>6, <1>7, <1>8, <1>9, <1>10 DEF Atomic!Execute
  <1> QED
    BY <1>1, <1>11

\* The store keeps the promise of ADR-0007: a unit that reads one part at a
\* time, times out, is dropped or dies has the effect of one that runs alone
\* at the instant of its commit, or none.
THEOREM UnitsAreAtomic == Spec => Serializable
  <1>1. Init => Atomic!Init
    BY DEF Init, Atomic!Init, Atomic!TablesInit, TablesInit
  <1>2. AInv /\ [Next]_vars => [Atomic!Next]_(Atomic!vars)
    <2> SUFFICES ASSUME AInv, [Next]_vars PROVE [Atomic!Next]_(Atomic!vars)
      OBVIOUS
    <2>1. ASSUME UNCHANGED tables, UNCHANGED clock PROVE UNCHANGED Atomic!vars
      BY <2>1 DEF tables, Atomic!vars, Atomic!tables
    <2>2. ASSUME NEW p \in Procs, Commit(p) PROVE Atomic!Next
      BY <2>2, CommitExecutes DEF Atomic!Next
    <2>3. ASSUME NEW p \in Procs,
                 \/ \E r \in Requests : Submit(p, r)
                 \/ Wait(p) \/ AcquireScope(p) \/ Busy(p) \/ Drop(p)
                 \/ Read(p) \/ Replay(p) \/ Reject(p) \/ ConstraintFails(p)
          PROVE  UNCHANGED tables /\ UNCHANGED clock
      BY <2>3 DEF Submit, Wait, Resolve, ResolveFails, Connect, AcquireScope, Busy, Drop,
                  Read, Replay, Reject, ConstraintFails, Finish
    <2>4. CASE Crash \/ UNCHANGED vars
      <3>1. UNCHANGED tables /\ UNCHANGED clock
        BY <2>4 DEF Crash, vars
      <3> QED
        BY <2>1, <3>1
    <2>5. ASSUME NEW now \in 0 .. clock, ReapIdempotency(now) PROVE Atomic!Next
      BY <2>5 DEF ReapIdempotency, Atomic!Next
    <2>6. CASE Tick
      <3>1. Atomic!Tick
        BY <2>6 DEF Tick, Atomic!Tick, tables, Atomic!tables
      <3> QED
        BY <3>1 DEF Atomic!Next
    <2> QED
      BY <2>1, <2>2, <2>3, <2>4, <2>5, <2>6 DEF Next, Run
  <1> QED
    BY <1>1, <1>2, InitAInv, NextAInv, PTL DEF Spec, Serializable, Atomic!Spec

-----------------------------------------------------------------------------
(* What else a plan does to the tables: the tenant's blocks, the links, and *)
(* the records that explain the rows.                                       *)

\* The audit facts by which a block came and went.
Came(b, facts) == \E f \in {"create_cidr_block", "load"} : Fact(f, "block", b) \in facts
Went(b, facts) == Fact("delete_cidr_block", "block", b) \in facts

\* A plan records every pointer and every block it adds or takes away, and
\* no other.
Explains(plan) ==
    /\ \A id : HistoryEntry(id, "create") \in plan.history
               <=> id \in DOMAIN plan.putPointers \ DOMAIN pointers
    /\ \A id : HistoryEntry(id, "delete") \in plan.history <=> id \in plan.deletePointers
    /\ DOMAIN plan.putPointers \cap plan.deletePointers = {}
    /\ \A b : Came(b, plan.audits) <=> b \in DOMAIN plan.insertBlocks
    /\ \A b : Went(b, plan.audits) <=> b \in plan.deleteBlocks

\* An allocation that is overwritten keeps its parent.
KeepsParents(plan) ==
    \A a \in DOMAIN plan.replaceAllocs :
        a \in DOMAIN allocs /\ plan.replaceAllocs[a].parent = allocs[a].parent

\* New blocks are apart from each other and from the tenant's.
BlocksApart(m, plan) ==
    \A b \in DOMAIN plan.insertBlocks :
        /\ \A c \in DOMAIN BlocksOf(m.tenant) :
              ~ ranges_overlap(plan.insertBlocks[b].cidr, blocks[c].cidr)
        /\ \A c \in DOMAIN plan.insertBlocks :
              b # c => ~ ranges_overlap(plan.insertBlocks[b].cidr, plan.insertBlocks[c].cidr)

\* A plan that is about allocations only.
LEMMA AllocPlanExplains ==
    ASSUME NEW m, NEW plan,
           plan.insertBlocks = <<>>, plan.deleteBlocks = {}, plan.putPointers = <<>>,
           plan.deletePointers = {}, plan.history = {},
           \A fact \in plan.audits : fact.table = "alloc",
           KeepsParents(plan)
    PROVE  Explains(plan) /\ KeepsParents(plan) /\ BlocksApart(m, plan)
  <1>1. \A f, b : Fact(f, "block", b).table = "block"
    BY DEF Fact
  <1>2. \A f, b : Fact(f, "block", b) \notin plan.audits
    BY <1>1
  <1>3. Explains(plan)
    BY <1>2, NoRows DEF Explains, Came, Went
  <1> QED
    BY <1>3, NoRows DEF BlocksApart

\* insert, replace and the empty plan are about allocations only.
LEMMA InsertExplains ==
    ASSUME NEW m, NEW rows
    PROVE  LET plan == insert(rows) IN Explains(plan) /\ KeepsParents(plan) /\ BlocksApart(m, plan)
  <1> DEFINE plan == insert(rows)
  <1>1. /\ plan.insertBlocks = <<>> /\ plan.deleteBlocks = {} /\ plan.putPointers = <<>>
        /\ plan.deletePointers = {} /\ plan.history = {} /\ plan.replaceAllocs = <<>>
        /\ plan.audits = {Fact("allocate", "alloc", a) : a \in DOMAIN rows}
    BY DEF insert, EmptyPlan
  <1>2. \A fact \in plan.audits : fact.table = "alloc"
    BY <1>1 DEF Fact
  <1>3. KeepsParents(plan)
    BY <1>1, NoRows DEF KeepsParents
  <1> HIDE DEF plan
  <1>4. Explains(plan) /\ KeepsParents(plan) /\ BlocksApart(m, plan)
    BY <1>1, <1>2, <1>3, AllocPlanExplains
  <1> QED
    BY <1>4 DEF plan

\* Rows are overwritten with rows of the same parents.
LEMMA ReplaceExplains ==
    ASSUME NEW m, NEW rows, NEW action,
           \A a \in DOMAIN rows : a \in DOMAIN allocs /\ rows[a].parent = allocs[a].parent
    PROVE  LET plan == replace(rows, action) IN
           Explains(plan) /\ KeepsParents(plan) /\ BlocksApart(m, plan)
  <1> DEFINE plan == replace(rows, action)
  <1>1. /\ plan.insertBlocks = <<>> /\ plan.deleteBlocks = {} /\ plan.putPointers = <<>>
        /\ plan.deletePointers = {} /\ plan.history = {} /\ plan.replaceAllocs = rows
        /\ plan.audits = {Fact(action, "alloc", a) : a \in DOMAIN rows}
    BY DEF replace, EmptyPlan
  <1>2. \A fact \in plan.audits : fact.table = "alloc"
    BY <1>1 DEF Fact
  <1>3. KeepsParents(plan)
    BY <1>1 DEF KeepsParents
  <1> HIDE DEF plan
  <1>4. Explains(plan) /\ KeepsParents(plan) /\ BlocksApart(m, plan)
    BY <1>1, <1>2, <1>3, AllocPlanExplains
  <1> QED
    BY <1>4 DEF plan

\* Nothing to explain.
LEMMA EmptyExplains ==
    ASSUME NEW m
    PROVE  Explains(EmptyPlan) /\ KeepsParents(EmptyPlan) /\ BlocksApart(m, EmptyPlan)
  <1>1. /\ EmptyPlan.insertBlocks = <<>> /\ EmptyPlan.deleteBlocks = {}
        /\ EmptyPlan.putPointers = <<>> /\ EmptyPlan.deletePointers = {}
        /\ EmptyPlan.history = {} /\ EmptyPlan.replaceAllocs = <<>> /\ EmptyPlan.audits = {}
    BY DEF EmptyPlan
  <1>2. KeepsParents(EmptyPlan)
    BY <1>1, NoRows DEF KeepsParents
  <1> QED
    BY <1>1, <1>2, AllocPlanExplains

\* The plans of the allocation Mutations.
LEMMA AllocationPlansExplain ==
    ASSUME TablesInv, NEW m, UnitOk(m), NEW v, Current(m, v), Accepts(m, v), NEW at,
           NEW plan \in Plans(m, v, at),
           m.kind \in {"specific", "auto", "update", "release", "tags", "expire"}
    PROVE  Explains(plan) /\ KeepsParents(plan) /\ BlocksApart(m, plan)
  <1>1. CASE m.kind = "specific"
    <2>1. \E rows : plan = insert(rows)
      BY <1>1 DEF Plans, AllocateSpecificPlans
    <2> QED
      BY <2>1, InsertExplains
  <1>2. CASE m.kind = "auto"
    <2>1. \E rows : plan = insert(rows)
      BY <1>2 DEF Plans, AllocateAutoPlans
    <2> QED
      BY <2>1, InsertExplains
  <1>3. CASE m.kind \in {"update", "release", "tags"}
    <2>1. "alloc" \in reads(m) /\ v.alloc # NULL
      BY <1>3 DEF reads, Accepts, UpdateAccepts, ReleaseAccepts, TagsAccepts
    <2>2. v.alloc = Row(allocs, m.tenant, m.alloc)
      BY <1>3, <2>1 DEF Current, StableView, read_one
    <2>3. m.alloc \in DOMAIN allocs /\ v.alloc = allocs[m.alloc]
      BY <2>1, <2>2, RowOf
    <2>4. v.alloc \in Allocation
      BY <2>3 DEF TablesInv, TablesTyped, IsTable
    <2>5. \/ plan = EmptyPlan
          \/ \E row, action : row.parent = v.alloc.parent /\ plan = replace(Only(m.alloc, row), action)
      <3> DEFINE updated == [v.alloc EXCEPT
                                !.status = IF m.status = NULL THEN @ ELSE m.status,
                                !.releasedAt = IF m.status \in LIVE THEN NULL ELSE @]
                 tagged == [v.alloc EXCEPT !.tags = m.tags]
      <3>1. /\ updated.parent = v.alloc.parent /\ tagged.parent = v.alloc.parent
            /\ released(v.alloc, at).parent = v.alloc.parent
        BY <2>4 DEF Allocation, released
      <3>2. \/ plan = EmptyPlan
            \/ plan = replace(Only(m.alloc, updated), "update")
            \/ plan = replace(Only(m.alloc, tagged), "set_tags")
            \/ plan = replace(Only(m.alloc, released(v.alloc, at)), "release")
        BY <1>3 DEF Plans, UpdatePlans, ReleasePlans, TagsPlans
      <3> HIDE DEF updated, tagged
      <3> QED
        BY <3>1, <3>2
    <2>6. ASSUME NEW row, NEW action, row.parent = v.alloc.parent,
                 plan = replace(Only(m.alloc, row), action)
          PROVE  Explains(plan) /\ KeepsParents(plan) /\ BlocksApart(m, plan)
      <3>1. /\ DOMAIN Only(m.alloc, row) = {m.alloc}
            /\ Only(m.alloc, row)[m.alloc] = row
        BY DEF Only
      <3>2. \A a \in DOMAIN Only(m.alloc, row) :
               a \in DOMAIN allocs /\ Only(m.alloc, row)[a].parent = allocs[a].parent
        BY <2>3, <2>6, <3>1
      <3> QED
        BY <2>6, <3>2, ReplaceExplains
    <2> QED
      BY <2>5, <2>6, EmptyExplains
  <1>4. CASE m.kind = "expire"
    <2>1. v.live = LiveIn(m.tenant, m.block)
      BY <1>4 DEF Current, reads, StableView, read_one
    <2>2. \A a \in DOMAIN v.live : a \in DOMAIN allocs /\ v.live[a] = allocs[a]
      BY <2>1 DEF LiveIn, Restrict
    <2> DEFINE rows == [a \in Due(v.live, at) |-> released(v.live[a], at)]
    <2>3. plan = replace(rows, "expire")
      BY <1>4 DEF Plans, ExpirePlans
    <2>4. ASSUME NEW a \in DOMAIN rows
          PROVE  a \in DOMAIN allocs /\ rows[a].parent = allocs[a].parent
      <3>1. a \in DOMAIN v.live
        BY <2>4 DEF Due
      <3>2. allocs[a] \in Allocation /\ v.live[a] = allocs[a] /\ a \in DOMAIN allocs
        BY <2>2, <3>1 DEF TablesInv, TablesTyped, IsTable
      <3>3. rows[a] = released(allocs[a], at)
        BY <2>4, <3>2
      <3>4. released(allocs[a], at).parent = allocs[a].parent
        BY <3>2 DEF Allocation, released
      <3> HIDE DEF rows
      <3> QED
        BY <3>2, <3>3, <3>4
    <2> HIDE DEF rows
    <2> QED
      BY <2>3, <2>4, ReplaceExplains
  <1> QED
    BY <1>1, <1>2, <1>3, <1>4

\* create records the block it adds, which is apart from those it has read,
\* and those are all the tenant's.
LEMMA CreateExplains ==
    ASSUME NEW m \in CreateRequest, NEW v, Current(m, v), CreateAccepts(m, v), NEW at,
           NEW plan \in CreatePlans(m, v, at)
    PROVE  Explains(plan) /\ KeepsParents(plan) /\ BlocksApart(m, plan)
  <1> DEFINE row == [tenant |-> m.tenant, cidr |-> m.cidr]
  <1>1. m.kind = "create" /\ "blocks" \in DOMAIN v
    BY DEF CreateRequest, Current, reads
  <1>2. /\ plan.insertBlocks = Only(nextId.block, row)
        /\ plan.deleteBlocks = {} /\ plan.putPointers = <<>> /\ plan.deletePointers = {}
        /\ plan.history = {} /\ plan.replaceAllocs = <<>>
        /\ plan.audits = {Fact("create_cidr_block", "block", nextId.block)}
    BY DEF CreatePlans, EmptyPlan
  <1>3. /\ DOMAIN plan.insertBlocks = {nextId.block}
        /\ plan.insertBlocks[nextId.block].cidr = m.cidr
    BY <1>2 DEF Only
  <1>4. \A b : Came(b, plan.audits) <=> b = nextId.block
    BY <1>2 DEF Came, Fact
  <1>5. \A b : ~ Went(b, plan.audits)
    BY <1>2 DEF Went, Fact
  <1>6. Explains(plan) /\ KeepsParents(plan)
    BY <1>2, <1>3, <1>4, <1>5, NoRows DEF Explains, KeepsParents
  <1>7. ASSUME NEW c \in DOMAIN BlocksOf(m.tenant)
        PROVE  ~ ranges_overlap(m.cidr, blocks[c].cidr)
    <2>1. c \in DOMAIN v.blocks /\ v.blocks[c] = blocks[c]
      BY <1>1, <1>7 DEF Current, StableView
    <2> QED
      BY <2>1 DEF CreateAccepts
  <1> QED
    BY <1>3, <1>6, <1>7 DEF BlocksApart

\* delete records the block it takes away.
LEMMA DeleteExplains ==
    ASSUME NEW m, NEW v, NEW at, NEW plan \in DeletePlans(m, v, at)
    PROVE  Explains(plan) /\ KeepsParents(plan) /\ BlocksApart(m, plan)
  <1>1. /\ plan.deleteBlocks = {m.block}
        /\ plan.insertBlocks = <<>> /\ plan.putPointers = <<>> /\ plan.deletePointers = {}
        /\ plan.history = {} /\ plan.replaceAllocs = <<>>
        /\ plan.audits = {Fact("delete_cidr_block", "block", m.block)}
    BY DEF DeletePlans, EmptyPlan
  <1>2. \A b : ~ Came(b, plan.audits)
    BY <1>1 DEF Came, Fact
  <1>3. \A b : Went(b, plan.audits) <=> b = m.block
    BY <1>1 DEF Went, Fact
  <1> QED
    BY <1>1, <1>2, <1>3, NoRows DEF Explains, KeepsParents, BlocksApart

\* load records each block it adds; they are the dump's, and the first of
\* their tenant.
LEMMA LoadExplains ==
    ASSUME NEW m \in LoadRequest, SoundDump(m.dump), nextId.block \in Nat,
           NEW v, Current(m, v), LoadAccepts(m, v), NEW at, NEW plan \in LoadPlans(m, v, at)
    PROVE  Explains(plan) /\ KeepsParents(plan) /\ BlocksApart(m, plan)
  <1> DEFINE cs == m.dump.cidr_blocks
             newBlocks == nextId.block .. nextId.block + Len(cs) - 1
             newAllocs == nextId.alloc .. nextId.alloc + Len(m.dump.allocations) - 1
             rows == [b \in newBlocks |->
                        [tenant |-> m.tenant, cidr |-> cs[b - nextId.block + 1]]]
  <1>1. m.kind = "load" /\ "blocks" \in DOMAIN v /\ cs \in Seq(IpRange)
    BY DEF LoadRequest, IpamDump, Current, reads
  <1>2. /\ plan.insertBlocks = rows
        /\ plan.deleteBlocks = {} /\ plan.putPointers = <<>> /\ plan.deletePointers = {}
        /\ plan.history = {} /\ plan.replaceAllocs = <<>>
        /\ plan.audits = {Fact("load", "block", b) : b \in newBlocks}
                         \cup {Fact("load", "alloc", a) : a \in newAllocs}
    BY DEF LoadPlans, EmptyPlan
  <1>3. DOMAIN rows = newBlocks /\ \A b \in newBlocks : rows[b].cidr = cs[b - nextId.block + 1]
    OBVIOUS
  <1> HIDE DEF rows, newAllocs
  <1>4. \A b : Came(b, plan.audits) <=> b \in newBlocks
    BY <1>2 DEF Came, Fact
  <1>5. \A b : ~ Went(b, plan.audits)
    BY <1>2 DEF Went, Fact
  <1>6. Explains(plan) /\ KeepsParents(plan)
    BY <1>2, <1>3, <1>4, <1>5, NoRows DEF Explains, KeepsParents
  <1>7. DOMAIN BlocksOf(m.tenant) = {}
    <2>1. DOMAIN v.blocks = {}
      BY DEF LoadAccepts
    <2>2. \A c \in DOMAIN BlocksOf(m.tenant) : c \in DOMAIN v.blocks
      BY <1>1 DEF Current, StableView
    <2> QED
      BY <2>1, <2>2
  <1>8. ASSUME NEW b \in newBlocks, NEW c \in newBlocks, b # c
        PROVE  ~ ranges_overlap(rows[b].cidr, rows[c].cidr)
    <2> DEFINE i == b - nextId.block + 1
               j == c - nextId.block + 1
    <2>1. Len(cs) \in Nat /\ DOMAIN cs = 1 .. Len(cs)
      BY <1>1, SeqElements
    <2>2. i \in DOMAIN cs /\ j \in DOMAIN cs
      BY <1>8, <2>1, RunIndex
    <2>3. i # j
      BY <1>8
    <2>4. ~ ranges_overlap(cs[i], cs[j])
      BY <2>2, <2>3 DEF SoundDump
    <2> QED
      BY <1>3, <2>4
  <1> QED
    BY <1>2, <1>3, <1>6, <1>7, <1>8 DEF BlocksApart

\* set_hostname_pointer records a creation when the id is new, and only then.
LEMMA SetPointerExplains ==
    ASSUME TablesInv, NEW m \in SetPointerRequest, NEW v, Current(m, v), NEW at,
           NEW plan \in SetPointerPlans(m, v, at)
    PROVE  Explains(plan) /\ KeepsParents(plan) /\ BlocksApart(m, plan)
  <1> DEFINE row == [tenant |-> m.tenant, pair |-> m.pair, alloc |-> m.alloc]
  <1>1. v.pointer = PointersFor(m.tenant, m.pair)
    BY DEF SetPointerRequest, Current, reads, StableView, read_one
  <1>2. \A id \in DOMAIN v.pointer : id \in DOMAIN pointers
    BY <1>1 DEF PointersFor, Restrict
  <1>3. nextId.pointer \notin DOMAIN pointers
    BY DEF TablesInv, TablesTyped, IsTable
  <1> DEFINE writes(id, kind) ==
               [EmptyPlan EXCEPT !.putPointers = Only(id, row),
                                 !.history = {HistoryEntry(id, kind)},
                                 !.audits = {Fact("set_hostname_pointer", "pointer", id)}]
  <1>a. \/ plan = writes(nextId.pointer, "create")
        \/ \E id \in DOMAIN v.pointer : plan = writes(id, "update")
    BY DEF SetPointerPlans
  <1>b. PICK id, kind :
           /\ \/ id \notin DOMAIN pointers /\ kind = "create"
              \/ id \in DOMAIN pointers /\ kind = "update"
           /\ plan = writes(id, kind)
    <2> HIDE DEF writes
    <2> QED
      BY <1>2, <1>3, <1>a
  <1>4. /\ \/ id \notin DOMAIN pointers /\ kind = "create"
           \/ id \in DOMAIN pointers /\ kind = "update"
        /\ plan.putPointers = Only(id, row)
        /\ plan.history = {HistoryEntry(id, kind)}
        /\ plan.audits = {Fact("set_hostname_pointer", "pointer", id)}
        /\ plan.insertBlocks = <<>> /\ plan.deleteBlocks = {}
        /\ plan.deletePointers = {} /\ plan.replaceAllocs = <<>>
    BY <1>b DEF EmptyPlan
  <1>5. DOMAIN plan.putPointers = {id}
    BY <1>4 DEF Only
  <1>6. /\ \A i : HistoryEntry(i, "create") \in plan.history <=> i = id /\ kind = "create"
        /\ \A i : HistoryEntry(i, "delete") \notin plan.history
    BY <1>4 DEF HistoryEntry
  <1>7. \A f, b : Fact(f, "block", b) \notin plan.audits
    BY <1>4 DEF Fact
  <1>8. Explains(plan)
    BY <1>4, <1>5, <1>6, <1>7, NoRows DEF Explains, Came, Went
  <1> QED
    BY <1>4, <1>8, NoRows DEF KeepsParents, BlocksApart

\* delete_hostname_pointer records the pointer it takes away.
LEMMA DeletePointerExplains ==
    ASSUME NEW m, NEW v, NEW at, NEW plan \in DeletePointerPlans(m, v, at)
    PROVE  Explains(plan) /\ KeepsParents(plan) /\ BlocksApart(m, plan)
  <1>1. PICK id :
           /\ plan.deletePointers = {id} /\ plan.history = {HistoryEntry(id, "delete")}
           /\ plan.audits = {Fact("delete_hostname_pointer", "pointer", id)}
           /\ plan.insertBlocks = <<>> /\ plan.deleteBlocks = {}
           /\ plan.putPointers = <<>> /\ plan.replaceAllocs = <<>>
    BY DEF DeletePointerPlans, EmptyPlan
  <1>2. /\ \A i : HistoryEntry(i, "delete") \in plan.history <=> i = id
        /\ \A i : HistoryEntry(i, "create") \notin plan.history
    BY <1>1 DEF HistoryEntry
  <1>3. \A f, b : Fact(f, "block", b) \notin plan.audits
    BY <1>1 DEF Fact
  <1>4. Explains(plan)
    BY <1>1, <1>2, <1>3, NoRows DEF Explains, Came, Went
  <1> QED
    BY <1>1, <1>4, NoRows DEF KeepsParents, BlocksApart

\* Every plan that is made on a current view.
LEMMA PlansExplain ==
    ASSUME TablesInv, NEW m, UnitOk(m), NEW v, Current(m, v), Accepts(m, v), NEW at,
           NEW plan \in Plans(m, v, at)
    PROVE  Explains(plan) /\ KeepsParents(plan) /\ BlocksApart(m, plan)
  <1>1. m \in Mutation /\ (m.kind = "load" => SoundDump(m.dump))
    BY DEF UnitOk
  <1>2. CASE m.kind \in {"specific", "auto", "update", "release", "tags", "expire"}
    BY <1>2, AllocationPlansExplain
  <1>3. CASE m \in CreateRequest
    BY <1>3, CreateExplains DEF CreateRequest, Accepts, Plans
  <1>4. CASE m \in DeleteRequest
    BY <1>4, DeleteExplains DEF DeleteRequest, Plans
  <1>5. CASE m \in LoadRequest
    <2>1. m.kind = "load"
      BY <1>5 DEF LoadRequest
    <2>2. nextId.block \in Nat
      BY DEF TablesInv, TablesTyped
    <2> QED
      BY <1>1, <1>5, <2>1, <2>2, LoadExplains DEF Accepts, Plans
  <1>6. CASE m \in SetPointerRequest
    BY <1>6, SetPointerExplains DEF SetPointerRequest, Plans
  <1>7. CASE m \in DeletePointerRequest
    BY <1>7, DeletePointerExplains DEF DeletePointerRequest, Plans
  <1> QED
    BY <1>1, <1>2, <1>3, <1>4, <1>5, <1>6, <1>7
    DEF Mutation, SpecificRequest, AutoRequest, UpdateRequest, ReleaseRequest, TagsRequest,
        ExpireRequest

-----------------------------------------------------------------------------
(* What explains the rows, and what the rows point to.                      *)

\* The history speaks of ids that were issued, and tells which are there.
PointersExplained ==
    \A id :
        /\ \A kind \in {"create", "delete"} :
              HistoryEntry(id, kind) \in history => id \in 0 .. nextId.pointer - 1
        /\ id \in DOMAIN pointers
           <=> HistoryEntry(id, "create") \in history /\ HistoryEntry(id, "delete") \notin history

\* So does the audit trail, of the blocks.
BlocksExplained ==
    \A b :
        /\ Came(b, audit) \/ Went(b, audit) => b \in 0 .. nextId.block - 1
        /\ b \in DOMAIN blocks <=> Came(b, audit) /\ ~ Went(b, audit)

\* A stored response is a record.
IdemTyped == \A k \in DOMAIN idem : idem[k] \in Response

\* The inductive invariant, beside AInv.
TInv ==
    /\ BlocksDisjoint /\ NoDangling
    /\ PointersExplained /\ BlocksExplained /\ IdemTyped

\* A quiet step that writes no record keeps it.
LEMMA QuietTInv ==
    ASSUME TInv, Quiet, UNCHANGED <<history, audit>>
    PROVE  TInv'
  <1>1. BlocksDisjoint' /\ NoDangling'
    BY DEF TInv, Quiet, BlocksDisjoint, NoDangling
  <1>2. PointersExplained'
    BY DEF TInv, Quiet, PointersExplained
  <1>3. BlocksExplained'
    BY DEF TInv, Quiet, BlocksExplained, Came, Went
  <1>4. IdemTyped'
    BY DEF TInv, Quiet, IdemTyped
  <1> QED
    BY <1>1, <1>2, <1>3, <1>4 DEF TInv

\* A new block is apart from the tenant's that are there.
LEMMA ApplyBlocksDisjoint ==
    ASSUME TablesTyped, BlocksDisjoint, NEW m, NEW plan, Fits(m, plan), Apply(plan),
           BlocksApart(m, plan)
    PROVE  BlocksDisjoint'
  <1> SUFFICES ASSUME NEW b \in DOMAIN blocks', NEW c \in DOMAIN blocks', b # c,
                      blocks'[b].tenant = blocks'[c].tenant
               PROVE  ~ ranges_overlap(blocks'[b].cidr, blocks'[c].cidr)
    BY DEF BlocksDisjoint
  <1> DEFINE New(d) == d \in DOMAIN plan.insertBlocks /\ blocks'[d] = plan.insertBlocks[d]
                       /\ blocks'[d].tenant = m.tenant
             Old(d) == d \in DOMAIN blocks /\ blocks'[d] = blocks[d]
  <1>1. \A d \in DOMAIN blocks' : New(d) \/ Old(d)
    BY BlocksAfter DEF Fits, BlocksFit
  <1>2. ASSUME NEW d, NEW e, New(d), Old(e), blocks'[d].tenant = blocks'[e].tenant
        PROVE  ~ ranges_overlap(blocks'[d].cidr, blocks'[e].cidr)
    <2>1. e \in DOMAIN BlocksOf(m.tenant)
      BY <1>2 DEF BlocksOf, Restrict
    <2> QED
      BY <1>2, <2>1 DEF BlocksApart
  <1>3. CASE New(b) /\ New(c)
    BY <1>3 DEF BlocksApart
  <1>4. CASE Old(b) /\ Old(c)
    BY <1>4 DEF BlocksDisjoint
  <1>5. CASE New(b) /\ Old(c)
    BY <1>2, <1>5
  <1>6. CASE New(c) /\ Old(b)
    <2>1. ~ ranges_overlap(blocks'[c].cidr, blocks'[b].cidr)
      BY <1>2, <1>6
    <2> QED
      BY <2>1 DEF ranges_overlap
  <1> HIDE DEF New, Old
  <1> QED
    BY <1>1, <1>3, <1>4, <1>5, <1>6

\* A delete takes allocations away only when nothing links to them, and no
\* other plan takes any away.
LEMMA ApplyNoDangling ==
    ASSUME TablesTyped, NoDangling, NEW m, NEW plan, Fits(m, plan), Apply(plan),
           LinksHold(plan), KeepsParents(plan)
    PROVE  NoDangling'
  <1>1. \A a \in DOMAIN allocs : a \in DOMAIN allocs' \/ a \in Cascade(plan)
    BY AllocsAfter
  <1>2. m.kind # "delete" => Cascade(plan) = {}
    BY DEF Fits, DeletesFit, Cascade
  <1>3. m.kind # "delete" => \A a \in DOMAIN allocs : a \in DOMAIN allocs'
    BY <1>1, <1>2
  <1>4. ASSUME NEW p \in DOMAIN pointers'
        PROVE  pointers'[p].alloc \in Optional(DOMAIN allocs')
    <2>1. CASE p \in DOMAIN plan.putPointers
      <3>1. pointers'[p] = plan.putPointers[p] /\ m.kind # "delete"
        BY <2>1, PointersAfter DEF Fits, PointersFit, TenantKinds
      <3>2. plan.putPointers[p].alloc \in Optional(DOMAIN allocs)
        BY <2>1 DEF LinksHold
      <3> QED
        BY <1>3, <3>1, <3>2 DEF Optional
    <2>2. CASE p \notin DOMAIN plan.putPointers
      <3>1. p \in DOMAIN pointers /\ pointers'[p] = pointers[p]
        BY <1>4, <2>2, PointersAfter
      <3>2. pointers[p].alloc \in Optional(DOMAIN allocs) /\ pointers[p].alloc \notin Cascade(plan)
        BY <3>1 DEF NoDangling, LinksHold
      <3> QED
        BY <1>1, <3>1, <3>2 DEF Optional
    <2> QED
      BY <2>1, <2>2
  <1>5. ASSUME NEW a \in DOMAIN allocs'
        PROVE  allocs'[a].parent \in Optional(DOMAIN allocs')
    <2>1. CASE a \in DOMAIN plan.insertAllocs
      <3>1. allocs'[a] = plan.insertAllocs[a]
        BY <2>1, AllocsAfter
      <3>2. m.kind # "delete"
        BY <2>1 DEF Fits, InsertsFit, BlocksFit, TenantKinds
      <3>3. plan.insertAllocs[a].parent \in Optional(DOMAIN allocs)
        BY <2>1 DEF LinksHold
      <3> QED
        BY <1>3, <3>1, <3>2, <3>3 DEF Optional
    <2>2. CASE a \in DOMAIN plan.replaceAllocs \ DOMAIN plan.insertAllocs
      <3>1. allocs'[a] = plan.replaceAllocs[a] /\ m.kind # "delete"
        BY <2>2, AllocsAfter DEF Fits, ReplacesFit
      <3>2. a \in DOMAIN allocs /\ plan.replaceAllocs[a].parent = allocs[a].parent
        BY <2>2 DEF KeepsParents
      <3>3. allocs[a].parent \in Optional(DOMAIN allocs)
        BY <3>2 DEF NoDangling
      <3> QED
        BY <1>3, <3>1, <3>2, <3>3 DEF Optional
    <2>3. CASE a \notin DOMAIN plan.insertAllocs \cup DOMAIN plan.replaceAllocs
      <3>1. a \in DOMAIN allocs \ Cascade(plan) /\ allocs'[a] = allocs[a]
        BY <1>5, <2>3, AllocsAfter
      <3>2. allocs[a].parent \in Optional(DOMAIN allocs) /\ allocs[a].parent \notin Cascade(plan)
        BY <3>1 DEF NoDangling, LinksHold
      <3> QED
        BY <1>1, <3>1, <3>2 DEF Optional
    <2> QED
      BY <2>1, <2>2, <2>3
  <1> QED
    BY <1>4, <1>5 DEF NoDangling

\* What a plan does to the pointers, it records, and nothing else.
LEMMA ApplyPointersExplained ==
    ASSUME TablesTyped, PointersExplained, NEW m, NEW plan, Fits(m, plan), Apply(plan),
           ConstraintsHold(plan), Explains(plan)
    PROVE  PointersExplained'
  <1> SUFFICES ASSUME NEW id
               PROVE  /\ \A kind \in {"create", "delete"} :
                            HistoryEntry(id, kind) \in history'
                            => id \in 0 .. nextId'.pointer - 1
                      /\ id \in DOMAIN pointers'
                         <=> /\ HistoryEntry(id, "create") \in history'
                             /\ HistoryEntry(id, "delete") \notin history'
    BY DEF PointersExplained, HistoryEntry
  <1> DEFINE created == HistoryEntry(id, "create") \in history
             deleted == HistoryEntry(id, "delete") \in history
             adds == id \in DOMAIN plan.putPointers \ DOMAIN pointers
             takes == id \in plan.deletePointers
  <1>1. /\ HistoryEntry(id, "create") \in history' <=> created \/ adds
        /\ HistoryEntry(id, "delete") \in history' <=> deleted \/ takes
    BY DEF Apply, Explains
  <1>2. /\ created \/ deleted => id \in 0 .. nextId.pointer - 1
        /\ id \in DOMAIN pointers <=> created /\ ~ deleted
    BY DEF PointersExplained
  <1>3. /\ nextId.pointer \in Nat /\ nextId'.pointer \in Nat /\ nextId.pointer <= nextId'.pointer
        /\ adds => id \in nextId.pointer .. nextId'.pointer - 1
    BY IdsAfter DEF TablesTyped
  <1>4. takes => id \in DOMAIN pointers
    BY DEF ConstraintsHold
  <1>5. id \in DOMAIN pointers' <=> id \in DOMAIN plan.putPointers \/ (id \in DOMAIN pointers /\ ~ takes)
    BY PointersAfter
  <1>6. ~ (id \in DOMAIN plan.putPointers /\ takes)
    BY DEF Explains
  <1>7. adds => ~ deleted
    BY <1>2, <1>3
  <1>8. adds <=> id \in DOMAIN plan.putPointers /\ id \notin DOMAIN pointers
    OBVIOUS
  <1>9. created \/ deleted \/ adds \/ takes => id \in 0 .. nextId'.pointer - 1
    BY <1>2, <1>3, <1>4
  <1> HIDE DEF created, deleted, adds, takes
  <1> QED
    BY <1>1, <1>2, <1>4, <1>5, <1>6, <1>7, <1>8, <1>9

\* What a plan does to the blocks, it records, and nothing else.
LEMMA ApplyBlocksExplained ==
    ASSUME TablesTyped, BlocksExplained, NEW m, NEW plan, Fits(m, plan), Apply(plan),
           ConstraintsHold(plan), Explains(plan)
    PROVE  BlocksExplained'
  <1> SUFFICES ASSUME NEW b
               PROVE  /\ Came(b, audit') \/ Went(b, audit') => b \in 0 .. nextId'.block - 1
                      /\ b \in DOMAIN blocks' <=> Came(b, audit') /\ ~ Went(b, audit')
    BY DEF BlocksExplained, Came, Went
  <1> DEFINE came == Came(b, audit)
             went == Went(b, audit)
             adds == b \in DOMAIN plan.insertBlocks
             takes == b \in plan.deleteBlocks
  <1>1. audit' = audit \cup plan.audits
    BY DEF Apply
  <1>2. Came(b, audit') <=> came \/ Came(b, plan.audits)
    BY <1>1 DEF Came
  <1>3. Went(b, audit') <=> went \/ Went(b, plan.audits)
    BY <1>1 DEF Went
  <1>4. (Came(b, plan.audits) <=> adds) /\ (Went(b, plan.audits) <=> takes)
    BY DEF Explains
  <1>5. (came \/ went => b \in 0 .. nextId.block - 1) /\ (b \in DOMAIN blocks <=> came /\ ~ went)
    BY DEF BlocksExplained
  <1>6. /\ nextId.block \in Nat /\ nextId'.block \in Nat /\ nextId.block <= nextId'.block
        /\ adds => b \in nextId.block .. nextId'.block - 1
    BY IdsAfter DEF TablesTyped
  <1>7. takes => b \in DOMAIN blocks
    BY DEF ConstraintsHold
  <1>8. b \in DOMAIN blocks' <=> adds \/ (b \in DOMAIN blocks /\ ~ takes)
    BY BlocksAfter
  <1>9. adds => ~ came /\ ~ went
    BY <1>5, <1>6
  <1>10. came \/ went \/ adds \/ takes => b \in 0 .. nextId'.block - 1
    BY <1>5, <1>6, <1>7
  <1> HIDE DEF came, went, adds, takes
  <1> QED
    BY <1>2, <1>3, <1>4, <1>5, <1>7, <1>8, <1>9, <1>10

\* A keyed unit stores a record.
LEMMA RememberTyped ==
    ASSUME IdemTyped, nextId.alloc \in Nat, NEW m \in Mutation, NEW plan, Fits(m, plan),
           NEW at \in Nat, Remember(m, plan, at, TTL)
    PROVE  IdemTyped'
  <1> DEFINE record == [request |-> m, expiresAt |-> at + TTL,
                        response |-> DOMAIN plan.insertAllocs]
  <1>1. record \in Response
    <2>1. at + TTL \in Nat
      BY BoundsAssumption
    <2>2. DOMAIN plan.insertAllocs \subseteq Nat
      <3>1. /\ Cardinality(DOMAIN plan.insertAllocs) \in Nat
            /\ DOMAIN plan.insertAllocs
               \subseteq nextId.alloc .. nextId.alloc + Cardinality(DOMAIN plan.insertAllocs) - 1
        BY DEF Fits, InsertsFit, Fresh
      <3> DEFINE n == Cardinality(DOMAIN plan.insertAllocs)
      <3>2. nextId.alloc .. nextId.alloc + n - 1 \subseteq Nat
        BY <3>1
      <3> QED
        BY <3>1, <3>2
    <2> QED
      BY <2>1, <2>2 DEF Response
  <1> HIDE DEF record
  <1>2. idem' = idem \/ idem' = With(Only(IdemKey(m), record), idem)
    BY DEF Remember, record
  <1>3. \A k \in DOMAIN With(Only(IdemKey(m), record), idem) :
           With(Only(IdemKey(m), record), idem)[k] \in Response
    BY <1>1 DEF With, Only, IdemTyped
  <1> QED
    BY <1>2, <1>3 DEF IdemTyped

\* A key that a unit did not find has no record to be written over.
LEMMA RememberNew ==
    ASSUME IdemTyped, NEW m, NEW v, Current(m, v), ~ Found(m, v),
           NEW plan, NEW at, Remember(m, plan, at, TTL),
           NEW k \in DOMAIN idem
    PROVE  k \in DOMAIN idem' /\ idem'[k] = idem[k]
  <1>1. CASE ~ Keyed(m)
    BY <1>1 DEF Remember
  <1>2. CASE Keyed(m)
    <2>1. ~ Found(m, Snapshot(m)) /\ "idem" \in reads(m)
      BY <1>2, NotFoundNow DEF Keyed, reads, If
    <2>2. IdemRecord(IdemKey(m)) = NULL
      BY <1>2, <2>1 DEF Found, Snapshot, read_one
    <2>3. IdemKey(m) \notin DOMAIN idem
      BY <2>2, ResponsesAssumption DEF IdemRecord, IdemTyped
    <2>4. \E record : idem' = With(Only(IdemKey(m), record), idem)
      BY <1>2 DEF Remember
    <2> QED
      BY <2>3, <2>4 DEF With, Only
  <1> QED
    BY <1>1, <1>2

-----------------------------------------------------------------------------
\* The tables are empty at first.
LEMMA InitTInv == Init => TInv
  <1> SUFFICES ASSUME Init PROVE TInv
    OBVIOUS
  <1>1. /\ DOMAIN blocks = {} /\ DOMAIN allocs = {} /\ DOMAIN pointers = {} /\ DOMAIN idem = {}
        /\ history = {} /\ audit = {}
    BY NoRows DEF Init, TablesInit
  <1> QED
    BY <1>1 DEF TInv, BlocksDisjoint, NoDangling, PointersExplained, BlocksExplained, Came, Went,
                IdemTyped

\* A commit applies a plan that explains itself.
LEMMA CommitTInv ==
    ASSUME AInv, TInv, NEW p \in Procs, Commit(p)
    PROVE  TInv'
  <1> DEFINE m == unit[p]
             v == view[p]
             at == start[p]
  <1>1. /\ UnitOk(m) /\ Current(m, v) /\ Accepts(m, v) /\ at \in Nat
    BY CommitOf
  <1>2. PICK plan \in Plans(m, v, at) :
           ConstraintsHold(plan) /\ Apply(plan) /\ Remember(m, plan, at, TTL) /\ Fits(m, plan)
    BY CommitOf
  <1>3. TablesInv /\ TablesTyped /\ nextId.alloc \in Nat
    BY DEF AInv, IInv, TablesInv, TablesTyped
  <1> HIDE DEF m, v, at
  <1>4. m \in Mutation
    BY <1>1 DEF UnitOk
  <1>5. Explains(plan) /\ KeepsParents(plan) /\ BlocksApart(m, plan)
    BY <1>1, <1>2, <1>3, PlansExplain
  <1>6. BlocksDisjoint'
    BY <1>2, <1>3, <1>5, ApplyBlocksDisjoint DEF TInv
  <1>7. NoDangling'
    BY <1>2, <1>3, <1>5, ApplyNoDangling DEF TInv, ConstraintsHold
  <1>8. PointersExplained'
    BY <1>2, <1>3, <1>5, ApplyPointersExplained DEF TInv
  <1>9. BlocksExplained'
    BY <1>2, <1>3, <1>5, ApplyBlocksExplained DEF TInv
  <1>10. IdemTyped'
    BY <1>1, <1>2, <1>3, <1>4, RememberTyped DEF TInv
  <1> QED
    BY <1>6, <1>7, <1>8, <1>9, <1>10 DEF TInv

\* Every step is a commit, or quiet and without a record of its own.
LEMMA CommitOrQuiet ==
    ASSUME [Next]_vars
    PROVE  \/ \E p \in Procs : Commit(p)
           \/ Quiet /\ UNCHANGED <<history, audit>>
  <1>1. ASSUME UNCHANGED tables PROVE Quiet /\ UNCHANGED <<history, audit>>
    BY <1>1 DEF tables, Quiet
  <1>2. ASSUME NEW p \in Procs,
               \/ \E r \in Requests : Submit(p, r)
               \/ Wait(p) \/ AcquireScope(p) \/ Busy(p) \/ Drop(p)
               \/ Read(p) \/ Replay(p) \/ Reject(p) \/ ConstraintFails(p)
        PROVE  UNCHANGED tables
    BY <1>2 DEF Submit, Wait, Resolve, ResolveFails, Connect, AcquireScope, Busy, Drop,
                Read, Replay, Reject, ConstraintFails
  <1>3. Crash \/ Tick \/ UNCHANGED vars => UNCHANGED tables
    BY DEF Crash, Tick, vars
  <1>4. ASSUME NEW now \in 0 .. clock, ReapIdempotency(now)
        PROVE  Quiet /\ UNCHANGED <<history, audit>>
    BY <1>4 DEF ReapIdempotency, Atomic!ReapIdempotency, Atomic!Restrict, Quiet
  <1> QED
    BY <1>1, <1>2, <1>3, <1>4 DEF Next, Run

\* The invariant is inductive.
LEMMA NextTInv == AInv /\ TInv /\ [Next]_vars => TInv'
  BY CommitOrQuiet, CommitTInv, QuietTInv

\* What holds of the tables in every state.
LEMMA TablesInvariant == Spec => []TInv
  BY InitAInv, NextAInv, InitTInv, NextTInv, PTL DEF Spec

\* A tenant's cidr blocks never overlap: create looks at all of them, and a
\* block that is deleted under another scope can only make room.
THEOREM TenantBlocksDisjoint == Spec => []BlocksDisjoint
  <1>1. TInv => BlocksDisjoint
    BY DEF TInv
  <1> QED
    BY <1>1, TablesInvariant, PTL

\* No pointer and no child is left pointing at an allocation that went away
\* with its block, though the unit that linked to it held another scope.
THEOREM LinksAreKept == Spec => []NoDangling
  <1>1. TInv => NoDangling
    BY DEF TInv
  <1> QED
    BY <1>1, TablesInvariant, PTL

\* The hostname history tells which pointers are there: no run of sets,
\* deletes, rollbacks and crashes loses or doubles an entry.
THEOREM HistoryTells == Spec => []HistoryExplains
  <1>1. TInv => HistoryExplains
    BY DEF TInv, PointersExplained, HistoryExplains
  <1> QED
    BY <1>1, TablesInvariant, PTL

\* The audit trail tells which blocks are there.
THEOREM AuditTells == Spec => []AuditExplains
  <1>1. TInv => AuditExplains
    BY DEF TInv, BlocksExplained, AuditExplains, Came, Went
  <1> QED
    BY <1>1, TablesInvariant, PTL

\* A key's record is never written over while it is there: the response that
\* a retry replays is that of the one run that stored it.
THEOREM ResponsesAreKept == Spec => RecordsKept
  <1> DEFINE Kept == [\A k \in DOMAIN idem \cap DOMAIN idem' : idem'[k] = idem[k]]_vars
  <1>1. ASSUME AInv, TInv, [Next]_vars PROVE Kept
    <2>1. ASSUME NEW p \in Procs, Commit(p), NEW k \in DOMAIN idem
          PROVE  idem'[k] = idem[k]
      <3>1. Current(unit[p], view[p]) /\ ~ Found(unit[p], view[p])
        BY <1>1, <2>1, CommitOf
      <3>2. PICK plan : Remember(unit[p], plan, start[p], TTL)
        BY <1>1, <2>1, CommitOf
      <3> QED
        BY <1>1, <2>1, <3>1, <3>2, RememberNew DEF TInv
    <2>2. ASSUME Quiet, NEW k \in DOMAIN idem' PROVE idem'[k] = idem[k]
      BY <2>2 DEF Quiet
    <2> QED
      BY <1>1, <2>1, <2>2, CommitOrQuiet
  <1> QED
    BY <1>1, InitAInv, NextAInv, TablesInvariant, PTL DEF Spec, RecordsKept
=============================================================================
