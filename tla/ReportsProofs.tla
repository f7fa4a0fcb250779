---------------------------- MODULE ReportsProofs ----------------------------
(***************************************************************************)
(* What calls of several reads answer, for any blocks, allocations and     *)
(* pages, whatever units of others do between the reads.                   *)
(***************************************************************************)
EXTENDS Reports, FiniteSetTheorems, SequenceTheorems, TLAPS

-----------------------------------------------------------------------------
(* Listings in order.                                                       *)

\* Where a row stands in a listing of T.
UpTo(x, T) == {c \in T : c <= x}
Position(x, T) == Cardinality(UpTo(x, T))

\* The later of two rows stands behind the earlier.
LEMMA PositionsGrow ==
    ASSUME NEW T \in SUBSET Nat, IsFiniteSet(T), NEW x \in T, NEW y \in T
    PROVE  /\ Position(x, T) \in 1 .. Cardinality(T)
           /\ x < y => Position(x, T) < Position(y, T)
  <1>1. /\ UpTo(x, T) \in SUBSET T /\ UpTo(y, T) \in SUBSET T
        /\ x \in UpTo(x, T) /\ y \in UpTo(y, T) /\ x \in Nat /\ y \in Nat
    BY DEF UpTo
  <1>2. IsFiniteSet(UpTo(x, T)) /\ IsFiniteSet(UpTo(y, T))
    BY <1>1, FS_Subset
  <1>3. /\ Position(x, T) \in Nat /\ Position(y, T) \in Nat /\ Cardinality(T) \in Nat
        /\ Position(x, T) <= Cardinality(T) /\ Position(x, T) # 0
    BY <1>1, <1>2, FS_Subset, FS_CardinalityType, FS_EmptySet DEF Position
  <1>4. ASSUME x < y PROVE Position(x, T) < Position(y, T)
    <2>1. UpTo(x, T) \in SUBSET UpTo(y, T) /\ y \notin UpTo(x, T)
      <3>1. \A c \in T : c \in Nat
        OBVIOUS
      <3>2. ASSUME NEW c \in UpTo(x, T) PROVE c \in UpTo(y, T)
        BY <1>1, <1>4, <3>1 DEF UpTo
      <3>3. y \notin UpTo(x, T)
        BY <1>1, <1>4 DEF UpTo
      <3> QED
        BY <3>2, <3>3
    <2>2. /\ Cardinality(UpTo(x, T)) <= Cardinality(UpTo(y, T))
          /\ Cardinality(UpTo(x, T)) # Cardinality(UpTo(y, T))
      BY <1>1, <1>2, <2>1, FS_Subset
    <2> QED
      BY <1>3, <2>2 DEF Position
  <1> QED
    BY <1>3, <1>4

Increasing(s, n) == \A i, j \in 1 .. n : i < j => s[i] < s[j]

\* The rows of a finite set can be put in order.
LEMMA OrderExists ==
    ASSUME NEW T \in SUBSET Nat, IsFiniteSet(T)
    PROVE  \E s \in [1 .. Cardinality(T) -> T] : Increasing(s, Cardinality(T))
  <1> DEFINE n == Cardinality(T)
             r == [x \in T |-> Position(x, T)]
             s == [i \in 1 .. n |-> CHOOSE x \in T : r[x] = i]
  <1>1. n \in Nat
    BY FS_CardinalityType
  <1>2. r \in [T -> 1 .. n] /\ \A x, y \in T : x < y => r[x] < r[y]
    BY PositionsGrow
  <1>3. \A x, y \in T : r[x] = r[y] => x = y
    <2>1. \A x \in T : r[x] \in Nat /\ x \in Nat
      BY <1>1, <1>2
    <2> HIDE DEF r
    <2>2. ASSUME NEW x \in T, NEW y \in T, r[x] = r[y] PROVE x = y
      BY <1>2, <2>1, <2>2
    <2> QED
      BY <2>2
  <1>4. r \in Injection(T, 1 .. n)
    BY <1>2, <1>3 DEF Injection, IsInjective
  <1>5. IsFiniteSet(1 .. n) /\ Cardinality(1 .. n) = n
    BY <1>1, FS_Interval
  <1>6. r \in Surjection(T, 1 .. n)
    BY <1>4, <1>5, FS_Injection
  <1>7. \A i \in 1 .. n : \E x \in T : r[x] = i
    BY <1>6 DEF Surjection
  <1>8. \A i \in 1 .. n : s[i] \in T /\ r[s[i]] = i
    BY <1>7
  <1>9. s \in [1 .. n -> T]
    BY <1>7
  <1>10. Increasing(s, n)
    <2> SUFFICES ASSUME NEW i \in 1 .. n, NEW j \in 1 .. n, i < j PROVE s[i] < s[j]
      BY DEF Increasing
    <2>1. s[i] \in T /\ s[j] \in T /\ r[s[i]] = i /\ r[s[j]] = j
      BY <1>8
    <2>2. s[i] \in Nat /\ s[j] \in Nat
      BY <2>1
    <2> HIDE DEF r, s, n
    <2>3. ~ s[j] < s[i]
      <3>1. s[j] < s[i] => r[s[j]] < r[s[i]]
        BY <1>2, <2>1
      <3> QED
        BY <1>1, <2>1, <3>1
    <2>4. s[i] # s[j]
      BY <1>1, <2>1
    <2> QED
      BY <2>2, <2>3, <2>4
  <1> QED
    BY <1>9, <1>10

\* A listing has each row once, in order, and row i stands at i.
LEMMA ListingIsInOrder ==
    ASSUME NEW T \in SUBSET Nat, IsFiniteSet(T)
    PROVE  LET s == InOrder(T)
               n == Cardinality(T)
           IN  /\ n \in Nat /\ s \in [1 .. n -> T] /\ s \in Seq(T) /\ Len(s) = n
               /\ Increasing(s, n)
               /\ \A x \in T : \E i \in 1 .. n : s[i] = x
               /\ \A i \in 1 .. n : Position(s[i], T) = i
  <1> DEFINE n == Cardinality(T)
             s == InOrder(T)
  <1>1. n \in Nat
    BY FS_CardinalityType
  <1>2. s \in [1 .. n -> T] /\ Increasing(s, n)
    BY OrderExists DEF InOrder, Increasing
  <1> HIDE DEF s
  <1>3. s \in Seq(T) /\ Len(s) = n
    BY <1>1, <1>2
  <1>4. \A i \in 1 .. n : s[i] \in Nat /\ s[i] \in T
    BY <1>2
  <1>5. \A i, j \in 1 .. n : s[i] = s[j] => i = j
    BY <1>1, <1>2, <1>4 DEF Increasing
  <1>6. s \in Injection(1 .. n, T)
    BY <1>2, <1>5 DEF Injection, IsInjective
  <1>7. IsFiniteSet(1 .. n) /\ Cardinality(1 .. n) = n
    BY <1>1, FS_Interval
  <1>8. s \in Surjection(1 .. n, T)
    BY <1>6, <1>7, FS_Injection
  <1>9. \A x \in T : \E i \in 1 .. n : s[i] = x
    BY <1>8 DEF Surjection
  <1>10. ASSUME NEW i \in 1 .. n PROVE Position(s[i], T) = i
    <2> DEFINE U == UpTo(s[i], T)
               f == [k \in 1 .. i |-> s[k]]
    <2>1. \A k \in 1 .. i : k \in 1 .. n /\ s[k] \in T /\ s[k] <= s[i]
      <3>1. ASSUME NEW k \in 1 .. i PROVE k \in 1 .. n /\ s[k] \in T /\ s[k] <= s[i]
        BY <1>1, <1>2, <1>4 DEF Increasing
      <3> QED
        BY <3>1
    <2>2. f \in [1 .. i -> U]
      BY <2>1 DEF UpTo
    <2>3. \A k, l \in 1 .. i : f[k] = f[l] => k = l
      BY <1>5, <2>1
    <2>4. ASSUME NEW c \in U PROVE \E k \in 1 .. i : f[k] = c
      <3>1. c \in T /\ c <= s[i]
        BY DEF UpTo
      <3>2. PICK k \in 1 .. n : s[k] = c
        BY <1>9, <3>1
      <3>3. ~ i < k
        BY <1>2, <1>4, <3>1, <3>2 DEF Increasing
      <3>4. k \in 1 .. i
        BY <1>1, <3>2, <3>3
      <3> QED
        BY <3>2, <3>4
    <2>5. f \in Bijection(1 .. i, U)
      BY <2>2, <2>3, <2>4 DEF Bijection, Injection, Surjection, IsInjective
    <2>6. i \in Nat
      BY <1>1
    <2> QED
      BY <2>5, <2>6, FS_CountingElements DEF ExistsBijection, Position
  <1> QED
    BY <1>1, <1>2, <1>3, <1>9, <1>10 DEF s

\* A page of a listing: it has the rows behind the offset, up to the page size,
\* and a short one is the last.
LEMMA PageOfListing ==
    ASSUME NEW T \in SUBSET Nat, IsFiniteSet(T), NEW offset \in Nat
    PROVE  LET page == Page(InOrder(T), offset, PageSize)
           IN  /\ page \in Seq(T)
               /\ \A x \in T : offset < Position(x, T) =>
                     \/ x \in ToSet(page)
                     \/ offset + PageSize < Position(x, T) /\ ~ Len(page) < PageSize
  <1> DEFINE n == Cardinality(T)
             s == InOrder(T)
             end == offset + PageSize
             e == IF end < n THEN end ELSE n
             page == SubSeq(s, offset + 1, e)
  <1>1. /\ n \in Nat /\ s \in Seq(T) /\ Len(s) = n
        /\ \A x \in T : \E i \in 1 .. n : s[i] = x
        /\ \A i \in 1 .. n : Position(s[i], T) = i
    BY ListingIsInOrder
  <1>2. PageSize \in Nat \ {0} /\ page_limit(PageSize) = PageSize
    BY BoundsAssumption, PageAssumption DEF page_limit
  <1>3. Page(s, offset, PageSize) = page
    BY <1>1, <1>2 DEF Page
  <1> HIDE DEF s, n
  <1>4. CASE offset < n
    <2>1. e \in Nat /\ offset + 1 <= e /\ e <= n /\ e <= end
      BY <1>1, <1>2, <1>4
    <2> HIDE DEF e
    <2>2. /\ page \in Seq(T) /\ Len(page) = e - offset
          /\ \A k \in 1 .. e - offset : page[k] = s[offset + k]
      BY <1>1, <1>4, <2>1
    <2> HIDE DEF page
    <2>3. ASSUME NEW x \in T, offset < Position(x, T)
          PROVE  x \in ToSet(page) \/ (end < Position(x, T) /\ ~ Len(page) < PageSize)
      <3>1. PICK i \in 1 .. n : s[i] = x
        BY <1>1
      <3>2. Position(x, T) = i /\ offset < i /\ i <= n
        BY <1>1, <2>3, <3>1
      <3>3. CASE i <= e
        <4>1. i - offset \in 1 .. e - offset /\ offset + (i - offset) = i
          BY <1>1, <2>1, <3>2, <3>3
        <4>2. page[i - offset] = x /\ i - offset \in DOMAIN page
          BY <2>1, <2>2, <3>1, <4>1
        <4> QED
          BY <4>2 DEF ToSet
      <3>4. CASE ~ i <= e
        <4>1. e = end
          BY <1>1, <1>2, <3>2, <3>4 DEF e
        <4> QED
          BY <1>1, <1>2, <2>2, <3>2, <3>4, <4>1
      <3> QED
        BY <3>3, <3>4
    <2> QED
      BY <1>3, <2>2, <2>3 DEF s
  <1>5. CASE ~ offset < n
    <2>1. e \in Nat /\ e <= offset
      BY <1>1, <1>2, <1>5
    <2>2. page = <<>>
      <3>1. offset + 1 \in Int /\ e \in Int /\ e < offset + 1
        BY <2>1
      <3> QED
        BY <3>1, SubSeqEmpty
    <2>3. ASSUME NEW x \in T, offset < Position(x, T) PROVE FALSE
      <3>1. PICK i \in 1 .. n : s[i] = x
        BY <1>1
      <3> QED
        BY <1>1, <1>5, <2>3, <3>1
    <2> HIDE DEF page
    <2>4. page \in Seq(T)
      BY <2>2
    <2> QED
      BY <1>3, <2>3, <2>4 DEF s
  <1> QED
    BY <1>4, <1>5

\* The rows of a listing, and what is left of it behind its first row.
LEMMA ListedRows ==
    ASSUME NEW T \in SUBSET Nat, IsFiniteSet(T)
    PROVE  /\ InOrder(T) \in Seq(T) /\ ToSet(InOrder(T)) = T
           /\ Increasing(InOrder(T), Len(InOrder(T)))
  <1> DEFINE s == InOrder(T)
  <1>1. /\ s \in Seq(T) /\ Len(s) = Cardinality(T) /\ Increasing(s, Cardinality(T))
        /\ \A x \in T : \E i \in 1 .. Cardinality(T) : s[i] = x
    BY ListingIsInOrder
  <1> HIDE DEF s
  <1>2. DOMAIN s = 1 .. Cardinality(T) /\ \A i \in 1 .. Cardinality(T) : s[i] \in T
    BY <1>1
  <1>3. \A x \in ToSet(s) : x \in T
    BY <1>2 DEF ToSet
  <1>4. \A x \in T : x \in ToSet(s)
    BY <1>1, <1>2 DEF ToSet
  <1> QED
    BY <1>1, <1>3, <1>4 DEF s

\* What a step to the next row leaves to do.
LEMMA NextRow ==
    ASSUME NEW S, NEW s \in Seq(S), s # <<>>
    PROVE  /\ Head(s) \in S /\ Tail(s) \in Seq(S)
           /\ ToSet(s) = {Head(s)} \cup ToSet(Tail(s))
  <1>1. /\ Head(s) \in S /\ Tail(s) \in Seq(S) /\ Len(Tail(s)) = Len(s) - 1 /\ Head(s) = s[1]
        /\ \A i \in 1 .. Len(s) - 1 : Tail(s)[i] = s[i + 1]
    BY HeadTailProperties
  <1>2. /\ DOMAIN s = 1 .. Len(s) /\ DOMAIN Tail(s) = 1 .. Len(s) - 1
        /\ Len(s) \in Nat /\ Len(s) # 0
    BY <1>1
  <1>3. ASSUME NEW x \in ToSet(s) PROVE x \in {Head(s)} \cup ToSet(Tail(s))
    <2>1. PICK i \in 1 .. Len(s) : x = s[i]
      BY <1>2 DEF ToSet
    <2>2. CASE i = 1
      BY <1>1, <2>1, <2>2
    <2>3. CASE i # 1
      <3>1. i - 1 \in 1 .. Len(s) - 1 /\ (i - 1) + 1 = i
        BY <1>2, <2>3
      <3>2. Tail(s)[i - 1] = x
        BY <1>1, <2>1, <3>1
      <3> QED
        BY <1>2, <3>1, <3>2 DEF ToSet
    <2> QED
      BY <2>2, <2>3
  <1>4. ASSUME NEW x \in ToSet(Tail(s)) PROVE x \in ToSet(s)
    <2>1. PICK i \in 1 .. Len(s) - 1 : x = Tail(s)[i]
      BY <1>2, <1>4 DEF ToSet
    <2>2. s[i + 1] = x /\ i + 1 \in 1 .. Len(s)
      BY <1>1, <1>2, <2>1
    <2> QED
      BY <1>2, <2>2 DEF ToSet
  <1>5. Head(s) \in ToSet(s)
    BY <1>1, <1>2 DEF ToSet
  <1> QED
    BY <1>1, <1>3, <1>4, <1>5

\* In order, a row is not left to do again.
LEMMA RowIsGone ==
    ASSUME NEW s \in Seq(Nat), s # <<>>, Increasing(s, Len(s))
    PROVE  Head(s) \notin ToSet(Tail(s)) /\ Increasing(Tail(s), Len(Tail(s)))
  <1>1. /\ Tail(s) \in Seq(Nat) /\ Len(Tail(s)) = Len(s) - 1 /\ Head(s) = s[1]
        /\ \A i \in 1 .. Len(s) - 1 : Tail(s)[i] = s[i + 1]
    BY HeadTailProperties
  <1>2. /\ DOMAIN Tail(s) = 1 .. Len(s) - 1 /\ Len(s) \in Nat /\ Len(s) # 0
        /\ \A i \in 1 .. Len(s) : s[i] \in Nat
    BY <1>1
  <1>3. ASSUME NEW i \in 1 .. Len(s) - 1 PROVE Tail(s)[i] # Head(s)
    <2>1. i + 1 \in 1 .. Len(s) /\ 1 \in 1 .. Len(s) /\ 1 < i + 1
      BY <1>2
    <2>2. s[1] < s[i + 1] /\ s[1] \in Nat
      BY <1>2, <2>1 DEF Increasing
    <2> QED
      BY <1>1, <2>2
  <1>4. ASSUME NEW i \in 1 .. Len(s) - 1, NEW j \in 1 .. Len(s) - 1, i < j
        PROVE  Tail(s)[i] < Tail(s)[j]
    <2>1. i + 1 \in 1 .. Len(s) /\ j + 1 \in 1 .. Len(s) /\ i + 1 < j + 1
      BY <1>2, <1>4
    <2>2. s[i + 1] < s[j + 1]
      BY <2>1 DEF Increasing
    <2> QED
      BY <1>1, <2>2
  <1> QED
    BY <1>1, <1>2, <1>3, <1>4 DEF Increasing, ToSet

-----------------------------------------------------------------------------
(* The invariant.                                                           *)

Stages ==
    [utilization |-> {"block", "live", "released", "done"},
     summary |-> {"blocks", "each", "done"}, find |-> {"blocks", "each", "done"},
     dump |-> {"blocks", "allocations", "done"}, release |-> {"resolve", "release", "done"},
     list |-> {"page", "done"}]

\* What a call gathers has its fields.
IsGathered(a) ==
    a = [space |-> a.space, live |-> a.live, todo |-> a.todo, ids |-> a.ids,
         table |-> a.table, offset |-> a.offset, pages |-> a.pages, got |-> a.got]

\* Type correctness of the call.
CallInv ==
    /\ query \in Queries \cup {NULL}
    /\ IF query = NULL THEN pc = "idle" ELSE pc \in Stages[query.kind]
    /\ IsGathered(acc)

\* What the units keep of the store, as TxUnits shows.
StoreInv ==
    /\ blocks \in [BlockIds -> Block \cup {NULL}]
    /\ allocs \in [AllocIds -> Row \cup {NULL}]
    /\ used = [blocks |-> used.blocks, allocs |-> used.allocs]
    /\ IsFiniteSet(used.blocks) /\ used.blocks \subseteq BlockIds /\ Blocks \subseteq used.blocks
    /\ IsFiniteSet(used.allocs) /\ used.allocs \subseteq AllocIds
    /\ \A a \in AllocIds : allocs[a] # NULL =>
          /\ a \in used.allocs /\ blocks[allocs[a].block] # NULL
          /\ allocs[a].ip \in blocks[allocs[a].block]
    /\ \A b, c \in Blocks : b # c => blocks[b] \cap blocks[c] = {}
    /\ \A b \in BlockIds : \A a, c \in With(b, LIVE) : allocs[a].ip = allocs[c].ip => a = c

\* The blocks that were read are as they were, or gone.
SpaceInv ==
    /\ \A b \in DOMAIN acc.space :
          /\ b \in used.blocks /\ acc.space[b] \in Block
          /\ blocks[b] \in {NULL, acc.space[b]}
    /\ \A b, c \in DOMAIN acc.space : b # c => acc.space[b] \cap acc.space[c] = {}

\* What a call has still to look at.
TodoInv ==
    /\ pc = "live" => query.block \in DOMAIN acc.space
    /\ pc = "each" =>
          /\ acc.todo \in Seq(BlockIds) /\ Increasing(acc.todo, Len(acc.todo))
          /\ ToSet(acc.todo) \subseteq DOMAIN acc.space
          /\ ToSet(acc.todo) \cap DOMAIN acc.live = {}
    /\ pc = "release" => acc.todo \in Seq(AllocIds)
    /\ pc = "page" =>
          /\ acc.todo \in Seq(BlockIds) /\ acc.table \in BlockIds \cup {NULL}
          /\ acc.got \in Seq(IF acc.table = NULL THEN BlockIds ELSE AllocIds)
          /\ acc.offset \in Nat
          /\ query.block # NULL => acc.table = query.block /\ acc.todo = <<>>
          /\ acc.table = NULL => acc.todo = <<>> /\ acc.ids = {}

\* Live allocations counted in a block fit into it.
LiveInv ==
    /\ DOMAIN acc.live \subseteq DOMAIN acc.space
    /\ \A b \in DOMAIN acc.live : Cardinality(acc.live[b]) <= Cardinality(acc.space[b])
    /\ pc \notin {"released", "each", "done"} => acc.live = <<>>
    /\ query # NULL /\ query.kind \notin {"utilization", "summary"} => acc.live = <<>>
    /\ query # NULL /\ query.kind = "utilization" /\ pc \in {"released", "done"} =>
          DOMAIN acc.live = {query.block}

\* An address is found once, and not in two blocks.
FoundInv ==
    query # NULL /\ query.kind = "find" =>
        /\ \A a, c \in acc.ids : a = c
        /\ pc = "blocks" => acc.ids = {}
        /\ pc = "each" =>
              \A b \in ToSet(acc.todo) : query.ip \in acc.space[b] => acc.ids = {}

\* What was gathered was so at some instant.
SeenInv ==
    query # NULL =>
        /\ query.kind # "utilization" => acc.ids \subseteq hist.seen
        /\ \A b \in DOMAIN acc.live : acc.live[b] \subseteq hist.seen
        /\ pc = "page" /\ acc.table # NULL => ToSet(acc.got) \subseteq hist.seen

\* A row of the table that is walked was fetched, or is behind the offset.
Fetched(x) == x \in ToSet(acc.got) \/ acc.offset < Position(x, Table(acc.table))

\* What was so all along is in the answer, or still to be looked at.
KeptInv ==
    query # NULL =>
        /\ hist.kept \subseteq Asked(query)
        /\ query.kind = "utilization" /\ pc \in {"released", "done"} =>
              hist.kept \subseteq acc.live[query.block]
        /\ query.kind = "summary" /\ pc \in {"each", "done"} =>
              \A a \in hist.kept :
                 \/ \E b \in DOMAIN acc.live : a \in acc.live[b]
                 \/ pc = "each" /\ allocs[a].block \in ToSet(acc.todo)
        /\ query.kind = "find" /\ pc \in {"each", "done"} =>
              \A a \in hist.kept :
                 a \in acc.ids \/ (pc = "each" /\ allocs[a].block \in ToSet(acc.todo))
        /\ query.kind = "dump" /\ pc = "done" => hist.kept \subseteq acc.ids
        /\ query.kind = "list" /\ ~ hist.left =>
              \A a \in hist.kept :
                 \/ a \in acc.ids
                 \/ /\ pc = "page"
                    /\ \/ acc.table = NULL /\ Fetched(allocs[a].block)
                       \/ acc.table = allocs[a].block /\ Fetched(a)
                       \/ allocs[a].block \in ToSet(acc.todo)

SafeInv == CallInv /\ StoreInv /\ SpaceInv /\ TodoInv /\ LiveInv /\ FoundInv /\ SeenInv
IInv == SafeInv /\ KeptInv

-----------------------------------------------------------------------------
(* Units of others.                                                         *)

\* What a unit may do to what a call has read.
Moves ==
    /\ \A b \in used.blocks : blocks'[b] \in {blocks[b], NULL} /\ b \in used'.blocks
    /\ \A a \in AllocIds : allocs[a] # NULL /\ allocs'[a] # NULL =>
          allocs'[a].block = allocs[a].block /\ allocs'[a].ip = allocs[a].ip

\* A block is created.
LEMMA CreateMoves ==
    ASSUME StoreInv, NEW b \in BlockIds, CreateBlock(b)
    PROVE  StoreInv' /\ Moves
  <1>1. PICK row \in Block :
           /\ \A c \in Blocks : blocks[c] \cap row = {}
           /\ blocks' = [blocks EXCEPT ![b] = row]
    BY DEF CreateBlock
  <1>2. /\ used' = [blocks |-> used.blocks \cup {b}, allocs |-> used.allocs]
        /\ allocs' = allocs /\ b \notin used.blocks
    BY DEF CreateBlock, StoreInv
  <1>3. row # NULL /\ b \notin Blocks
    BY <1>2, NullAssumption DEF StoreInv
  <1>4. Blocks' = Blocks \cup {b} /\ \A c \in Blocks : blocks'[c] = blocks[c]
    BY <1>1, <1>3 DEF StoreInv, Blocks
  <1>5. \A c, d \in Blocks' : c # d => blocks'[c] \cap blocks'[d] = {}
    <2>1. blocks'[b] = row
      BY <1>1 DEF StoreInv
    <2>2. \A c, d \in Blocks : c # d => blocks[c] \cap blocks[d] = {}
      BY DEF StoreInv
    <2> QED
      BY <1>1, <1>4, <2>1, <2>2
  <1>6. \A a \in AllocIds : allocs'[a] # NULL =>
           /\ a \in used'.allocs /\ blocks'[allocs'[a].block] # NULL
           /\ allocs'[a].ip \in blocks'[allocs'[a].block]
    <2>1. \A a \in AllocIds : allocs[a] # NULL => allocs[a].block \in Blocks
      BY DEF StoreInv, Blocks, Row
    <2> QED
      BY <1>2, <1>4, <2>1 DEF StoreInv, Blocks
  <1>7. \A c \in BlockIds : With(c, LIVE)' = With(c, LIVE)
    BY <1>2 DEF With
  <1>8. IsFiniteSet(used.blocks \cup {b})
    BY FS_AddElement DEF StoreInv
  <1>9. Moves
    BY <1>1, <1>2 DEF Moves, StoreInv
  <1> QED
    BY <1>1, <1>2, <1>4, <1>5, <1>6, <1>7, <1>8, <1>9 DEF StoreInv

\* A block is deleted, with its released allocations.
LEMMA DeleteMoves ==
    ASSUME StoreInv, NEW b \in BlockIds, DeleteBlock(b)
    PROVE  StoreInv' /\ Moves
  <1>1. /\ blocks' = [blocks EXCEPT ![b] = NULL] /\ used' = used
        /\ \A a \in AllocIds :
              allocs'[a] = IF allocs[a] # NULL /\ allocs[a].block = b THEN NULL ELSE allocs[a]
        /\ allocs' \in [AllocIds -> Row \cup {NULL}]
    BY DEF DeleteBlock, StoreInv
  <1>2. Blocks' = Blocks \ {b} /\ \A c \in Blocks' : blocks'[c] = blocks[c]
    BY <1>1 DEF StoreInv, Blocks
  <1>3. \A a \in AllocIds : allocs'[a] # NULL => allocs[a] # NULL /\ allocs'[a] = allocs[a]
                                                 /\ allocs[a].block # b
    BY <1>1
  <1>4. \A a \in AllocIds : allocs'[a] # NULL =>
           /\ a \in used'.allocs /\ blocks'[allocs'[a].block] # NULL
           /\ allocs'[a].ip \in blocks'[allocs'[a].block]
    BY <1>1, <1>3 DEF StoreInv, Row
  <1>5. \A c \in BlockIds : With(c, LIVE)' \subseteq With(c, LIVE)
    BY <1>3 DEF With
  <1>6. \A c \in BlockIds : \A a, d \in With(c, LIVE)' : allocs'[a].ip = allocs'[d].ip => a = d
    <2>1. \A c \in BlockIds : \A a \in With(c, LIVE)' :
             allocs'[a] = allocs[a] /\ a \in With(c, LIVE)
      BY <1>3, <1>5 DEF With
    <2> QED
      BY <2>1 DEF StoreInv
  <1>7. Moves
    BY <1>1, <1>3 DEF Moves, StoreInv
  <1>8. blocks' \in [BlockIds -> Block \cup {NULL}]
    BY <1>1 DEF StoreInv
  <1> QED
    BY <1>1, <1>2, <1>4, <1>6, <1>7, <1>8 DEF StoreInv

\* An address is allocated.
LEMMA AllocateMoves ==
    ASSUME StoreInv, NEW a \in AllocIds, Allocate(a)
    PROVE  StoreInv' /\ Moves
  <1>1. PICK row \in Row :
           /\ row.block \in Blocks /\ Free(row.block, row.ip)
           /\ allocs' = [allocs EXCEPT ![a] = row]
    BY DEF Allocate
  <1>2. /\ used' = [blocks |-> used.blocks, allocs |-> used.allocs \cup {a}]
        /\ blocks' = blocks /\ allocs[a] = NULL
    BY DEF Allocate, StoreInv
  <1>3. row # NULL /\ allocs'[a] = row /\ \A c \in AllocIds \ {a} : allocs'[c] = allocs[c]
    BY <1>1, NullAssumption DEF StoreInv
  <1>4. \A c \in AllocIds : allocs'[c] # NULL =>
           /\ c \in used'.allocs /\ blocks'[allocs'[c].block] # NULL
           /\ allocs'[c].ip \in blocks'[allocs'[c].block]
    BY <1>1, <1>2, <1>3 DEF StoreInv, Free, Blocks
  <1>5. \A b \in BlockIds : \A c \in With(b, LIVE)' :
           IF c = a THEN b = row.block ELSE c \in With(b, LIVE) /\ allocs'[c] = allocs[c]
    BY <1>3 DEF With
  <1>6. \A b \in BlockIds : \A c, d \in With(b, LIVE)' : allocs'[c].ip = allocs'[d].ip => c = d
    <2>1. \A d \in With(row.block, LIVE) : allocs[d].ip # row.ip
      BY <1>1 DEF Free
    <2>2. \A b \in BlockIds : \A c, d \in With(b, LIVE) : allocs[c].ip = allocs[d].ip => c = d
      BY DEF StoreInv
    <2> QED
      BY <1>3, <1>5, <2>1, <2>2
  <1>7. Moves
    BY <1>2, <1>3 DEF Moves, StoreInv
  <1>8. Blocks' = Blocks /\ allocs' \in [AllocIds -> Row \cup {NULL}]
    BY <1>1, <1>2 DEF StoreInv, Blocks
  <1>9. IsFiniteSet(used.allocs \cup {a})
    BY FS_AddElement DEF StoreInv
  <1> QED
    BY <1>2, <1>4, <1>6, <1>7, <1>8, <1>9 DEF StoreInv

\* A released address can be live again when nobody has it.
MayBe(a, status) ==
    status \in LIVE /\ allocs[a].status = "released" => Free(allocs[a].block, allocs[a].ip)

\* The status of an allocation is set, as an update or a release does.
LEMMA StatusMoves ==
    ASSUME StoreInv, NEW a \in AllocIds, allocs[a] # NULL, NEW status \in Statuses,
           MayBe(a, status), allocs' = [allocs EXCEPT ![a].status = status],
           UNCHANGED <<blocks, used>>
    PROVE  /\ StoreInv' /\ Moves
           /\ allocs'[a] # NULL /\ allocs'[a].status = status
           /\ \A c \in AllocIds \ {a} : allocs'[c] = allocs[c]
  <1>1. allocs[a] \in Row
    BY DEF StoreInv
  <1>2. /\ allocs'[a] \in Row /\ allocs'[a].status = status
        /\ allocs'[a].block = allocs[a].block /\ allocs'[a].ip = allocs[a].ip
        /\ \A c \in AllocIds \ {a} : allocs'[c] = allocs[c]
        /\ allocs' \in [AllocIds -> Row \cup {NULL}]
    BY <1>1 DEF StoreInv, Row
  <1>3. allocs'[a] # NULL
    BY <1>2, NullAssumption
  <1>4. \A c \in AllocIds : allocs'[c] # NULL =>
           /\ c \in used'.allocs /\ blocks'[allocs'[c].block] # NULL
           /\ allocs'[c].ip \in blocks'[allocs'[c].block]
    BY <1>2 DEF StoreInv
  <1>5. \A b \in BlockIds : \A c \in With(b, LIVE)' :
           IF c = a THEN b = allocs[a].block /\ status \in LIVE
           ELSE c \in With(b, LIVE) /\ allocs'[c] = allocs[c]
    BY <1>2 DEF With
  <1>6. \A b \in BlockIds : \A c, d \in With(b, LIVE)' : allocs'[c].ip = allocs'[d].ip => c = d
    <2>1. \A b \in BlockIds : \A c, d \in With(b, LIVE) : allocs[c].ip = allocs[d].ip => c = d
      BY DEF StoreInv
    <2>2. CASE allocs[a].status = "released"
      <3>1. status \in LIVE => \A d \in With(allocs[a].block, LIVE) : allocs[d].ip # allocs[a].ip
        BY <2>2 DEF Free, MayBe
      <3> QED
        BY <1>2, <1>5, <2>1, <3>1
    <2>3. CASE allocs[a].status # "released"
      <3>1. a \in With(allocs[a].block, LIVE)
        BY <1>1, <2>3 DEF With, Row, Statuses, LIVE
      <3> QED
        BY <1>2, <1>5, <2>1, <3>1
    <2> QED
      BY <2>2, <2>3
  <1>7. Moves
    BY <1>2 DEF Moves, StoreInv
  <1>8. Blocks' = Blocks
    BY DEF Blocks
  <1> QED
    BY <1>2, <1>3, <1>4, <1>6, <1>7, <1>8 DEF StoreInv

\* An update of an allocation's status.
LEMMA UpdateMoves ==
    ASSUME StoreInv, NEW a \in AllocIds, NEW status \in Statuses, Update(a, status)
    PROVE  StoreInv' /\ Moves
  <1> DEFINE Change == allocs' = [allocs EXCEPT ![a].status = status]
  <1>1. allocs[a] # NULL
    BY DEF Update
  <1>2. MayBe(a, status)
    BY DEF Update, MayBe
  <1>3. Change
    BY DEF Update
  <1>4. UNCHANGED <<blocks, used>>
    BY DEF Update
  <1> QED
    BY <1>1, <1>2, <1>3, <1>4, StatusMoves

\* Nothing moves.
LEMMA StillMoves ==
    ASSUME StoreInv, UNCHANGED store
    PROVE  StoreInv' /\ Moves
  <1>1. Moves
    BY DEF Moves, StoreInv, store
  <1>2. /\ Blocks' = Blocks /\ \A b \in BlockIds : With(b, LIVE)' = With(b, LIVE)
    BY DEF Blocks, With, store
  <1> QED
    BY <1>1, <1>2 DEF StoreInv, store

-----------------------------------------------------------------------------
(* What a call is about.                                                    *)

IsLive(a) == allocs[a] # NULL /\ allocs[a].status \in LIVE

\* Each kind of call asks for allocations of its own.
Asking ==
    /\ query.kind = "utilization" => Asked(query) = With(query.block, LIVE)
    /\ query.kind = "summary" => Asked(query) = {a \in AllocIds : IsLive(a)}
    /\ query.kind = "find" =>
          Asked(query) = {a \in AllocIds : IsLive(a) /\ allocs[a].ip = query.ip}
    /\ query.kind = "dump" => Asked(query) = {a \in AllocIds : allocs[a] # NULL}
    /\ query.kind = "release" => Asked(query) = {a \in AllocIds : ~ IsLive(a)}
    /\ query.kind = "list" =>
          Asked(query) = {a \in AllocIds : /\ allocs[a] # NULL /\ allocs[a].status \in query.status
                                           /\ query.block \in {NULL, allocs[a].block}}

\* Rows are of blocks there are, of a status there is.
LEMMA RowsOfBlocks ==
    StoreInv => \A a \in AllocIds : allocs[a] # NULL =>
        allocs[a].block \in Blocks /\ allocs[a].block \in BlockIds
        /\ allocs[a].status \in Statuses
  BY DEF StoreInv, Blocks, Row

\* The allocations a call asks for, by their rows.
LEMMA AskedIs == StoreInv /\ query \in Query => Asking
  <1> SUFFICES ASSUME StoreInv, query \in Query PROVE Asking
    OBVIOUS
  <1>1. \A a \in AllocIds : allocs[a] # NULL =>
           allocs[a].block \in Blocks /\ allocs[a].status \in Statuses
    BY RowsOfBlocks
  <1>2. UNION {With(b, LIVE) : b \in Blocks} = {a \in AllocIds : IsLive(a)}
    BY <1>1 DEF With, IsLive
  <1>3. UNION {With(b, Statuses) : b \in Blocks} = {a \in AllocIds : allocs[a] # NULL}
    BY <1>1 DEF With
  <1>4. query.kind = "list" =>
           Asked(query) = {a \in AllocIds : /\ allocs[a] # NULL /\ allocs[a].status \in query.status
                                            /\ query.block \in {NULL, allocs[a].block}}
    <2> SUFFICES ASSUME query.kind = "list"
                 PROVE  UNION {With(b, query.status) :
                                  b \in IF query.block = NULL THEN Blocks ELSE {query.block}}
                        = {a \in AllocIds : /\ allocs[a] # NULL /\ allocs[a].status \in query.status
                                            /\ query.block \in {NULL, allocs[a].block}}
      BY DEF Asked
    <2> QED
      BY <1>1 DEF With
  <1>5. query.kind = "find" =>
           Asked(query) = {a \in AllocIds : IsLive(a) /\ allocs[a].ip = query.ip}
    BY <1>2 DEF Asked
  <1>6. query.kind = "release" => Asked(query) = {a \in AllocIds : ~ IsLive(a)}
    BY <1>2 DEF Asked
  <1> QED
    BY <1>2, <1>3, <1>4, <1>5, <1>6 DEF Asked, Asking

\* So after a step.
LEMMA AskedWillBe == (StoreInv /\ query \in Query => Asking)'
  BY AskedIs, PTL

\* While a call goes on it gathers what was so.
LEMMA ObserveRule ==
    ASSUME query # NULL, query' = query, Observe
    PROVE  /\ hist'.kept = hist.kept \cap Asked(query)'
           /\ hist'.seen = hist.seen \cup Asked(query)'
           /\ hist'.left = (hist.left \/ (query.kind = "list" /\
                 (~ Asked(query) \subseteq Asked(query)' \/ ~ Blocks \subseteq Blocks')))
  BY DEF Observe

\* A longer listing has a row no earlier.
LEMMA PositionsOnlyGrow ==
    ASSUME NEW S, NEW T, IsFiniteSet(T), S \subseteq T, NEW x
    PROVE  Position(x, S) <= Position(x, T)
           /\ Position(x, S) \in Nat /\ Position(x, T) \in Nat
  <1>1. UpTo(x, S) \in SUBSET UpTo(x, T) /\ UpTo(x, T) \in SUBSET T
    BY DEF UpTo
  <1>2. IsFiniteSet(UpTo(x, T))
    BY <1>1, FS_Subset
  <1> QED
    BY <1>1, <1>2, FS_Subset, FS_CardinalityType DEF Position

TablesAreFinite ==
    \A t : /\ IsFiniteSet(Table(t)) /\ Table(t) \subseteq Nat
          /\ Table(t) \subseteq (IF t = NULL THEN BlockIds ELSE AllocIds)

\* Listings are finite.
LEMMA ListingsAreFinite == StoreInv => TablesAreFinite
  <1> SUFFICES ASSUME StoreInv, NEW t
               PROVE  /\ IsFiniteSet(Table(t)) /\ Table(t) \subseteq Nat
                      /\ Table(t) \subseteq (IF t = NULL THEN BlockIds ELSE AllocIds)
    BY DEF TablesAreFinite
  <1>1. Blocks \in SUBSET used.blocks /\ With(t, query.status) \in SUBSET used.allocs
    BY DEF StoreInv, With
  <1>2. IsFiniteSet(Blocks) /\ IsFiniteSet(With(t, query.status))
    BY <1>1, FS_Subset DEF StoreInv
  <1> QED
    BY <1>2, IdsAssumption DEF Table, Blocks, With

\* And after a step.
LEMMA ListingsWillBeFinite == (StoreInv => TablesAreFinite)'
  BY ListingsAreFinite, PTL

\* A unit of others leaves what a call gathered as sound as it was.
LEMMA OthersSafe ==
    ASSUME SafeInv, StoreInv', Moves, UNCHANGED <<pc, query, acc>>, Observe
    PROVE  SafeInv'
  <1>1. CallInv' /\ LiveInv' /\ FoundInv'
    BY DEF SafeInv, CallInv, LiveInv, FoundInv
  <1>2. SpaceInv'
    BY DEF SafeInv, SpaceInv, Moves
  <1>3. TodoInv'
    BY DEF SafeInv, TodoInv
  <1>4. SeenInv'
    BY ObserveRule DEF SafeInv, SeenInv
  <1> QED
    BY <1>1, <1>2, <1>3, <1>4 DEF SafeInv

\* And it misses no more than it did.
LEMMA OthersKept ==
    ASSUME SafeInv, KeptInv, StoreInv', Moves, UNCHANGED <<pc, query, acc>>, Observe
    PROVE  KeptInv'
  <1> SUFFICES ASSUME query # NULL PROVE KeptInv'
    BY DEF KeptInv
  <1>1. query \in Query
    BY QueriesAssumption DEF SafeInv, CallInv
  <1>2. /\ hist'.kept = hist.kept \cap Asked(query)'
        /\ hist'.left = (hist.left \/ (query.kind = "list" /\
              (~ Asked(query) \subseteq Asked(query)' \/ ~ Blocks \subseteq Blocks')))
    BY ObserveRule
  <1>3. hist.kept \subseteq Asked(query)
    BY DEF KeptInv
  <1>4. Asking /\ Asking'
    BY <1>1, AskedIs, AskedWillBe DEF SafeInv
  <1>5. query.kind # "release" => \A a \in hist'.kept :
           /\ a \in hist.kept /\ a \in AllocIds /\ allocs[a] # NULL
           /\ allocs'[a].block = allocs[a].block
    <2> SUFFICES ASSUME query.kind # "release", NEW a \in hist'.kept
                 PROVE  /\ a \in hist.kept /\ a \in AllocIds /\ allocs[a] # NULL
                        /\ allocs'[a].block = allocs[a].block
      OBVIOUS
    <2>1. a \in hist.kept /\ a \in Asked(query) /\ a \in Asked(query)'
      BY <1>2, <1>3
    <2>2. query.kind \in {"utilization", "summary", "find", "dump", "list"}
      BY <1>1 DEF Query
    <2>3. a \in AllocIds /\ allocs[a] # NULL
      BY <1>4, <2>1, <2>2 DEF Asking, IsLive, With
    <2>4. allocs'[a] # NULL
      BY <1>4, <2>1, <2>2 DEF Asking, IsLive, With
    <2> QED
      BY <2>1, <2>3, <2>4 DEF Moves
  <1>6. query.kind = "list" /\ pc = "page" /\ ~ hist'.left =>
           \A x : Fetched(x) => Fetched(x)'
    <2> SUFFICES ASSUME query.kind = "list", pc = "page", ~ hist'.left, NEW x, Fetched(x)
                 PROVE  Fetched(x)'
      OBVIOUS
    <2>1. Asked(query) \subseteq Asked(query)' /\ Blocks \subseteq Blocks'
      BY <1>2
    <2>2. acc.table = NULL => Table(acc.table) \subseteq Table(acc.table)'
      BY <2>1 DEF Table
    <2>3. acc.table # NULL => Table(acc.table) \subseteq Table(acc.table)'
      <3> SUFFICES ASSUME acc.table # NULL, NEW a \in With(acc.table, query.status)
                   PROVE  a \in With(acc.table, query.status)'
        BY DEF Table
      <3>1. query.block \in {NULL, acc.table}
        BY DEF SafeInv, TodoInv
      <3>2. a \in Asked(query)
        BY <1>4, <3>1 DEF Asking, With
      <3>3. a \in Asked(query)'
        BY <2>1, <3>2
      <3>4. a \in AllocIds /\ allocs'[a] # NULL /\ allocs'[a].status \in query.status
        BY <1>4, <3>3 DEF Asking
      <3> QED
        BY <3>4 DEF With, Moves
    <2>4. Table(acc.table) \subseteq Table(acc.table)'
      BY <2>2, <2>3
    <2>5. IsFiniteSet(Table(acc.table)')
      BY ListingsWillBeFinite DEF TablesAreFinite
    <2>6. Position(x, Table(acc.table)) <= Position(x, Table(acc.table)')
          /\ Position(x, Table(acc.table)) \in Nat /\ Position(x, Table(acc.table)') \in Nat
      BY <2>4, <2>5, PositionsOnlyGrow
    <2>7. acc.offset \in Nat
      BY DEF SafeInv, TodoInv
    <2> QED
      BY <2>6, <2>7 DEF Fetched
  <1>7. hist'.kept \subseteq Asked(query)' /\ hist'.kept \subseteq hist.kept
    BY <1>2
  <1>8. query.kind = "list" /\ ~ hist'.left =>
           ~ hist.left /\ \A a \in hist'.kept :
                 \/ a \in acc.ids
                 \/ /\ pc = "page"
                    /\ \/ acc.table = NULL /\ Fetched(allocs[a].block)'
                       \/ acc.table = allocs[a].block /\ Fetched(a)'
                       \/ allocs[a].block \in ToSet(acc.todo)
    BY <1>2, <1>5, <1>6 DEF KeptInv
  <1>9. query.kind = "utilization" /\ pc \in {"released", "done"} =>
           hist'.kept \subseteq acc.live[query.block]
    BY <1>7 DEF KeptInv
  <1>10. query.kind = "summary" /\ pc \in {"each", "done"} =>
           \A a \in hist'.kept :
              \/ \E b \in DOMAIN acc.live : a \in acc.live[b]
              \/ pc = "each" /\ allocs'[a].block \in ToSet(acc.todo)
    BY <1>5 DEF KeptInv
  <1>11. query.kind = "find" /\ pc \in {"each", "done"} =>
           \A a \in hist'.kept :
              a \in acc.ids \/ (pc = "each" /\ allocs'[a].block \in ToSet(acc.todo))
    BY <1>5 DEF KeptInv
  <1>12. query.kind = "dump" /\ pc = "done" => hist'.kept \subseteq acc.ids
    BY <1>7 DEF KeptInv
  <1>13. query.kind = "list" /\ ~ hist'.left =>
           \A a \in hist'.kept :
                 \/ a \in acc.ids
                 \/ /\ pc = "page"
                    /\ \/ acc.table = NULL /\ Fetched(allocs[a].block)'
                       \/ acc.table = allocs'[a].block /\ Fetched(a)'
                       \/ allocs'[a].block \in ToSet(acc.todo)
    <2> SUFFICES ASSUME query.kind = "list", ~ hist'.left, NEW a \in hist'.kept,
                        a \notin acc.ids
                 PROVE  /\ pc = "page"
                        /\ \/ acc.table = NULL /\ Fetched(allocs[a].block)'
                           \/ acc.table = allocs'[a].block /\ Fetched(a)'
                           \/ allocs'[a].block \in ToSet(acc.todo)
      OBVIOUS
    <2>1. allocs'[a].block = allocs[a].block
      BY <1>5
    <2> QED
      BY <1>8, <2>1
  <1> QED
    BY <1>7, <1>9, <1>10, <1>11, <1>12, <1>13 DEF KeptInv

-----------------------------------------------------------------------------
(* The steps of a call.                                                     *)

\* Live allocations of a block have addresses of their own in it.
LEMMA LiveFits ==
    ASSUME StoreInv, NEW b \in BlockIds, NEW row \in Block, blocks[b] \in {NULL, row}
    PROVE  Cardinality(With(b, LIVE)) <= Cardinality(row)
  <1> DEFINE f == [a \in With(b, LIVE) |-> allocs[a].ip]
  <1>1. row \in SUBSET Addresses
    BY DEF Block
  <1>2. IsFiniteSet(row)
    BY <1>1, AddressesAssumption, FS_Subset
  <1>3. \A a \in With(b, LIVE) : allocs[a].ip \in row
    BY DEF With, StoreInv
  <1>4. \A a, c \in With(b, LIVE) : f[a] = f[c] => a = c
    BY DEF StoreInv
  <1>5. f \in Injection(With(b, LIVE), row)
    BY <1>3, <1>4 DEF Injection, IsInjective
  <1> QED
    BY <1>2, <1>5, FS_Injection

\* Where a call is says what it is.
LEMMA KindOf ==
    ASSUME SafeInv, pc # "idle"
    PROVE  /\ query # NULL /\ query \in Query /\ query \in Queries
           /\ query.kind \in {"utilization", "summary", "find", "dump", "release", "list"}
           /\ pc \in {"block", "live", "released"} => query.kind = "utilization"
           /\ pc = "blocks" => query.kind \in {"summary", "find", "dump"}
           /\ pc = "each" => query.kind \in {"summary", "find"}
           /\ pc = "allocations" => query.kind = "dump"
           /\ pc \in {"resolve", "release"} => query.kind = "release"
           /\ pc = "page" => query.kind = "list"
  <1>1. query # NULL /\ query \in Query /\ query \in Queries
    BY QueriesAssumption, NullAssumption DEF SafeInv, CallInv
  <1>2. query.kind \in {"utilization", "summary", "find", "dump", "release", "list"}
    BY <1>1 DEF Query
  <1>3. pc \in Stages[query.kind]
    BY <1>1 DEF SafeInv, CallInv
  <1> QED
    BY <1>1, <1>2, <1>3 DEF Stages

\* A read changes nothing of the store, and nothing that was so stops being so.
LEMMA ReadRule ==
    ASSUME SafeInv, pc # "idle", UNCHANGED store, query' = query, Observe
    PROVE  /\ StoreInv' /\ Asking /\ Asked(query)' = Asked(query)
           /\ hist'.seen = hist.seen \cup Asked(query)
           /\ hist'.kept = hist.kept \cap Asked(query)
           /\ hist'.left => hist.left
           /\ acc'.space = acc.space => SpaceInv'
           /\ \A t : Table(t)' = Table(t)
           /\ (acc'.table = acc.table /\ acc'.got = acc.got /\ acc'.offset = acc.offset) =>
                 \A x : Fetched(x)' = Fetched(x)
           /\ hist.left => hist'.left
  <1>1. StoreInv'
    BY StillMoves DEF SafeInv
  <1>2. query # NULL /\ query \in Query
    BY KindOf
  <1>3. Blocks' = Blocks /\ \A b, s : With(b, s)' = With(b, s)
    BY DEF Blocks, With, store
  <1>4. Asked(query)' = Asked(query)
    BY <1>3 DEF Asked, store
  <1>5. SpaceInv /\ acc'.space = acc.space => SpaceInv'
    BY DEF SpaceInv, store
  <1>6. \A t : Table(t)' = Table(t)
    BY <1>3 DEF Table
  <1>7. (acc'.table = acc.table /\ acc'.got = acc.got /\ acc'.offset = acc.offset) =>
                 \A x : Fetched(x)' = Fetched(x)
    BY <1>6 DEF Fetched, Position, UpTo
  <1> QED
    BY <1>1, <1>2, <1>3, <1>4, <1>5, <1>6, <1>7, ObserveRule, AskedIs DEF SafeInv

\* The store and the call at the start.
LEMMA InitIInv == Init => IInv
  <1> SUFFICES ASSUME Init PROVE IInv
    OBVIOUS
  <1>1. StoreInv
    <2>1. Blocks = {} /\ \A b \in BlockIds : With(b, LIVE) = {}
      BY DEF Init, Blocks, With
    <2> QED
      BY <2>1, FS_EmptySet DEF Init, StoreInv
  <1>2. CallInv
    BY DEF Init, CallInv, Empty, IsGathered
  <1>3. SpaceInv /\ TodoInv /\ LiveInv
    BY DEF Init, SpaceInv, TodoInv, LiveInv, Empty
  <1>4. FoundInv /\ SeenInv /\ KeptInv
    BY DEF Init, FoundInv, SeenInv, KeptInv
  <1> QED
    BY <1>1, <1>2, <1>3, <1>4 DEF IInv, SafeInv

\* A call begins.
LEMMA CallStep ==
    ASSUME IInv, NEW q \in Queries, Call(q)
    PROVE  IInv'
  <1>1. q # NULL /\ q \in Query /\ query = NULL /\ query' = q
    <2>1. q # NULL /\ q \in Query /\ pc = "idle" /\ query' = q
      BY QueriesAssumption, NullAssumption DEF Call
    <2>2. ASSUME query # NULL PROVE FALSE
      <3>1. query \in Query /\ pc \in Stages[query.kind]
        BY <2>2, QueriesAssumption DEF IInv, SafeInv, CallInv
      <3>2. query.kind \in {"utilization", "summary", "find", "dump", "release", "list"}
        BY <3>1 DEF Query
      <3> QED
        BY <2>1, <3>1, <3>2 DEF Stages
    <2> QED
      BY <2>1, <2>2
  <1>2. q.kind \in {"utilization", "summary", "find", "dump", "release", "list"}
        /\ q.block \in BlockIds \cup {NULL}
    BY <1>1 DEF Query
  <1>3. /\ acc'.space = <<>> /\ acc'.live = <<>> /\ acc'.todo = <<>> /\ acc'.ids = {}
        /\ acc'.offset = 0 /\ acc'.got = <<>>
        /\ acc'.table = (IF q.kind = "list" THEN q.block ELSE NULL)
    BY DEF Call, Empty
  <1>4. CallInv'
    <2>1. IsGathered(acc')
      BY DEF Call, Empty, IsGathered
    <2>2. pc' \in Stages[q.kind]
      BY <1>2 DEF Call, first_read, Stages
    <2> QED
      BY <1>1, <2>1, <2>2 DEF CallInv
  <1>5. StoreInv'
    BY StillMoves DEF IInv, SafeInv, Call
  <1>6. pc' \in {"block", "blocks", "resolve", "page"} /\ (pc' = "page" => q.kind = "list")
    BY <1>2 DEF Call, first_read
  <1>7. SpaceInv' /\ LiveInv'
    BY <1>3, <1>6 DEF SpaceInv, LiveInv
  <1>8. TodoInv'
    BY <1>1, <1>2, <1>3, <1>6 DEF TodoInv
  <1>9. FoundInv' /\ SeenInv'
    BY <1>3, <1>6 DEF FoundInv, SeenInv, ToSet
  <1>10. hist'.kept = Asked(query)' /\ ~ hist'.left
    BY <1>1 DEF Call, Observe
  <1>11. q.kind = "list" => pc' = "page"
    BY DEF Call, first_read
  <1>12. KeptInv'
    <2>1. query' \in Query /\ Asking'
      BY <1>1, <1>5, AskedWillBe
    <2>2. ASSUME q.kind = "list", NEW a \in hist'.kept
          PROVE  \/ acc'.table = NULL /\ Fetched(allocs[a].block)'
                 \/ acc'.table = allocs'[a].block /\ Fetched(a)'
      <3>1. a \in AllocIds /\ allocs'[a] # NULL /\ allocs'[a].status \in q.status
            /\ q.block \in {NULL, allocs'[a].block}
        BY <1>1, <1>10, <2>1, <2>2 DEF Asking
      <3>2. TablesAreFinite'
        BY <1>5, ListingsWillBeFinite
      <3>3. allocs'[a].block \in Blocks'
        BY <1>5, <3>1 DEF StoreInv, Blocks, Row
      <3>4. CASE q.block = NULL
        <4>1. /\ IsFiniteSet(Table(acc.table)') /\ Table(acc.table)' \in SUBSET Nat
              /\ acc'.table = NULL /\ Table(acc.table)' = Blocks'
          BY <1>3, <2>2, <3>2, <3>4 DEF TablesAreFinite, Table
        <4>2. Position(allocs'[a].block, Table(acc.table)') \in 1 .. Cardinality(Table(acc.table)')
          BY <3>3, <4>1, PositionsGrow
        <4>3. IsFiniteSet(Table(acc.table)')
          BY <4>1
        <4> QED
          BY <1>3, <4>1, <4>2, FS_CardinalityType DEF Fetched
      <3>5. CASE q.block # NULL
        <4>1. /\ IsFiniteSet(Table(acc.table)') /\ Table(acc.table)' \in SUBSET Nat
              /\ acc'.table = allocs'[a].block /\ a \in Table(acc.table)'
          BY <1>1, <1>3, <2>2, <3>1, <3>2, <3>5 DEF TablesAreFinite, Table, With
        <4>2. Position(a, Table(acc.table)') \in 1 .. Cardinality(Table(acc.table)')
          BY <4>1, PositionsGrow
        <4> QED
          BY <1>3, <4>1, <4>2, FS_CardinalityType DEF Fetched
      <3> QED
        BY <3>4, <3>5
    <2> QED
      BY <1>1, <1>6, <1>10, <1>11, <2>2 DEF KeptInv
  <1> QED
    BY <1>4, <1>5, <1>7, <1>8, <1>9, <1>12 DEF IInv, SafeInv

\* A call ends.
LEMMA ReturnStep ==
    ASSUME IInv, Return
    PROVE  IInv'
  <1>1. StoreInv' /\ query' = NULL /\ pc' = "idle" /\ acc' = Empty
    BY StillMoves DEF Return, IInv, SafeInv
  <1> QED
    BY <1>1 DEF IInv, SafeInv, CallInv, SpaceInv, TodoInv, LiveInv, FoundInv, SeenInv, KeptInv,
                Empty, IsGathered

\* Of a call that goes on to another step, by its kind.
LEMMA GoesOn ==
    ASSUME SafeInv, pc # "idle", query' = query, pc' \in Stages[query.kind],
           IsGathered(acc')
    PROVE  CallInv'
  BY KindOf DEF CallInv

\* utilization reads its block.
LEMMA GetBlockStep ==
    ASSUME IInv, GetBlock
    PROVE  IInv'
  <1>1. /\ pc = "block" /\ query.block \in Blocks /\ UNCHANGED store /\ pc' = "live"
        /\ query' = query /\ Observe
    BY DEF GetBlock, Become
  <1>2. /\ acc' = [acc EXCEPT !.space = [b \in {query.block} |-> blocks[b]]]
        /\ IsGathered(acc)
    BY DEF GetBlock, Become, IInv, SafeInv, CallInv
  <1>3. /\ acc'.space = [b \in {query.block} |-> blocks[b]] /\ acc'.live = acc.live
        /\ acc'.ids = acc.ids
        /\ IsGathered(acc')
    BY <1>2 DEF IsGathered
  <1>4. query # NULL /\ query.kind = "utilization" /\ acc.live = <<>>
    BY <1>1, KindOf DEF IInv, SafeInv, LiveInv
  <1>5. StoreInv' /\ Asking /\ Asked(query)' = Asked(query)
        /\ hist'.seen = hist.seen \cup Asked(query) /\ hist'.kept = hist.kept \cap Asked(query)
    BY <1>1, ReadRule DEF IInv
  <1>6. CallInv'
    BY <1>1, <1>3, <1>4, GoesOn DEF IInv, Stages
  <1>7. SpaceInv'
    BY <1>1, <1>3 DEF IInv, SafeInv, StoreInv, SpaceInv, Blocks, store
  <1>8. TodoInv' /\ LiveInv' /\ FoundInv'
    BY <1>1, <1>3, <1>4 DEF TodoInv, LiveInv, FoundInv
  <1>9. SeenInv'
    BY <1>1, <1>3, <1>4 DEF SeenInv
  <1>10. KeptInv'
    BY <1>1, <1>4, <1>5 DEF KeptInv
  <1> QED
    BY <1>5, <1>6, <1>7, <1>8, <1>9, <1>10 DEF IInv, SafeInv

\* Then it counts what is live in it.
LEMMA FindLiveStep ==
    ASSUME IInv, FindLive
    PROVE  IInv'
  <1>1. /\ pc = "live" /\ UNCHANGED store /\ pc' = "released" /\ query' = query /\ Observe
    BY DEF FindLive, Become
  <1>2. /\ acc' = [acc EXCEPT !.live = [b \in {query.block} |-> With(b, LIVE)]]
        /\ IsGathered(acc)
    BY DEF FindLive, Become, IInv, SafeInv, CallInv
  <1>3. /\ acc'.live = [b \in {query.block} |-> With(b, LIVE)] /\ acc'.space = acc.space
        /\ acc'.ids = acc.ids
        /\ IsGathered(acc')
    BY <1>2 DEF IsGathered
  <1>4. query # NULL /\ query.kind = "utilization"
    BY <1>1, KindOf DEF IInv
  <1>5. StoreInv' /\ Asking /\ Asked(query)' = Asked(query) /\ SpaceInv'
        /\ hist'.seen = hist.seen \cup Asked(query) /\ hist'.kept = hist.kept \cap Asked(query)
    BY <1>1, <1>3, ReadRule DEF IInv
  <1>6. CallInv'
    BY <1>1, <1>3, <1>4, GoesOn DEF IInv, Stages
  <1>7. Asked(query) = With(query.block, LIVE) /\ acc'.live[query.block] = With(query.block, LIVE)
        /\ DOMAIN acc'.live = {query.block}
    BY <1>3, <1>4, <1>5 DEF Asking
  <1>8. LiveInv'
    <2>1. /\ query.block \in DOMAIN acc.space /\ query.block \in BlockIds
          /\ acc.space[query.block] \in Block
          /\ blocks[query.block] \in {NULL, acc.space[query.block]}
      BY <1>1 DEF IInv, SafeInv, TodoInv, SpaceInv, StoreInv
    <2>2. Cardinality(With(query.block, LIVE)) <= Cardinality(acc.space[query.block])
      BY <2>1, LiveFits DEF IInv, SafeInv
    <2> QED
      BY <1>1, <1>3, <1>4, <1>7, <2>1, <2>2 DEF LiveInv
  <1>9. TodoInv' /\ FoundInv'
    BY <1>1, <1>4 DEF TodoInv, FoundInv
  <1>10. SeenInv'
    BY <1>1, <1>4, <1>5, <1>7 DEF SeenInv
  <1>11. KeptInv'
    BY <1>1, <1>4, <1>5, <1>7 DEF KeptInv
  <1> QED
    BY <1>5, <1>6, <1>8, <1>9, <1>10, <1>11 DEF IInv, SafeInv

\* Then it counts what is released.
LEMMA FindReleasedStep ==
    ASSUME IInv, FindReleased
    PROVE  IInv'
  <1>1. /\ pc = "released" /\ UNCHANGED store /\ pc' = "done" /\ query' = query /\ Observe
    BY DEF FindReleased, Become
  <1>2. /\ acc' = [acc EXCEPT !.ids = With(query.block, {"released"})]
        /\ IsGathered(acc)
    BY DEF FindReleased, Become, IInv, SafeInv, CallInv
  <1>3. /\ acc'.live = acc.live /\ acc'.space = acc.space
        /\ IsGathered(acc')
    BY <1>2 DEF IsGathered
  <1>4. query # NULL /\ query.kind = "utilization"
    BY <1>1, KindOf DEF IInv
  <1>5. StoreInv' /\ Asking /\ Asked(query)' = Asked(query) /\ SpaceInv'
        /\ hist'.seen = hist.seen \cup Asked(query) /\ hist'.kept = hist.kept \cap Asked(query)
    BY <1>1, <1>3, ReadRule DEF IInv
  <1>6. CallInv'
    BY <1>1, <1>3, <1>4, GoesOn DEF IInv, Stages
  <1>7. LiveInv'
    BY <1>1, <1>3, <1>4 DEF IInv, SafeInv, LiveInv
  <1>8. TodoInv' /\ FoundInv'
    BY <1>1, <1>4 DEF TodoInv, FoundInv
  <1>9. SeenInv'
    BY <1>1, <1>3, <1>4, <1>5 DEF IInv, SafeInv, SeenInv
  <1>10. KeptInv'
    BY <1>1, <1>3, <1>4, <1>5 DEF IInv, KeptInv
  <1> QED
    BY <1>5, <1>6, <1>7, <1>8, <1>9, <1>10 DEF IInv, SafeInv

\* dump reads every allocation at once.
LEMMA ListAllocationsStep ==
    ASSUME IInv, ListAllocations
    PROVE  IInv'
  <1>1. /\ pc = "allocations" /\ UNCHANGED store /\ pc' = "done" /\ query' = query /\ Observe
    BY DEF ListAllocations, Become
  <1>2. /\ acc' = [acc EXCEPT !.ids = UNION {With(b, Statuses) : b \in BlockIds}]
        /\ IsGathered(acc)
    BY DEF ListAllocations, Become, IInv, SafeInv, CallInv
  <1>3. /\ acc'.live = acc.live /\ acc'.space = acc.space
        /\ acc'.ids = UNION {With(b, Statuses) : b \in BlockIds}
        /\ IsGathered(acc')
    BY <1>2 DEF IsGathered
  <1>4. query # NULL /\ query.kind = "dump"
    BY <1>1, KindOf DEF IInv
  <1>5. StoreInv' /\ Asking /\ Asked(query)' = Asked(query) /\ SpaceInv'
        /\ hist'.seen = hist.seen \cup Asked(query) /\ hist'.kept = hist.kept \cap Asked(query)
    BY <1>1, <1>3, ReadRule DEF IInv
  <1>6. CallInv'
    BY <1>1, <1>3, <1>4, GoesOn DEF IInv, Stages
  <1>7. LiveInv'
    BY <1>1, <1>3, <1>4 DEF IInv, SafeInv, LiveInv
  <1>8. TodoInv' /\ FoundInv'
    BY <1>1, <1>4 DEF TodoInv, FoundInv
  <1>9. acc'.ids = Asked(query)
    <2>1. \A a \in AllocIds : allocs[a] # NULL =>
             allocs[a].block \in BlockIds /\ allocs[a].status \in Statuses
      BY RowsOfBlocks DEF IInv, SafeInv
    <2>2. Asked(query) = {a \in AllocIds : allocs[a] # NULL}
      BY <1>4, <1>5 DEF Asking
    <2> QED
      BY <1>3, <2>1, <2>2 DEF With
  <1>10. SeenInv'
    BY <1>1, <1>3, <1>4, <1>5, <1>9 DEF IInv, SafeInv, SeenInv
  <1>11. KeptInv'
    BY <1>1, <1>4, <1>5, <1>9 DEF KeptInv
  <1> QED
    BY <1>5, <1>6, <1>7, <1>8, <1>10, <1>11 DEF IInv, SafeInv

\* allocation_summary, find_by_ip and dump list the blocks first.
LEMMA ListBlocksStep ==
    ASSUME IInv, ListBlocks
    PROVE  IInv'
  <1>1. /\ pc = "blocks" /\ UNCHANGED store /\ query' = query /\ Observe
        /\ pc' = (IF query.kind = "dump" THEN "allocations" ELSE "each")
    BY DEF ListBlocks, Become
  <1>2. /\ acc' = [acc EXCEPT !.todo = Ordered(NULL), !.space = [b \in Blocks |-> blocks[b]]]
        /\ IsGathered(acc)
    BY DEF ListBlocks, Become, IInv, SafeInv, CallInv
  <1>3. /\ acc'.todo = InOrder(Blocks) /\ acc'.space = [b \in Blocks |-> blocks[b]]
        /\ acc'.live = acc.live /\ acc'.ids = acc.ids
        /\ IsGathered(acc')
    BY <1>2 DEF IsGathered, Ordered, Table
  <1>4. query # NULL /\ query.kind \in {"summary", "find", "dump"} /\ acc.live = <<>>
    BY <1>1, KindOf DEF IInv, SafeInv, LiveInv
  <1>5. StoreInv' /\ Asking /\ Asked(query)' = Asked(query)
        /\ hist'.seen = hist.seen \cup Asked(query) /\ hist'.kept = hist.kept \cap Asked(query)
    BY <1>1, ReadRule DEF IInv
  <1>6. CallInv'
    BY <1>1, <1>3, <1>4, GoesOn DEF IInv, Stages
  <1>7. SpaceInv'
    BY <1>1, <1>3 DEF IInv, SafeInv, StoreInv, SpaceInv, Blocks, store
  <1>8. /\ acc'.todo \in Seq(Blocks) /\ ToSet(acc'.todo) = Blocks
        /\ Increasing(acc'.todo, Len(acc'.todo))
    <2>1. IsFiniteSet(Blocks) /\ Blocks \in SUBSET Nat
      BY <1>1, ListingsAreFinite DEF IInv, SafeInv, TablesAreFinite, Table
    <2> QED
      BY <1>3, <2>1, ListedRows
  <1>9. acc'.todo \in Seq(BlockIds)
    BY <1>8 DEF Blocks
  <1>10. TodoInv'
    BY <1>1, <1>3, <1>4, <1>8, <1>9 DEF TodoInv
  <1>11. LiveInv'
    BY <1>1, <1>3, <1>4 DEF LiveInv
  <1>12. FoundInv'
    BY <1>1, <1>3 DEF IInv, SafeInv, FoundInv
  <1>13. SeenInv'
    BY <1>1, <1>3, <1>4, <1>5 DEF IInv, SafeInv, SeenInv
  <1>14. KeptInv'
    <2>1. \A a \in AllocIds :
             allocs[a] # NULL => allocs'[a] = allocs[a] /\ allocs[a].block \in Blocks
      BY <1>1, RowsOfBlocks DEF IInv, SafeInv, store
    <2>2. \A a \in Asked(query) : a \in AllocIds /\ allocs[a] # NULL
      BY <1>4, <1>5 DEF Asking, IsLive
    <2>3. \A a \in hist'.kept : allocs'[a].block \in ToSet(acc'.todo)
      BY <1>5, <1>8, <2>1, <2>2
    <2> QED
      BY <1>1, <1>4, <1>5, <2>3 DEF KeptInv
  <1> QED
    BY <1>5, <1>6, <1>7, <1>10, <1>11, <1>12, <1>13, <1>14 DEF IInv, SafeInv

\* The block that a call looks at next, and what is left.
LEMMA NextBlock ==
    ASSUME SafeInv, pc = "each", acc.todo # <<>>, acc'.todo = Tail(acc.todo),
           NEW b, b = Head(acc.todo)
    PROVE  /\ b \in BlockIds /\ b \in DOMAIN acc.space /\ b \notin DOMAIN acc.live
           /\ ToSet(acc.todo) = {b} \cup ToSet(acc'.todo) /\ b \notin ToSet(acc'.todo)
           /\ acc'.todo \in Seq(BlockIds) /\ Increasing(acc'.todo, Len(acc'.todo))
           /\ acc.space[b] \in Block /\ blocks[b] \in {NULL, acc.space[b]}
  <1>1. /\ acc.todo \in Seq(BlockIds) /\ Increasing(acc.todo, Len(acc.todo))
        /\ ToSet(acc.todo) \subseteq DOMAIN acc.space
        /\ ToSet(acc.todo) \cap DOMAIN acc.live = {}
    BY DEF SafeInv, TodoInv
  <1>2. acc.todo \in Seq(Nat)
    BY <1>1, IdsAssumption
  <1>3. /\ b \in BlockIds /\ acc'.todo \in Seq(BlockIds)
        /\ ToSet(acc.todo) = {b} \cup ToSet(acc'.todo)
    BY <1>1, NextRow
  <1>4. b \notin ToSet(acc'.todo) /\ Increasing(acc'.todo, Len(acc'.todo))
    BY <1>1, <1>2, RowIsGone
  <1>5. b \in DOMAIN acc.space /\ b \notin DOMAIN acc.live
    BY <1>1, <1>3
  <1> QED
    BY <1>3, <1>4, <1>5 DEF SafeInv, SpaceInv

\* allocation_summary counts what is live in the next block.
LEMMA SummarizeStep ==
    ASSUME IInv, Summarize
    PROVE  IInv'
  <1> DEFINE b == Head(acc.todo)
  <1>1. /\ pc = "each" /\ query.kind = "summary" /\ acc.todo # <<>>
        /\ UNCHANGED store /\ pc' = "each" /\ query' = query /\ Observe
    BY DEF Summarize, Become
  <1>2. /\ acc' = [acc EXCEPT !.todo = Tail(@),
                              !.live = [c \in DOMAIN acc.live \cup {b} |->
                                           IF c = b THEN With(b, LIVE) ELSE acc.live[c]]]
        /\ IsGathered(acc)
    BY DEF Summarize, Become, IInv, SafeInv, CallInv
  <1>3. /\ acc'.todo = Tail(acc.todo) /\ acc'.space = acc.space /\ acc'.ids = acc.ids
        /\ acc'.live = [c \in DOMAIN acc.live \cup {b} |->
                           IF c = b THEN With(b, LIVE) ELSE acc.live[c]]
        /\ IsGathered(acc')
    BY <1>2 DEF IsGathered
  <1>4. query # NULL
    BY <1>1, KindOf DEF IInv
  <1>5. StoreInv' /\ Asking /\ Asked(query)' = Asked(query) /\ SpaceInv'
        /\ hist'.seen = hist.seen \cup Asked(query) /\ hist'.kept = hist.kept \cap Asked(query)
    BY <1>1, <1>3, ReadRule DEF IInv
  <1>6. /\ b \in BlockIds /\ b \in DOMAIN acc.space /\ b \notin DOMAIN acc.live
        /\ ToSet(acc.todo) = {b} \cup ToSet(acc'.todo) /\ b \notin ToSet(acc'.todo)
        /\ acc'.todo \in Seq(BlockIds) /\ Increasing(acc'.todo, Len(acc'.todo))
        /\ acc.space[b] \in Block /\ blocks[b] \in {NULL, acc.space[b]}
    BY <1>1, <1>3, NextBlock DEF IInv
  <1>7. CallInv'
    BY <1>1, <1>3, <1>4, GoesOn DEF IInv, Stages
  <1> HIDE DEF b
  <1>8. /\ DOMAIN acc'.live = DOMAIN acc.live \cup {b} /\ acc'.live[b] = With(b, LIVE)
        /\ \A c \in DOMAIN acc.live : acc'.live[c] = acc.live[c]
    BY <1>3, <1>6
  <1>9. TodoInv'
    BY <1>1, <1>3, <1>6, <1>8 DEF IInv, SafeInv, TodoInv
  <1>10. LiveInv'
    <2>1. Cardinality(With(b, LIVE)) <= Cardinality(acc.space[b])
      BY <1>6, LiveFits DEF IInv, SafeInv
    <2> QED
      BY <1>1, <1>3, <1>6, <1>8, <2>1 DEF IInv, SafeInv, LiveInv
  <1>11. FoundInv'
    BY <1>1 DEF FoundInv
  <1>12. Asked(query) = {a \in AllocIds : IsLive(a)}
    BY <1>1, <1>5 DEF Asking
  <1>13. SeenInv'
    <2>1. With(b, LIVE) \subseteq Asked(query)
      BY <1>12 DEF With, IsLive
    <2> QED
      BY <1>1, <1>3, <1>4, <1>5, <1>8, <2>1 DEF IInv, SafeInv, SeenInv
  <1>14. KeptInv'
    <2>1. ASSUME NEW a \in hist'.kept
          PROVE  \/ \E c \in DOMAIN acc'.live : a \in acc'.live[c]
                 \/ allocs'[a].block \in ToSet(acc'.todo)
      <3>1. a \in hist.kept /\ a \in AllocIds /\ IsLive(a) /\ allocs'[a] = allocs[a]
        BY <1>1, <1>5, <1>12 DEF store
      <3>2. CASE \E c \in DOMAIN acc.live : a \in acc.live[c]
        BY <1>8, <3>2
      <3>3. CASE allocs[a].block \in ToSet(acc'.todo)
        BY <3>1, <3>3
      <3>4. CASE allocs[a].block = b
        BY <1>8, <3>1, <3>4 DEF With, IsLive
      <3> QED
        BY <1>1, <1>4, <1>6, <3>1, <3>2, <3>3, <3>4 DEF IInv, KeptInv
    <2> QED
      BY <1>1, <1>4, <1>5, <2>1 DEF KeptInv
  <1> QED
    BY <1>5, <1>7, <1>9, <1>10, <1>11, <1>13, <1>14 DEF IInv, SafeInv

\* find_by_ip looks into the next block.
LEMMA SearchStep ==
    ASSUME IInv, Search
    PROVE  IInv'
  <1> DEFINE b == Head(acc.todo)
             hits == IF query.ip \in acc.space[b]
                     THEN {a \in With(b, LIVE) : allocs[a].ip = query.ip} ELSE {}
  <1>1. /\ pc = "each" /\ query.kind = "find" /\ acc.todo # <<>>
        /\ UNCHANGED store /\ pc' = "each" /\ query' = query /\ Observe
    BY DEF Search, Become
  <1>2. /\ acc' = [acc EXCEPT !.todo = Tail(@), !.ids = @ \cup hits]
        /\ IsGathered(acc)
    BY DEF Search, Become, IInv, SafeInv, CallInv
  <1>3. /\ acc'.todo = Tail(acc.todo) /\ acc'.space = acc.space /\ acc'.live = acc.live
        /\ acc'.ids = acc.ids \cup hits
        /\ IsGathered(acc')
    BY <1>2 DEF IsGathered
  <1>4. query # NULL /\ acc.live = <<>>
    BY <1>1, KindOf DEF IInv, SafeInv, LiveInv
  <1>5. StoreInv' /\ Asking /\ Asked(query)' = Asked(query) /\ SpaceInv'
        /\ hist'.seen = hist.seen \cup Asked(query) /\ hist'.kept = hist.kept \cap Asked(query)
    BY <1>1, <1>3, ReadRule DEF IInv
  <1>6. /\ b \in BlockIds /\ b \in DOMAIN acc.space
        /\ ToSet(acc.todo) = {b} \cup ToSet(acc'.todo) /\ b \notin ToSet(acc'.todo)
        /\ acc'.todo \in Seq(BlockIds) /\ Increasing(acc'.todo, Len(acc'.todo))
        /\ blocks[b] \in {NULL, acc.space[b]}
    BY <1>1, <1>3, NextBlock DEF IInv
  <1>7. CallInv'
    BY <1>1, <1>3, <1>4, GoesOn DEF IInv, Stages
  <1>8. hits = {a \in AllocIds : IsLive(a) /\ allocs[a].ip = query.ip /\ allocs[a].block = b}
    <2>1. \A a \in With(b, LIVE) : allocs[a].ip \in acc.space[b]
      BY <1>6 DEF IInv, SafeInv, StoreInv, With
    <2> QED
      BY <2>1 DEF With, IsLive
  <1>9. hits # {} => query.ip \in acc.space[b]
    OBVIOUS
  <1>10. \A a, c \in hits : a = c
    BY <1>6 DEF IInv, SafeInv, StoreInv
  <1> HIDE DEF b, hits
  <1>11. TodoInv'
    BY <1>1, <1>3, <1>4, <1>6 DEF IInv, SafeInv, TodoInv
  <1>12. LiveInv'
    BY <1>1, <1>3, <1>4 DEF IInv, SafeInv, LiveInv
  <1>13. FoundInv'
    <2>1. hits # {} => acc.ids = {}
      BY <1>1, <1>4, <1>6, <1>9 DEF IInv, SafeInv, FoundInv
    <2>2. \A a, c \in acc'.ids : a = c
      BY <1>1, <1>3, <1>4, <1>10, <2>1 DEF IInv, SafeInv, FoundInv
    <2>3. ASSUME NEW c \in ToSet(acc'.todo), query.ip \in acc.space[c] PROVE acc'.ids = {}
      <3>1. acc.ids = {}
        BY <1>1, <1>4, <1>6, <2>3 DEF IInv, SafeInv, FoundInv
      <3>2. c \in DOMAIN acc.space /\ c # b
        BY <1>1, <1>6, <2>3 DEF IInv, SafeInv, TodoInv
      <3>3. query.ip \notin acc.space[b]
        BY <1>6, <2>3, <3>2 DEF IInv, SafeInv, SpaceInv
      <3> QED
        BY <1>3, <1>9, <3>1, <3>3
    <2> QED
      BY <1>1, <1>3, <2>2, <2>3 DEF FoundInv
  <1>14. Asked(query) = {a \in AllocIds : IsLive(a) /\ allocs[a].ip = query.ip}
    BY <1>1, <1>5 DEF Asking
  <1>15. SeenInv'
    <2>1. hits \subseteq Asked(query)
      BY <1>8, <1>14
    <2> QED
      BY <1>1, <1>3, <1>4, <1>5, <2>1 DEF IInv, SafeInv, SeenInv
  <1>16. KeptInv'
    <2>1. ASSUME NEW a \in hist'.kept
          PROVE  a \in acc'.ids \/ allocs'[a].block \in ToSet(acc'.todo)
      <3>1. a \in hist.kept /\ a \in Asked(query) /\ allocs'[a] = allocs[a]
        BY <1>1, <1>5 DEF store
      <3>2. a \in acc.ids \/ allocs[a].block \in ToSet(acc.todo)
        BY <1>1, <1>4, <3>1 DEF IInv, KeptInv
      <3>3. allocs[a].block = b => a \in hits
        BY <1>8, <1>14, <3>1
      <3> QED
        BY <1>3, <1>6, <3>1, <3>2, <3>3
    <2> QED
      BY <1>1, <1>4, <1>5, <2>1 DEF KeptInv
  <1> QED
    BY <1>5, <1>7, <1>11, <1>12, <1>13, <1>15, <1>16 DEF IInv, SafeInv

\* There is no block left to look at.
LEMMA ExhaustedStep ==
    ASSUME IInv, Exhausted
    PROVE  IInv'
  <1>1. /\ pc = "each" /\ acc.todo = <<>> /\ UNCHANGED store /\ pc' = "done"
        /\ query' = query /\ Observe /\ acc' = acc
    BY DEF Exhausted, Become
  <1>2. query # NULL /\ query.kind \in {"summary", "find"}
    BY <1>1, KindOf DEF IInv
  <1>3. StoreInv' /\ Asking /\ Asked(query)' = Asked(query) /\ SpaceInv'
        /\ hist'.seen = hist.seen \cup Asked(query) /\ hist'.kept = hist.kept \cap Asked(query)
    BY <1>1, ReadRule DEF IInv
  <1>4. CallInv'
    BY <1>1, <1>2, GoesOn DEF IInv, SafeInv, CallInv, Stages
  <1>5. TodoInv' /\ FoundInv' /\ SeenInv'
    BY <1>1, <1>2, <1>3 DEF IInv, SafeInv, TodoInv, FoundInv, SeenInv
  <1>6. LiveInv'
    BY <1>1, <1>2 DEF IInv, SafeInv, LiveInv
  <1>7. ToSet(acc.todo) = {}
    BY <1>1 DEF ToSet
  <1>8. KeptInv'
    BY <1>1, <1>2, <1>3, <1>7 DEF IInv, KeptInv
  <1> QED
    BY <1>3, <1>4, <1>5, <1>6, <1>8 DEF IInv, SafeInv

\* batch_release lists what is active.
LEMMA ResolveActiveStep ==
    ASSUME IInv, ResolveActive
    PROVE  IInv'
  <1>1. /\ pc = "resolve" /\ UNCHANGED store /\ pc' = "release" /\ query' = query /\ Observe
    BY DEF ResolveActive, Become
  <1>2. /\ acc' = [acc EXCEPT !.todo = InOrder(With(query.block, {"active"}))]
        /\ IsGathered(acc)
    BY DEF ResolveActive, Become, IInv, SafeInv, CallInv
  <1>3. /\ acc'.live = acc.live /\ acc'.space = acc.space /\ acc'.ids = acc.ids
        /\ acc'.todo = InOrder(With(query.block, {"active"})) /\ IsGathered(acc')
    BY <1>2 DEF IsGathered
  <1>4. query # NULL /\ query.kind = "release"
    BY <1>1, KindOf DEF IInv
  <1>5. StoreInv' /\ Asking /\ Asked(query)' = Asked(query) /\ SpaceInv'
        /\ hist'.seen = hist.seen \cup Asked(query) /\ hist'.kept = hist.kept \cap Asked(query)
    BY <1>1, <1>3, ReadRule DEF IInv
  <1>6. CallInv'
    BY <1>1, <1>3, <1>4, GoesOn DEF IInv, Stages
  <1>7. acc'.todo \in Seq(AllocIds)
    <2> DEFINE T == With(query.block, {"active"})
    <2>1. T \in SUBSET used.allocs /\ T \in SUBSET AllocIds /\ T \in SUBSET Nat
      BY IdsAssumption DEF IInv, SafeInv, StoreInv, With
    <2>2. IsFiniteSet(T)
      BY <2>1, FS_Subset DEF IInv, SafeInv, StoreInv
    <2> HIDE DEF T
    <2>3. InOrder(T) \in Seq(T)
      BY <2>1, <2>2, ListedRows
    <2> QED
      BY <1>3, <2>1, <2>3 DEF T
  <1>8. TodoInv' /\ FoundInv'
    BY <1>1, <1>4, <1>7 DEF TodoInv, FoundInv
  <1>9. LiveInv'
    BY <1>1, <1>3, <1>4 DEF IInv, SafeInv, LiveInv
  <1>10. SeenInv'
    BY <1>1, <1>3, <1>4, <1>5 DEF IInv, SafeInv, SeenInv
  <1>11. KeptInv'
    BY <1>1, <1>4, <1>5 DEF KeptInv
  <1> QED
    BY <1>5, <1>6, <1>8, <1>9, <1>10, <1>11 DEF IInv, SafeInv

\* What a release leaves as it was.
LEMMA ReleaseRest ==
    ASSUME SafeInv, pc = "release", query.kind = "release", query # NULL, query' = query,
           pc' = "release", acc'.space = acc.space, acc'.live = acc.live, IsGathered(acc'),
           acc'.todo \in Seq(AllocIds), StoreInv', SpaceInv', SeenInv'
    PROVE  SafeInv'
  <1>1. CallInv'
    BY GoesOn DEF Stages
  <1>2. TodoInv' /\ FoundInv'
    BY DEF TodoInv, FoundInv
  <1>3. LiveInv'
    BY DEF SafeInv, LiveInv
  <1> QED
    BY <1>1, <1>2, <1>3 DEF SafeInv

\* Each is released in a unit of its own.
LEMMA ReleaseNextStep ==
    ASSUME IInv, ReleaseNext
    PROVE  IInv'
  <1> DEFINE a == Head(acc.todo)
  <1>1. /\ pc = "release" /\ acc.todo # <<>> /\ UNCHANGED <<blocks, used>>
        /\ pc' = "release" /\ query' = query /\ Observe
    BY DEF ReleaseNext, Become
  <1>2. query # NULL /\ query.kind = "release" /\ query \in Query
    BY <1>1, KindOf DEF IInv
  <1>3. /\ \/ allocs[a] = NULL /\ allocs' = allocs /\ acc' = [acc EXCEPT !.todo = Tail(@)]
           \/ /\ allocs[a] # NULL /\ allocs' = [allocs EXCEPT ![a].status = "released"]
              /\ acc' = [acc EXCEPT !.todo = Tail(@), !.ids = @ \cup {a}]
        /\ IsGathered(acc)
    BY DEF ReleaseNext, Become, IInv, SafeInv, CallInv
  <1>4. /\ acc'.todo = Tail(acc.todo) /\ acc'.space = acc.space /\ acc'.live = acc.live
        /\ acc'.ids \subseteq acc.ids \cup {a} /\ (allocs[a] = NULL => acc'.ids = acc.ids)
        /\ IsGathered(acc')
    BY <1>3 DEF IsGathered
  <1>5. a \in AllocIds /\ Tail(acc.todo) \in Seq(AllocIds)
    <2>1. acc.todo \in Seq(AllocIds)
      BY <1>1 DEF IInv, SafeInv, TodoInv
    <2> QED
      BY <1>1, <2>1, NextRow
  <1> HIDE DEF a
  <1>6. CASE allocs[a] = NULL
    <2>1. UNCHANGED store
      BY <1>1, <1>3, <1>6 DEF store
    <2>2. StoreInv' /\ Asked(query)' = Asked(query) /\ SpaceInv'
          /\ hist'.seen = hist.seen \cup Asked(query)
          /\ hist'.kept = hist.kept \cap Asked(query)
      BY <1>1, <1>4, <2>1, ReadRule DEF IInv
    <2>3. SeenInv'
      BY <1>1, <1>2, <1>4, <1>6, <2>2 DEF IInv, SafeInv, SeenInv
    <2>4. KeptInv'
      BY <1>1, <1>2, <2>2 DEF KeptInv
    <2> QED
      BY <2>2, <2>3, <2>4, ReleaseRest, <1>1, <1>2, <1>4, <1>5 DEF IInv
  <1>7. CASE allocs[a] # NULL
    <2>1. allocs' = [allocs EXCEPT ![a].status = "released"]
      BY <1>3, <1>7
    <2>2. StoreInv' /\ Moves /\ allocs'[a] # NULL /\ allocs'[a].status = "released"
      <3>1. "released" \in Statuses /\ MayBe(a, "released")
        BY DEF Statuses, LIVE, MayBe
      <3> QED
        BY <1>1, <1>5, <1>7, <2>1, <3>1, StatusMoves DEF IInv, SafeInv
    <2>3. Asking'
      BY <1>1, <1>2, <2>2, AskedWillBe
    <2>4. a \in Asked(query)'
      BY <1>1, <1>2, <1>5, <2>2, <2>3 DEF Asking, IsLive, LIVE
    <2>5. /\ hist'.kept = hist.kept \cap Asked(query)'
          /\ hist'.seen = hist.seen \cup Asked(query)'
      BY <1>1, <1>2, ObserveRule
    <2>6. SpaceInv'
      BY <1>1, <1>4, <2>2 DEF IInv, SafeInv, SpaceInv, Moves
    <2>7. SeenInv'
      BY <1>1, <1>2, <1>4, <2>4, <2>5 DEF IInv, SafeInv, SeenInv
    <2>8. KeptInv'
      BY <1>1, <1>2, <2>5 DEF KeptInv
    <2> QED
      BY <2>2, <2>6, <2>7, <2>8, ReleaseRest, <1>1, <1>2, <1>4, <1>5 DEF IInv
  <1> QED
    BY <1>6, <1>7

\* There is none left to release.
LEMMA ReleasedStep ==
    ASSUME IInv, Released
    PROVE  IInv'
  <1>1. /\ pc = "release" /\ UNCHANGED store /\ pc' = "done"
        /\ query' = query /\ Observe /\ acc' = acc
    BY DEF Released, Become
  <1>2. query # NULL /\ query.kind = "release"
    BY <1>1, KindOf DEF IInv
  <1>3. StoreInv' /\ Asking /\ Asked(query)' = Asked(query) /\ SpaceInv'
        /\ hist'.seen = hist.seen \cup Asked(query) /\ hist'.kept = hist.kept \cap Asked(query)
    BY <1>1, ReadRule DEF IInv
  <1>4. CallInv'
    BY <1>1, <1>2, GoesOn DEF IInv, SafeInv, CallInv, Stages
  <1>5. TodoInv' /\ FoundInv' /\ SeenInv' /\ KeptInv'
    BY <1>1, <1>2, <1>3 DEF IInv, SafeInv, TodoInv, FoundInv, SeenInv, KeptInv
  <1>6. LiveInv'
    BY <1>1, <1>2 DEF IInv, SafeInv, LiveInv
  <1> QED
    BY <1>3, <1>4, <1>5, <1>6 DEF IInv, SafeInv

\* What is in two lists together.
LEMMA JoinedRows ==
    ASSUME NEW S, NEW s \in Seq(S), NEW t \in Seq(S)
    PROVE  s \o t \in Seq(S) /\ ToSet(s \o t) = ToSet(s) \cup ToSet(t)
  <1>1. /\ s \o t \in Seq(S) /\ Len(s \o t) = Len(s) + Len(t)
        /\ \A i \in 1 .. Len(s) + Len(t) :
              (s \o t)[i] = IF i <= Len(s) THEN s[i] ELSE t[i - Len(s)]
    OBVIOUS
  <1>2. /\ DOMAIN (s \o t) = 1 .. Len(s) + Len(t) /\ DOMAIN s = 1 .. Len(s)
        /\ DOMAIN t = 1 .. Len(t) /\ Len(s) \in Nat /\ Len(t) \in Nat
    BY <1>1
  <1>3. ASSUME NEW x \in ToSet(s \o t) PROVE x \in ToSet(s) \cup ToSet(t)
    <2>1. PICK i \in 1 .. Len(s) + Len(t) : x = (s \o t)[i]
      BY <1>2, <1>3 DEF ToSet
    <2>2. CASE i <= Len(s)
      BY <1>1, <1>2, <2>1, <2>2 DEF ToSet
    <2>3. CASE ~ i <= Len(s)
      <3>1. i - Len(s) \in 1 .. Len(t) /\ x = t[i - Len(s)]
        BY <1>1, <1>2, <2>1, <2>3
      <3> QED
        BY <1>2, <3>1 DEF ToSet
    <2> QED
      BY <2>2, <2>3
  <1>4. ASSUME NEW x \in ToSet(s) PROVE x \in ToSet(s \o t)
    <2>1. PICK i \in 1 .. Len(s) : x = s[i]
      BY <1>2, <1>4 DEF ToSet
    <2>2. i \in 1 .. Len(s) + Len(t) /\ (s \o t)[i] = x
      BY <1>1, <1>2, <2>1
    <2> QED
      BY <1>2, <2>2 DEF ToSet
  <1>5. ASSUME NEW x \in ToSet(t) PROVE x \in ToSet(s \o t)
    <2>1. PICK i \in 1 .. Len(t) : x = t[i]
      BY <1>2, <1>5 DEF ToSet
    <2>2. Len(s) + i \in 1 .. Len(s) + Len(t) /\ (s \o t)[Len(s) + i] = x
      BY <1>1, <1>2, <2>1
    <2> QED
      BY <1>2, <2>2 DEF ToSet
  <1> QED
    BY <1>1, <1>3, <1>4, <1>5

\* What a listing asks for is in the tables it walks through.
LEMMA ListedInTables ==
    ASSUME SafeInv, query.kind = "list", query \in Query, Asking
    PROVE  /\ \A a \in Asked(query) :
                 /\ allocs[a].block \in BlockIds /\ allocs[a].block \in Table(NULL)
                 /\ a \in Table(allocs[a].block)
           /\ pc = "page" /\ acc.table # NULL => Table(acc.table) \subseteq Asked(query)
           /\ TablesAreFinite
  <1>1. \A a \in Asked(query) :
           a \in AllocIds /\ allocs[a] # NULL /\ allocs[a].status \in query.status
    BY DEF Asking
  <1>2. \A a \in Asked(query) : allocs[a].block \in BlockIds /\ allocs[a].block \in Blocks
    BY <1>1, RowsOfBlocks DEF SafeInv
  <1>3. NULL \notin BlockIds
    BY NullAssumption
  <1>4. pc = "page" => query.block \in {NULL, acc.table}
    BY DEF SafeInv, TodoInv
  <1> QED
    BY <1>1, <1>2, <1>3, <1>4, ListingsAreFinite DEF SafeInv, Table, With, Asking

\* A page is fetched.
LEMMA GetPageStep ==
    ASSUME IInv, GetPage
    PROVE  IInv'
  <1> DEFINE T == Table(acc.table)
             page == Page(Ordered(acc.table), acc.offset, PageSize)
             got == acc.got \o page
             gathered == [acc EXCEPT !.got = @ \o page, !.pages = @ + 1, !.offset = @ + PageSize]
             Ids == IF acc.table = NULL THEN BlockIds ELSE AllocIds
  <1>1. pc = "page" /\ UNCHANGED store
        /\ (IF Len(page) < PageSize THEN NextTable(gathered) ELSE Become("page", gathered))
    BY DEF GetPage
  <1>2. /\ query # NULL /\ query.kind = "list" /\ query \in Query
        /\ IsGathered(acc) /\ acc.live = <<>>
    BY <1>1, KindOf DEF IInv, SafeInv, CallInv, LiveInv
  <1>3. query' = query /\ Observe
    BY <1>1 DEF NextTable, Become
  <1>4. /\ StoreInv' /\ Asking /\ Asked(query)' = Asked(query)
        /\ hist'.seen = hist.seen \cup Asked(query) /\ hist'.kept = hist.kept \cap Asked(query)
        /\ hist.left => hist'.left
        /\ acc'.space = acc.space => SpaceInv'
        /\ \A t : Table(t)' = Table(t)
    BY <1>1, <1>3, ReadRule DEF IInv
  <1>5. /\ \A a \in Asked(query) :
              /\ allocs[a].block \in BlockIds /\ allocs[a].block \in Table(NULL)
              /\ a \in Table(allocs[a].block)
        /\ acc.table # NULL => T \subseteq Asked(query)
        /\ TablesAreFinite
    BY <1>1, <1>2, <1>4, ListedInTables DEF IInv
  <1>6. /\ acc.todo \in Seq(BlockIds) /\ acc.table \in BlockIds \cup {NULL}
        /\ acc.got \in Seq(Ids) /\ acc.offset \in Nat
        /\ query.block # NULL => acc.table = query.block /\ acc.todo = <<>>
        /\ acc.table = NULL => acc.todo = <<>> /\ acc.ids = {}
    BY <1>1 DEF IInv, SafeInv, TodoInv
  <1>7. IsFiniteSet(T) /\ T \in SUBSET Nat /\ T \subseteq Ids
    BY <1>5 DEF TablesAreFinite
  <1>8. /\ page \in Seq(T)
        /\ \A x \in T : acc.offset < Position(x, T) =>
              \/ x \in ToSet(page)
              \/ acc.offset + PageSize < Position(x, T) /\ ~ Len(page) < PageSize
    <2> HIDE DEF T
    <2>1. page = Page(InOrder(T), acc.offset, PageSize)
      BY DEF Ordered, T
    <2> QED
      BY <1>6, <1>7, <2>1, PageOfListing
  <1> HIDE DEF page, T, got
  <1>9. /\ gathered.got = got /\ gathered.offset = acc.offset + PageSize
        /\ gathered.space = acc.space /\ gathered.live = acc.live /\ gathered.todo = acc.todo
        /\ gathered.ids = acc.ids /\ gathered.table = acc.table /\ IsGathered(gathered)
    <2>1. PICK p : p = acc.pages + 1
      OBVIOUS
    <2>2. PICK o : o = acc.offset + PageSize
      OBVIOUS
    <2>3. gathered = [acc EXCEPT !.got = got, !.pages = p, !.offset = o]
      BY <2>1, <2>2 DEF got
    <2> HIDE DEF gathered
    <2>4. /\ gathered.got = got /\ gathered.offset = o
          /\ gathered.space = acc.space /\ gathered.live = acc.live
          /\ gathered.todo = acc.todo /\ gathered.ids = acc.ids
          /\ gathered.table = acc.table /\ IsGathered(gathered)
      BY <1>2, <2>3 DEF IsGathered
    <2> QED
      BY <2>2, <2>4
  <1> HIDE DEF Ids, gathered
  <1>10. got \in Seq(Ids) /\ ToSet(got) = ToSet(acc.got) \cup ToSet(page)
    <2>1. page \in Seq(T) /\ T \subseteq Ids
      BY <1>7, <1>8
    <2>2. page \in Seq(Ids)
      BY <2>1
    <2> QED
      BY <1>6, <2>2, JoinedRows DEF got
  <1>11. acc.table # NULL => ToSet(got) \subseteq hist'.seen
    <2>1. ToSet(page) \subseteq T
      BY <1>8 DEF ToSet
    <2>2. acc.table # NULL => ToSet(acc.got) \subseteq hist.seen
      BY <1>1, <1>2 DEF IInv, SafeInv, SeenInv
    <2> QED
      BY <1>4, <1>5, <1>10, <2>1, <2>2
  <1>12. \A x \in T : Fetched(x) =>
            \/ x \in ToSet(got)
            \/ acc.offset + PageSize < Position(x, T) /\ ~ Len(page) < PageSize
    <2>1. \A x : Fetched(x) => x \in ToSet(acc.got) \/ acc.offset < Position(x, T)
      BY DEF Fetched, T
    <2> QED
      BY <1>8, <1>10, <2>1
  <1>13. acc.ids \subseteq hist'.seen
    BY <1>2, <1>4 DEF IInv, SafeInv, SeenInv
  <1>14. ~ hist'.left => \A a \in hist'.kept :
            /\ a \in Asked(query) /\ allocs'[a] = allocs[a]
            /\ \/ a \in acc.ids
               \/ acc.table = NULL /\ Fetched(allocs[a].block)
               \/ acc.table = allocs[a].block /\ Fetched(a)
               \/ allocs[a].block \in ToSet(acc.todo)
    BY <1>1, <1>2, <1>4 DEF IInv, KeptInv, store
  <1>15. PageSize \in Nat
    BY BoundsAssumption
  <1>16. CASE ~ Len(page) < PageSize
    <2>1. pc' = "page" /\ acc' = gathered
      BY <1>1, <1>16 DEF Become
    <2>2. CallInv'
      BY <1>1, <1>2, <1>3, <1>9, <2>1, GoesOn DEF IInv, Stages
    <2>3. TodoInv'
      BY <1>3, <1>6, <1>9, <1>10, <1>15, <2>1 DEF TodoInv, Ids
    <2>4. LiveInv' /\ FoundInv' /\ SpaceInv'
      BY <1>2, <1>3, <1>4, <1>9, <2>1 DEF LiveInv, FoundInv
    <2>5. SeenInv'
      BY <1>2, <1>3, <1>9, <1>11, <1>13, <2>1 DEF SeenInv
    <2>6. \A x \in T : Fetched(x) => Fetched(x)'
      BY <1>4, <1>9, <1>12, <2>1 DEF Fetched, T, Position, UpTo
    <2>7. ASSUME ~ hist'.left, NEW a \in hist'.kept
          PROVE  \/ a \in acc'.ids
                 \/ acc'.table = NULL /\ Fetched(allocs[a].block)'
                 \/ acc'.table = allocs'[a].block /\ Fetched(a)'
                 \/ allocs'[a].block \in ToSet(acc'.todo)
      <3>1. a \in Asked(query) /\ allocs'[a] = allocs[a]
        BY <1>14, <2>7
      <3>2. CASE a \in acc.ids \/ allocs[a].block \in ToSet(acc.todo)
        BY <1>9, <2>1, <3>1, <3>2
      <3>3. CASE acc.table = NULL /\ Fetched(allocs[a].block)
        BY <1>5, <1>9, <2>1, <2>6, <3>1, <3>3 DEF T
      <3>4. CASE acc.table = allocs[a].block /\ Fetched(a)
        BY <1>5, <1>9, <2>1, <2>6, <3>1, <3>4 DEF T
      <3> QED
        BY <1>14, <2>7, <3>2, <3>3, <3>4
    <2>8. KeptInv'
      BY <1>2, <1>3, <1>4, <2>1, <2>7 DEF KeptInv
    <2> QED
      BY <1>4, <2>2, <2>3, <2>4, <2>5, <2>8 DEF IInv, SafeInv
  <1>17. CASE Len(page) < PageSize
    <2> DEFINE todo == IF acc.table = NULL THEN got ELSE acc.todo
               ids == IF acc.table = NULL THEN acc.ids ELSE acc.ids \cup ToSet(got)
    <2>1. IF todo = <<>> THEN Become("done", [gathered EXCEPT !.ids = ids])
          ELSE Become("page",
                [gathered EXCEPT !.ids = ids, !.table = Head(todo), !.todo = Tail(todo),
                                 !.offset = 0, !.pages = 0, !.got = <<>>])
      BY <1>1, <1>9, <1>17 DEF NextTable
    <2>2. ids \subseteq hist'.seen
      BY <1>11, <1>13
    <2>3. todo \in Seq(BlockIds) /\ (query.block # NULL => todo = <<>>)
      BY <1>6, <1>10, NullAssumption DEF Ids
    <2>4. ASSUME ~ hist'.left, NEW a \in hist'.kept
          PROVE  a \in ids \/ allocs[a].block \in ToSet(todo)
      <3>1. a \in Asked(query)
        BY <1>14, <2>4
      <3>2. CASE acc.table = NULL /\ Fetched(allocs[a].block)
        BY <1>5, <1>12, <1>17, <3>1, <3>2 DEF T
      <3>3. CASE acc.table = allocs[a].block /\ Fetched(a)
        <4>1. a \in ToSet(got)
          BY <1>5, <1>12, <1>17, <3>1, <3>3 DEF T
        <4> QED
          BY <1>5, <3>1, <3>3, <4>1, NullAssumption
      <3>4. CASE a \in acc.ids
        BY <3>4
      <3>5. CASE allocs[a].block \in ToSet(acc.todo)
        <4>1. acc.todo # <<>>
          BY <3>5 DEF ToSet
        <4> QED
          BY <1>6, <3>5, <4>1
      <3> QED
        BY <1>14, <2>4, <3>2, <3>3, <3>4, <3>5
    <2>5. \A a \in hist'.kept : a \in Asked(query) /\ allocs'[a] = allocs[a]
      BY <1>1, <1>4 DEF store
    <2> HIDE DEF todo, ids
    <2>6. CASE todo = <<>>
      <3>1. pc' = "done" /\ acc' = [gathered EXCEPT !.ids = ids]
        BY <2>1, <2>6 DEF Become
      <3>2. /\ acc'.ids = ids /\ acc'.space = acc.space /\ acc'.live = acc.live
            /\ IsGathered(acc')
        BY <1>9, <3>1 DEF IsGathered
      <3>3. CallInv'
        BY <1>1, <1>2, <1>3, <3>1, <3>2, GoesOn DEF IInv, Stages
      <3>4. TodoInv' /\ LiveInv' /\ FoundInv' /\ SpaceInv'
        BY <1>2, <1>3, <1>4, <3>1, <3>2 DEF TodoInv, LiveInv, FoundInv
      <3>5. SeenInv'
        BY <1>2, <1>3, <2>2, <3>1, <3>2 DEF SeenInv
      <3>6. ToSet(todo) = {}
        BY <2>6 DEF ToSet
      <3>7. KeptInv'
        BY <1>2, <1>3, <1>4, <2>4, <3>1, <3>2, <3>6 DEF KeptInv
      <3> QED
        BY <1>4, <3>3, <3>4, <3>5, <3>7 DEF IInv, SafeInv
    <2>7. CASE todo # <<>>
      <3>1. /\ pc' = "page"
            /\ acc' = [gathered EXCEPT !.ids = ids, !.table = Head(todo), !.todo = Tail(todo),
                                       !.offset = 0, !.pages = 0, !.got = <<>>]
        BY <2>1, <2>7 DEF Become
      <3>2. /\ acc'.ids = ids /\ acc'.space = acc.space /\ acc'.live = acc.live
            /\ acc'.table = Head(todo) /\ acc'.todo = Tail(todo) /\ acc'.offset = 0
            /\ acc'.got = <<>> /\ IsGathered(acc')
        BY <1>9, <3>1 DEF IsGathered
      <3>3. /\ Head(todo) \in BlockIds /\ Tail(todo) \in Seq(BlockIds)
            /\ ToSet(todo) = {Head(todo)} \cup ToSet(Tail(todo))
        BY <2>3, <2>7, NextRow
      <3>4. Head(todo) # NULL /\ query.block = NULL
        BY <2>3, <2>7, <3>3, NullAssumption
      <3>5. CallInv'
        BY <1>1, <1>2, <1>3, <3>1, <3>2, GoesOn DEF IInv, Stages
      <3>6. TodoInv'
        BY <1>3, <3>1, <3>2, <3>3, <3>4 DEF TodoInv
      <3>7. LiveInv' /\ FoundInv' /\ SpaceInv'
        BY <1>2, <1>3, <1>4, <3>1, <3>2 DEF LiveInv, FoundInv
      <3>8. SeenInv'
        BY <1>2, <1>3, <2>2, <3>1, <3>2 DEF SeenInv, ToSet
      <3>9. ASSUME ~ hist'.left, NEW a \in hist'.kept
            PROVE  \/ a \in acc'.ids
                   \/ acc'.table = allocs'[a].block /\ Fetched(a)'
                   \/ allocs'[a].block \in ToSet(acc'.todo)
        <4>1. CASE a \in ids \/ allocs[a].block \in ToSet(Tail(todo))
          BY <2>5, <3>2, <3>9, <4>1
        <4>2. CASE allocs[a].block = Head(todo)
          <5> DEFINE H == Table(Head(todo))
          <5>1. IsFiniteSet(H) /\ H \in SUBSET Nat /\ a \in H
            BY <1>5, <2>5, <3>9, <4>2 DEF TablesAreFinite
          <5>2. Position(a, H) \in 1 .. Cardinality(H) /\ Cardinality(H) \in Nat
            BY <5>1, PositionsGrow, FS_CardinalityType
          <5>3. Table(acc.table)' = H
            BY <1>4, <3>2
          <5> HIDE DEF H
          <5>4. acc'.offset < Position(a, Table(acc.table)')
            BY <3>2, <5>2, <5>3
          <5> QED
            BY <2>5, <3>2, <3>9, <4>2, <5>4 DEF Fetched
        <4> QED
          BY <2>4, <3>3, <3>9, <4>1, <4>2
      <3>10. KeptInv'
        BY <1>2, <1>3, <1>4, <3>1, <3>9 DEF KeptInv
      <3> QED
        BY <1>4, <3>5, <3>6, <3>7, <3>8, <3>10 DEF IInv, SafeInv
    <2> QED
      BY <2>6, <2>7
  <1> QED
    BY <1>16, <1>17

-----------------------------------------------------------------------------
(* The theorems.                                                            *)

\* A unit of others preserves the invariant.
LEMMA OthersStep ==
    ASSUME IInv, StoreInv', Moves, UNCHANGED <<pc, query, acc>>, Observe
    PROVE  IInv'
  BY OthersSafe, OthersKept DEF IInv

\* Every step preserves the invariant.
LEMMA NextIInv == IInv /\ [Next]_vars => IInv'
  <1> SUFFICES ASSUME IInv, [Next]_vars PROVE IInv'
    OBVIOUS
  <1>1. ASSUME NEW b \in BlockIds, Others(CreateBlock(b)) \/ Others(DeleteBlock(b)) PROVE IInv'
    <2>1. (CreateBlock(b) \/ DeleteBlock(b)) /\ UNCHANGED <<pc, query, acc>> /\ Observe
      BY <1>1 DEF Others
    <2>2. StoreInv' /\ Moves
      BY <2>1, CreateMoves, DeleteMoves DEF IInv, SafeInv
    <2> QED
      BY <2>1, <2>2, OthersStep
  <1>2. ASSUME NEW a \in AllocIds, Others(Allocate(a)) PROVE IInv'
    <2>1. Allocate(a) /\ UNCHANGED <<pc, query, acc>> /\ Observe
      BY <1>2 DEF Others
    <2>2. StoreInv' /\ Moves
      BY <2>1, AllocateMoves DEF IInv, SafeInv
    <2> QED
      BY <2>1, <2>2, OthersStep
  <1>3. ASSUME NEW a \in AllocIds, NEW status \in Statuses, Others(Update(a, status)) PROVE IInv'
    <2>1. Update(a, status) /\ UNCHANGED <<pc, query, acc>> /\ Observe
      BY <1>3 DEF Others
    <2>2. StoreInv' /\ Moves
      BY <2>1, UpdateMoves DEF IInv, SafeInv
    <2> QED
      BY <2>1, <2>2, OthersStep
  <1>4. ASSUME NEW q \in Queries, Call(q) PROVE IInv'
    BY <1>4, CallStep
  <1>5. CASE UNCHANGED vars
    <2>1. UNCHANGED store /\ UNCHANGED <<pc, query, acc, hist>>
      BY <1>5 DEF vars
    <2>2. StoreInv'
      BY <2>1, StillMoves DEF IInv, SafeInv
    <2>3. CallInv' /\ SpaceInv' /\ TodoInv' /\ LiveInv' /\ FoundInv' /\ SeenInv'
      BY <2>1 DEF IInv, SafeInv, CallInv, SpaceInv, TodoInv, LiveInv, FoundInv, SeenInv, store
    <2>4. KeptInv'
      <3>1. Asked(query)' = Asked(query)
        BY <2>1 DEF Asked, Blocks, With, store
      <3>2. \A x : Fetched(x)' <=> Fetched(x)
        <4>1. Table(acc.table)' = Table(acc.table)
          BY <2>1 DEF Table, Blocks, With, store
        <4>2. \A x : Position(x, Table(acc.table))' = Position(x, Table(acc.table))
          BY <2>1, <4>1 DEF Position, UpTo
        <4> QED
          BY <2>1, <4>2 DEF Fetched
      <3>3. allocs' = allocs
        BY <2>1 DEF store
      <3>4. KeptInv
        BY DEF IInv
      <3> QED
        BY <2>1, <3>1, <3>2, <3>3, <3>4 DEF KeptInv
    <2> QED
      BY <2>2, <2>3, <2>4 DEF IInv, SafeInv
  <1> QED
    BY <1>1, <1>2, <1>3, <1>4, <1>5, GetBlockStep, FindLiveStep, FindReleasedStep,
       ListBlocksStep, ListAllocationsStep, SummarizeStep, SearchStep, ExhaustedStep,
       ResolveActiveStep, ReleaseNextStep, ReleasedStep, GetPageStep, ReturnStep DEF Next

\* The invariant holds in every reachable state.
THEOREM Invariant == Spec => []IInv
  BY InitIInv, NextIInv, PTL DEF Spec

\* No report says that a block is fuller than it is large, although the block
\* and its allocations are read apart and it may be deleted between the reads.
THEOREM ReportsNeverOverfull == Spec => []NeverOverfull
  <1>1. IInv => NeverOverfull
    BY DEF IInv, SafeInv, LiveInv, NeverOverfull
  <1> QED
    BY <1>1, Invariant, PTL

\* find_by_ip gives an address one holder, whatever moves between the reads of
\* the blocks: the blocks of one listing are disjoint, and the live allocations
\* of one block have addresses of their own.
THEOREM SearchFindsOneHolder == Spec => []OneHolder
  <1>1. IInv => OneHolder
    <2> SUFFICES ASSUME IInv, query # NULL, query.kind = "find"
                 PROVE  Cardinality(acc.ids) <= 1
      BY DEF OneHolder
    <2>1. \A a, c \in acc.ids : a = c
      BY DEF IInv, SafeInv, FoundInv
    <2>2. CASE acc.ids = {}
      BY <2>2, FS_EmptySet
    <2>3. CASE acc.ids # {}
      <3>1. PICK a \in acc.ids : TRUE
        BY <2>3
      <3>2. acc.ids = {a}
        BY <2>1, <3>1
      <3>3. Cardinality({a}) = 1
        BY FS_Singleton
      <3> QED
        BY <3>2, <3>3
    <2> QED
      BY <2>2, <2>3
  <1> QED
    BY <1>1, Invariant, PTL

\* Whatever is in an answer was so at some instant of the call.
THEOREM AnswersWereSo == Spec => []WasSo
  <1>1. IInv => WasSo
    <2> SUFFICES ASSUME IInv, pc = "done"
                 PROVE  (IF query.kind = "utilization" THEN acc.live[query.block] ELSE Answer)
                           \subseteq hist.seen
      BY DEF WasSo
    <2>1. query # NULL
      BY KindOf DEF IInv
    <2>2. \A b \in DOMAIN acc.live : acc.live[b] \subseteq hist.seen
      BY <2>1 DEF IInv, SafeInv, SeenInv
    <2>3. query.kind = "utilization" => DOMAIN acc.live = {query.block}
      BY <2>1 DEF IInv, SafeInv, LiveInv
    <2>4. query.kind # "utilization" => acc.ids \subseteq hist.seen
      BY <2>1 DEF IInv, SafeInv, SeenInv
    <2> QED
      BY <2>2, <2>3, <2>4 DEF Answer
  <1> QED
    BY <1>1, Invariant, PTL

\* What was so all through a call is in its answer: for a listing from which
\* nothing is taken while its pages are fetched, a row only moves to later
\* positions, so no page passes it by, and a short page has the last one.
THEOREM AnswersMissNothing == Spec => []NoneMissing
  <1>1. IInv => NoneMissing
    <2> SUFFICES ASSUME IInv, pc = "done", query.kind # "release",
                        query.kind = "list" => ~ hist.left
                 PROVE  hist.kept \subseteq Answer
      BY DEF NoneMissing
    <2>1. query # NULL
          /\ query.kind \in {"utilization", "summary", "find", "dump", "release", "list"}
      BY KindOf DEF IInv
    <2>2. CASE query.kind = "utilization"
      <3>1. hist.kept \subseteq acc.live[query.block] /\ DOMAIN acc.live = {query.block}
        BY <2>1, <2>2 DEF IInv, SafeInv, LiveInv, KeptInv
      <3> QED
        BY <3>1 DEF Answer
    <2>3. CASE query.kind = "summary"
      BY <2>1, <2>3 DEF IInv, KeptInv, Answer
    <2>4. CASE query.kind \in {"find", "dump", "list"}
      BY <2>1, <2>4 DEF IInv, KeptInv, Answer
    <2> QED
      BY <2>1, <2>2, <2>3, <2>4
  <1> QED
    BY <1>1, Invariant, PTL
=============================================================================
