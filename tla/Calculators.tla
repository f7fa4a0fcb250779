---------------------------- MODULE Calculators ----------------------------
(***************************************************************************)
(* The calculators that take CIDRs and give CIDRs: src/from_range.rs,      *)
(* src/summarize.rs and src/subnet_generator.rs, loop by loop and word by  *)
(* word.  A CIDR is <<address, prefix>>.  The IPv4 and the IPv6 version of *)
(* a function differ in the width of their words and are one definition    *)
(* here; the tree of a hierarchical split is built node by node.           *)
(***************************************************************************)
EXTENDS WordArithmetic, SequencesExt

CONSTANTS
    MAX_GENERATED_SUBNETS,
    Half,    \* bits of a u64
    MaxList  \* bound on the length of a list that is given

ASSUME ListAssumption == MaxList \in Nat \ {0}
ASSUME HalfAssumption ==
    /\ Half \in Nat /\ V4Bits < Half
    /\ MAX_GENERATED_SUBNETS \in Nat /\ MAX_GENERATED_SUBNETS < Pow2[Half] - 1

VARIABLES
    request,  \* the tool and its arguments
    pending,  \* entries that a summary has not looked at since they were sorted
    rest,     \* those it has kept; the prefixes a tree has still to be split to
    cursor,   \* the next address, NULL once IPv6 is full to its last address; or
              \* the place in `rest'
    cidrs,    \* the CIDRs found
    reply,    \* "ok" or the error
    stage

calcVars == <<request, pending, rest, cursor, cidrs, reply, stage>>

width == bits_of(request.v4)
supernet == request.cidr
list == request.list
limit == request.limit

\* The network of an address: its bits under the mask of the prefix.
masked(a, p) == IF p = 0 THEN 0 ELSE a - (a % Pow2[width - p])

\* check_ipv4_contains and check_ipv6_contains.
check_contains(c, a) == masked(a, c[2]) = masked(c[1], c[2])

CidrsOf(v4) ==
    UNION {{<<i * Pow2[bits_of(v4) - p], p>> : i \in 0 .. Pow2[p] - 1} : p \in 0 .. bits_of(v4)}

Lists(S, n) == UNION {[1 .. k -> S] : k \in 0 .. n}

\* What can be asked.  A range is the list of its two ends, the new prefix of
\* a split a list of one; the limit of a split is the count asked for.
Requests(v4) ==
    LET of(tool, cidr, what, limits) ==
          [tool : {tool}, v4 : {v4}, cidr : cidr, list : what, limit : limits]
        addresses == 0 .. Pow2[bits_of(v4)] - 1
        prefixes == 0 .. bits_of(v4) + 1
    IN  of("from_range", {NULL}, [1 .. 2 -> addresses], 0 .. 2 * Word)
        \cup of("summarize", {NULL}, Lists(CidrsOf(v4), IF v4 THEN MaxList ELSE MaxList - 1),
                {MaxList - 1, MaxList})
        \cup of("generate", CidrsOf(v4), [1 .. 1 -> prefixes], 0 .. Pow2[Half] - 1 \cup {NULL})
        \cup of("vlsm", CidrsOf(v4), Lists(prefixes, MaxList), {NULL})
        \cup of("hierarchy", CidrsOf(v4), Lists(prefixes, MaxList), {NULL})

\* The range whose size leaves the word.
WholeSpace(r) == r.tool = "from_range" /\ ~ r.v4 /\ r.list = <<0, MAX>>

CalcInit ==
    /\ request \in Requests(TRUE) \cup Requests(FALSE)
    /\ pending = {} /\ rest = <<>> /\ cursor = 0 /\ cidrs = <<>>
    /\ reply = NULL /\ stage = "call"

-----------------------------------------------------------------------------
(* What is refused before the work starts.                                 *)

\* How many subnets a split can give, as count_subnets prints it, and as the
\* generators hold it in a u64.
count_subnets(c, p) == Pow2[p - c[2]]
available(c, p) == IF p - c[2] >= Half THEN Pow2[Half] - 1 ELSE count_subnets(c, p)

wanted == IF limit = NULL THEN available(supernet, list[1]) ELSE limit

GenerateRefusal ==
    IF list[1] <= supernet[2] THEN "InvalidSubnetSplit"
    ELSE IF list[1] > width THEN "InvalidPrefixLength"
    ELSE IF wanted > available(supernet, list[1]) THEN "InsufficientSubnets"
    ELSE IF wanted > MAX_GENERATED_SUBNETS THEN "SubnetLimitExceeded"
    ELSE "ok"

u64(n) == IF n > Pow2[Half] - 1 THEN Pow2[Half] - 1 ELSE n

Fanout(acc, s) ==
    LET level == u64(acc.level * available(<<0, acc.prev>>, s))
        total == u64(acc.total + level)
    IN  [reply |-> IF total > MAX_GENERATED_SUBNETS THEN "SubnetLimitExceeded" ELSE "ok",
         prev |-> s, level |-> level, total |-> total]

validate_step(acc, s) ==
    IF acc.reply # "ok" THEN acc
    ELSE IF s > width THEN [acc EXCEPT !.reply = "InvalidPrefixLength"]
    ELSE IF s <= acc.prev
         THEN [acc EXCEPT !.reply =
                  IF acc.total = 0 THEN "InvalidSubnetSplit" ELSE "InvalidInput"]
    ELSE Fanout(acc, s)

\* What is known behind each step: the nodes of its level, and of all so far.
validated[k \in 0 .. Len(list)] ==
    IF k = 0 THEN [reply |-> "ok", prev |-> supernet[2], level |-> 1, total |-> 0]
    ELSE validate_step(validated[k - 1], list[k])

validate_steps == validated[Len(list)]

Refusal ==
    CASE request.tool = "from_range" -> IF list[1] > list[2] THEN "InvalidRange" ELSE "ok"
      [] request.tool = "summarize" ->
           IF list = <<>> THEN "EmptyCidrList"
           ELSE IF Len(list) > limit THEN "SummarizeInputLimitExceeded" ELSE "ok"
      [] request.tool = "generate" -> GenerateRefusal
      [] request.tool = "vlsm" -> IF list = <<>> THEN "InvalidInput" ELSE "ok"
      [] request.tool = "hierarchy" ->
           IF list = <<>> THEN "InvalidInput" ELSE validate_steps.reply

Call ==
    /\ stage = "call"
    /\ reply' = Refusal
    /\ stage' = IF Refusal = "ok" THEN "start" ELSE "done"
    /\ UNCHANGED <<request, pending, rest, cursor, cidrs>>

Doing(tool, at) == request.tool = tool /\ stage = at

\* The call ends with this answer.
Answer(r) == reply' = r /\ stage' = "done"

-----------------------------------------------------------------------------
(* range_to_cidrs_v4 and range_to_cidrs_v6 *)

StartRange ==
    /\ Doing("from_range", "start")
    /\ cursor' = list[1] /\ stage' = "run"
    /\ UNCHANGED <<request, pending, rest, cidrs, reply>>

RangeAnswer(found) == Answer(IF Len(found) > limit THEN "FromRangeLimitExceeded" ELSE "ok")

\* The largest block that is aligned at the cursor and ends in the range.
block_bits ==
    LET max_bits == IF cursor = 0 THEN width ELSE trailing_zeros(cursor)
        range_size == wrap(list[2] - cursor + 1)
        range_bits == IF range_size = 0 THEN width ELSE ilog2(range_size)
    IN  IF max_bits < range_bits THEN max_bits ELSE range_bits

CoverNext ==
    /\ Doing("from_range", "run") /\ cursor <= list[2] /\ Len(cidrs) <= limit
    /\ cidrs' = Append(cidrs, <<cursor, width - block_bits>>)
    /\ LET next == cursor + shl_one(block_bits)
       IN  IF next > Pow2[width] - 1
           THEN RangeAnswer(cidrs') /\ UNCHANGED cursor
           ELSE cursor' = next /\ UNCHANGED <<reply, stage>>
    /\ UNCHANGED <<request, pending, rest>>

RangeCovered ==
    /\ Doing("from_range", "run") /\ (cursor > list[2] \/ Len(cidrs) > limit)
    /\ RangeAnswer(cidrs)
    /\ UNCHANGED <<request, pending, rest, cursor, cidrs>>

-----------------------------------------------------------------------------
(* summarize_entries *)

Network(c) == <<masked(c[1], c[2]), c[2]>>

Normalize ==
    /\ Doing("summarize", "start")
    /\ pending' = {Network(c) : c \in ToSet(list)}
    /\ stage' = "keep"
    /\ UNCHANGED <<request, rest, cursor, cidrs, reply>>

\* remove_contained, of sorted entries without their duplicates: an entry is
\* compared with the last one kept only.
SortsBefore(c, d) == c[1] < d[1] \/ (c[1] = d[1] /\ c[2] <= d[2])
Contained(c) == rest # <<>> /\ c[2] >= Last(rest)[2] /\ check_contains(Last(rest), c[1])

Keep ==
    /\ Doing("summarize", "keep")
    /\ \E c \in pending :
          /\ \A d \in pending : SortsBefore(c, d)
          /\ pending' = pending \ {c}
          /\ rest' = IF Contained(c) THEN rest ELSE Append(rest, c)
    /\ UNCHANGED <<request, cursor, cidrs, reply, stage>>

StartMerging ==
    /\ Doing("summarize", "keep") /\ pending = {}
    /\ cursor' = 1 /\ cidrs' = <<>> /\ stage' = "merge"
    /\ UNCHANGED <<request, pending, rest, reply>>

\* merge_siblings: neighbours with one parent become the parent.
Parent(c) == <<masked(c[1], c[2] - 1), c[2] - 1>>
Siblings(c, d) == c[2] = d[2] /\ c[2] > 0 /\ Parent(c) = Parent(d)

MergeNext ==
    /\ Doing("summarize", "merge") /\ cursor <= Len(rest)
    /\ IF cursor < Len(rest) /\ Siblings(rest[cursor], rest[cursor + 1])
       THEN cidrs' = Append(cidrs, Parent(rest[cursor])) /\ cursor' = cursor + 2
       ELSE cidrs' = Append(cidrs, rest[cursor]) /\ cursor' = cursor + 1
    /\ UNCHANGED <<request, pending, rest, reply, stage>>

\* Mutant of Merged: one pass is made.
MergedOnce ==
    /\ Doing("summarize", "merge") /\ cursor > Len(rest)
    /\ Answer("ok")
    /\ UNCHANGED <<request, pending, rest, cursor, cidrs>>

\* What has been merged is sorted and cleaned again.
Merged ==
    /\ Doing("summarize", "merge") /\ cursor > Len(rest)
    /\ IF Len(cidrs) = Len(rest)
       THEN Answer("ok") /\ UNCHANGED <<pending, rest>>
       ELSE pending' = ToSet(cidrs) /\ rest' = <<>> /\ stage' = "keep" /\ UNCHANGED reply
    /\ UNCHANGED <<request, cursor, cidrs>>

-----------------------------------------------------------------------------
(* generate_ipv4_subnets, generate_ipv6_subnets, and the levels of          *)
(* build_ipv4_tree and build_ipv6_tree                                      *)

Children(c, p, n) == [i \in 1 .. n |-> <<c[1] + (i - 1) * shl_one(width - p), p>>]

Generate ==
    /\ Doing("generate", "start")
    /\ cidrs' = Children(supernet, list[1], wanted) /\ Answer("ok")
    /\ UNCHANGED <<request, pending, rest, cursor>>

Root ==
    /\ Doing("hierarchy", "start")
    /\ cidrs' = <<supernet>> /\ rest' = list /\ cursor' = 1 /\ stage' = "run"
    /\ UNCHANGED <<request, pending, reply>>

\* Mutant of Branch: a node gets as many children as the root.
BranchAsRoot ==
    /\ Doing("hierarchy", "run") /\ rest # <<>>
    /\ cidrs' = cidrs \o Children(cidrs[cursor], Head(rest), count_subnets(supernet, Head(rest)))
    /\ cursor' = cursor + 1
    /\ rest' = IF cidrs'[cursor'][2] = cidrs[cursor][2] THEN rest ELSE Tail(rest)
    /\ UNCHANGED <<request, pending, reply, stage>>

\* The node at the cursor gets its children; behind the last node of a level,
\* its step is done.
Branch ==
    /\ Doing("hierarchy", "run") /\ rest # <<>>
    /\ LET c == cidrs[cursor]
       IN  cidrs' = cidrs \o Children(c, Head(rest), count_subnets(c, Head(rest)))
    /\ cursor' = cursor + 1
    /\ rest' = IF cidrs'[cursor'][2] = cidrs[cursor][2] THEN rest ELSE Tail(rest)
    /\ UNCHANGED <<request, pending, reply, stage>>

Grown ==
    /\ Doing("hierarchy", "run") /\ rest = <<>>
    /\ Answer("ok")
    /\ UNCHANGED <<request, pending, rest, cursor, cidrs>>

-----------------------------------------------------------------------------
(* vlsm_split_ipv4 and vlsm_split_ipv6 *)

\* The whole of IPv6 has no capacity that a u128 could hold.
capacity == IF ~ request.v4 /\ supernet[2] = 0 THEN NULL ELSE Pow2[width - supernet[2]]

validate_vlsm_prefix(p) ==
    IF p > width THEN "InvalidPrefixLength"
    ELSE IF p <= supernet[2] THEN "InvalidSubnetSplit"
    ELSE IF cidrs # <<>> /\ p < Last(cidrs)[2] THEN "InvalidInput"
    ELSE "ok"

\* Mutant of Fits: a full address space is taken for an empty one.
FitsAgain(size) ==
    LET at == IF cursor = NULL THEN 0 ELSE cursor
    IN  at <= MAX - (size - 1) /\ (capacity # NULL => wrap(at + size) <= capacity)

Fits(size) ==
    /\ cursor # NULL
    /\ cursor <= MAX - (size - 1)
    /\ capacity # NULL => wrap(cursor + size) <= capacity

StartCarving ==
    /\ Doing("vlsm", "start")
    /\ stage' = "run"
    /\ UNCHANGED <<request, pending, rest, cursor, cidrs, reply>>

Carving == Doing("vlsm", "run") /\ Len(cidrs) < Len(list)
Asked == list[Len(cidrs) + 1]

Carve ==
    /\ Carving
    /\ LET size == shl_one(width - Asked)
           at == IF cursor = NULL THEN 0 ELSE cursor
       IN  /\ validate_vlsm_prefix(Asked) = "ok" /\ Fits(size)
           /\ cidrs' = Append(cidrs, <<supernet[1] + at, Asked>>)
           /\ cursor' = IF at + size > MAX THEN NULL ELSE at + size
    /\ UNCHANGED <<request, pending, rest, reply, stage>>

RefuseToCarve ==
    /\ Carving
    /\ LET invalid == validate_vlsm_prefix(Asked)
       IN  \/ invalid # "ok" /\ Answer(invalid)
           \/ invalid = "ok" /\ ~ Fits(shl_one(width - Asked)) /\ Answer("NoRoom")
    /\ UNCHANGED <<request, pending, rest, cursor, cidrs>>

Carved ==
    /\ Doing("vlsm", "run") /\ Len(cidrs) = Len(list)
    /\ Answer("ok")
    /\ UNCHANGED <<request, pending, rest, cursor, cidrs>>

-----------------------------------------------------------------------------
CalcNext ==
    \/ Call
    \/ StartRange \/ CoverNext \/ RangeCovered
    \/ Normalize \/ Keep \/ StartMerging \/ MergeNext \/ Merged
    \/ Generate \/ Root \/ Branch \/ Grown
    \/ StartCarving \/ Carve \/ RefuseToCarve \/ Carved

CalcSpec == CalcInit /\ [][CalcNext]_calcVars

-----------------------------------------------------------------------------
Answered(tools) == request.tool \in tools /\ stage = "done" /\ reply = "ok"

Addresses(c) == {a \in c[1] .. c[1] + Pow2[width - c[2]] - 1 : check_contains(c, a)}

\* What was asked for, and its largest CIDRs.
Whole ==
    IF request.tool = "from_range" THEN list[1] .. list[2]
    ELSE UNION {Addresses(c) : c \in ToSet(list)}
Within(S) == {c \in CidrsOf(request.v4) : Addresses(c) \subseteq S}
Maximal(S) ==
    {c \in Within(S) : \A d \in Within(S) : Addresses(c) \subseteq Addresses(d) => c = d}
Ordered == \A i, j \in DOMAIN cidrs : i < j => cidrs[i][1] < cidrs[j][1]

\* "the minimal set of CIDR blocks that exactly cover it"
\* (src/from_range.rs:121) and "the smallest equivalent set"
\* (src/summarize.rs:175): the maximal CIDRs of what was asked for, each once
\* and in order; and a range is refused for its size only if those are more
\* than the limit.  Nothing is claimed of the range of all of IPv6, whose ::/0
\* is followed by the CIDRs of the same addresses from ::1 on.
ExactCover ==
    request.tool \in {"from_range", "summarize"} /\ stage = "done" /\ ~ WholeSpace(request) =>
        /\ reply = "ok" => Ordered /\ ToSet(cidrs) = Maximal(Whole)
        /\ reply = "FromRangeLimitExceeded" => Cardinality(Maximal(Whole)) > limit

\* The children of a CIDR, by their places among the CIDRs found.
Deeper(c) == {q \in ToSet(list) : q > c[2]}
NextStep(c) == CHOOSE q \in Deeper(c) : \A r \in Deeper(c) : q <= r
ChildrenOf(c) == {i \in DOMAIN cidrs : cidrs[i][2] = NextStep(c) /\ check_contains(c, cidrs[i][1])}

Partitioned(c) ==
    /\ UNION {Addresses(cidrs[i]) : i \in ChildrenOf(c)} = Addresses(c)
    /\ \A i, j \in ChildrenOf(c) : i # j => Addresses(cidrs[i]) \cap Addresses(cidrs[j]) = {}

\* A split gives CIDRs of the prefix asked for that partition their parent, at
\* every level of a tree; the tree has as many as was promised; and as many
\* come as count_subnets says when no count is asked for.
SplitsPartition ==
    Answered({"generate", "hierarchy"}) =>
        IF request.tool = "hierarchy"
        THEN /\ \A c \in ToSet(cidrs) : Deeper(c) # {} => Partitioned(c)
             /\ Len(cidrs) = validate_steps.total + 1
        ELSE /\ limit = NULL => /\ Partitioned(supernet)
                                /\ Len(cidrs) = count_subnets(supernet, list[1])
             /\ limit # NULL => Len(cidrs) = limit /\ ChildrenOf(supernet) = DOMAIN cidrs

\* The addresses that the first i blocks of a list take.
taken[i \in 0 .. Len(list)] == IF i = 0 THEN 0 ELSE taken[i - 1] + Pow2[width - list[i]]

\* A list of blocks, largest first, is carved out of a supernet whenever their
\* addresses together are not more than its own: CIDR by CIDR, in the order of
\* the request, none over another or over the edge.
PacksAll ==
    request.tool = "vlsm" /\ stage = "done" =>
        /\ reply = "NoRoom" /\ (\A i \in DOMAIN list : list[i] \in supernet[2] + 1 .. width) =>
             taken[Len(list)] > Pow2[width - supernet[2]]
        /\ reply = "ok" =>
             /\ [i \in DOMAIN cidrs |-> cidrs[i][2]] = list
             /\ \A i \in DOMAIN cidrs :
                  /\ cidrs[i] \in CidrsOf(request.v4)
                  /\ Addresses(cidrs[i]) \subseteq Addresses(supernet)
             /\ \A i, j \in DOMAIN cidrs :
                  i # j => Addresses(cidrs[i]) \cap Addresses(cidrs[j]) = {}
             /\ cursor = IF taken[Len(list)] > MAX THEN NULL ELSE taken[Len(list)]
=============================================================================
