----------------------------- MODULE FreeSpace -----------------------------
(***************************************************************************)
(* What is free in a block (src/ipam/operations.rs), loop by loop and word *)
(* by word: find_free_blocks picks the addresses of an auto-allocation, and*)
(* free_blocks reports the free space, whole or in blocks of one prefix.   *)
(* Both walk the gaps between the live allocations.                        *)
(***************************************************************************)
EXTENDS IpRanges, WordArithmetic, SequencesExt

CONSTANTS
    MaxCount,     \* bound on the blocks asked for
    MaxOccupied,  \* bound on the live allocations
    MaxResults    \* bound on the blocks listed, for the loops that do not end

ASSUME BoundsAssumption == {MaxCount, MaxOccupied, MaxResults} \subseteq Nat

VARIABLES
    op,                       \* "fit" (find_free_blocks) or "report" (free_blocks)
    block, occupied, prefix, count,  \* its arguments
    unpassed, \* the allocations that find_gaps has not passed yet
    from,     \* its cursor, the end of what it has passed
    gaps,     \* the gaps not searched yet
    addr,     \* the next address in the first of them
    sub,      \* the next sub-block of the CIDR at `addr' that is being split
    results,  \* the CIDRs found, as <<address, prefix>>
    pc

arguments == <<op, block, occupied, prefix, count>>
scanned == <<unpassed, from>>
vars == <<arguments, scanned, gaps, addr, sub, results, pc>>

bits == bits_of(block.v4)

size_of(p) == shl_one(bits - p)

\* A CIDR at `a' of prefix p ends by e.
EndsBy(a, p, e) == wrap(a + size_of(p) - 1) <= e

Disjoint(S) == \A r, s \in S : r # s => ~ ranges_overlap(r, s)

Inside == {c \in Cidrs(block.v4) : range_contains(block, c)}

\* The subsets of S with at most n members.
UpTo(n, S) == {{}} \cup {Range(f) : f \in [1 .. n -> S]}

\* The addresses in a CIDR of the prefix asked for.
Size == Pow2[bits - prefix]

\* No value of the call leaves its type, as 32 - prefix does for a prefix longer
\* than an address, and sums of IPv6 addresses do at the ends of the word or for
\* more than the block.
InWord ==
    /\ prefix # NULL => prefix <= bits
    /\ \/ block.v4
       \/ op = "fit" /\ block.end < MAX /\ Size <= block.end - block.start + 1
       \/ op = "report" /\ block.start > 0 /\ block.end < MAX

Init ==
    /\ op \in {"fit", "report"}
    /\ block \in Cidrs(TRUE) \cup Cidrs(FALSE)
    /\ occupied \in {S \in UpTo(MaxOccupied, Inside) : Disjoint(S)}
    /\ prefix \in u8 \cup (IF op = "report" THEN {NULL} ELSE {})
    /\ count \in (IF op = "report" THEN {0} ELSE 0 .. MaxCount)
    /\ unpassed = occupied /\ from = block.start /\ gaps = <<>>
    /\ addr = 0 /\ sub = 0
    /\ results = <<>>
    /\ pc = "call"

\* find_free_blocks refuses a prefix longer than an address; free_blocks takes
\* any.
Start ==
    /\ pc = "call"
    /\ pc' = IF op = "fit" /\ prefix > bits THEN "refused" ELSE "scan"
    /\ UNCHANGED <<arguments, scanned, gaps, addr, sub, results>>

-----------------------------------------------------------------------------
(* find_gaps *)

\* The allocations are sorted by their first address.
PassRange ==
    /\ pc = "scan"
    /\ \E r \in unpassed :
          /\ \A s \in unpassed : r.start <= s.start
          /\ unpassed' = unpassed \ {r}
          /\ gaps' = IF r.start > from THEN Append(gaps, <<from, r.start - 1>>) ELSE gaps
          /\ from' = IF r.end >= from THEN saturating_add(r.end, 1) ELSE from
    /\ UNCHANGED <<arguments, addr, sub, results, pc>>

LastGap ==
    /\ pc = "scan" /\ unpassed = {}
    /\ gaps' = IF from <= block.end THEN Append(gaps, <<from, block.end>>) ELSE gaps
    /\ pc' = "gap"
    /\ UNCHANGED <<arguments, scanned, addr, sub, results>>

-----------------------------------------------------------------------------
\* Mutant of align: a gap is used from its first address.
Unaligned(a) == a

\* The first multiple of the size at or after `a'.
align(a) ==
    IF a % size_of(prefix) = 0 THEN a
    ELSE wrap(a + (size_of(prefix) - (a % size_of(prefix))))

EnterGap ==
    /\ pc = "gap" /\ gaps # <<>>
    /\ IF op = "fit"
       THEN addr' = align(gaps[1][1]) /\ pc' = "fit"
       ELSE addr' = gaps[1][1] /\ pc' = "cover"
    /\ UNCHANGED <<arguments, scanned, gaps, sub, results>>

Return ==
    /\ pc = "gap" /\ gaps = <<>>
    /\ pc' = "done"
    /\ UNCHANGED <<arguments, scanned, gaps, addr, sub, results>>

(* find_free_blocks *)

Wanted == EndsBy(addr, prefix, gaps[1][2]) /\ Len(results) < count

Take ==
    /\ pc = "fit" /\ Wanted
    /\ results' = Append(results, <<addr, prefix>>)
    /\ addr' = wrap(addr + size_of(prefix))
    /\ UNCHANGED <<arguments, scanned, gaps, sub, pc>>

NextGap ==
    /\ pc = "fit" /\ ~ Wanted
    /\ gaps' = Tail(gaps)
    /\ pc' = IF Len(results) >= count THEN "done" ELSE "gap"
    /\ UNCHANGED <<arguments, scanned, addr, sub, results>>

(* free_blocks: range_to_cidrs over each gap, split_cidr_to_prefix           *)

\* Mutant of best_prefix: every CIDR of the cover is one address.
OneAddress == bits

\* The shortest prefix, not cutting below the address's alignment, whose CIDR
\* ends by the end of the gap.
best_prefix ==
    LET max_prefix ==
          IF addr = 0 \/ trailing_zeros(addr) > bits THEN bits ELSE trailing_zeros(addr)
        fits == {p \in bits - max_prefix .. bits : EndsBy(addr, p, gaps[1][2])}
    IN  IF fits = {} THEN bits ELSE CHOOSE p \in fits : \A q \in fits : p <= q

Covering == pc = "cover" /\ addr <= gaps[1][2] /\ Len(results) < MaxResults

\* Mutant of Emit: the cursor stays where it is.
EmitInPlace ==
    /\ Covering
    /\ prefix # NULL => best_prefix >= prefix
    /\ results' = results \o (IF prefix \in {NULL, best_prefix}
                              THEN <<<<addr, best_prefix>>>> ELSE <<>>)
    /\ UNCHANGED <<arguments, scanned, gaps, addr, sub, pc>>

\* List the CIDR, unless it is smaller than the target.
Emit ==
    /\ Covering
    /\ prefix # NULL => best_prefix >= prefix
    /\ results' = results \o (IF prefix \in {NULL, best_prefix}
                              THEN <<<<addr, best_prefix>>>> ELSE <<>>)
    /\ addr' = wrap(addr + size_of(best_prefix))
    /\ UNCHANGED <<arguments, scanned, gaps, sub, pc>>

\* Split a CIDR larger than the target.
StartSplit ==
    /\ Covering
    /\ prefix # NULL /\ best_prefix < prefix
    /\ sub' = addr /\ pc' = "split"
    /\ UNCHANGED <<arguments, scanned, gaps, addr, results>>

\* The last address of the CIDR that is split, which is parsed again.
SplitEnd == addr + Pow2[bits - best_prefix] - 1

\* Mutant of Split: the last sub-block is left out.
SplitShort ==
    /\ pc = "split" /\ Len(results) < MaxResults
    /\ IF sub + size_of(prefix) - 1 < SplitEnd
       THEN /\ results' = Append(results, <<sub, prefix>>)
            /\ sub' = wrap(sub + size_of(prefix))
            /\ UNCHANGED <<addr, pc>>
       ELSE /\ addr' = wrap(addr + size_of(best_prefix)) /\ pc' = "cover"
            /\ UNCHANGED <<results, sub>>
    /\ UNCHANGED <<arguments, scanned, gaps>>

Split ==
    /\ pc = "split" /\ Len(results) < MaxResults
    /\ IF EndsBy(sub, prefix, SplitEnd)
       THEN /\ results' = Append(results, <<sub, prefix>>)
            /\ sub' = wrap(sub + size_of(prefix))
            /\ UNCHANGED <<addr, pc>>
       ELSE /\ addr' = wrap(addr + size_of(best_prefix)) /\ pc' = "cover"
            /\ UNCHANGED <<results, sub>>
    /\ UNCHANGED <<arguments, scanned, gaps>>

NextRange ==
    /\ pc = "cover" /\ addr > gaps[1][2]
    /\ gaps' = Tail(gaps) /\ pc' = "gap"
    /\ UNCHANGED <<arguments, scanned, addr, sub, results>>

Next ==
    \/ Start \/ PassRange \/ LastGap
    \/ EnterGap \/ Return \/ Take \/ NextGap \/ Emit \/ StartSplit \/ Split \/ NextRange

Spec == Init /\ [][Next]_vars

-----------------------------------------------------------------------------
Starts == {c[1] : c \in ToSet(results)}

Ascending == \A i, j \in DOMAIN results : i < j => results[i][1] < results[j][1]

\* "Find the first N free blocks of a given prefix length"
\* (src/ipam/operations.rs:1149): in address order, the lowest aligned runs
\* inside the block and clear of what is occupied, as IpRanges defines them,
\* for every call whose values stay in their types.
FindsFirstFree ==
    op = "fit" /\ pc = "done" /\ InWord =>
        /\ Ascending
        /\ Starts = find_free_blocks(block, occupied, Size, count)

\* A report for one prefix of the family lists exactly the blocks that an
\* auto-allocation of that prefix could be given, each once, for an IPv4 block
\* and for an IPv6 block that leaves the first and the last address alone.
\* Nothing is claimed of the other calls: free_blocks does not check the prefix
\* (src/ipam/operations.rs:333) and may then list blocks no allocation can get.
ReportsWhatFits ==
    op = "report" /\ prefix # NULL /\ pc = "done" /\ InWord =>
        /\ Ascending
        /\ Starts = FreeStarts(block, occupied, Size)
        /\ \A i \in DOMAIN results : results[i][2] = prefix

\* "the minimal set of CIDR blocks" (src/ipam/operations.rs:1197): the whole
\* report is the maximal CIDRs of the free space, each once, of the same blocks.
Free == {c \in Inside : \A r \in occupied : ~ ranges_overlap(c, r)}
ReportIsMinimal ==
    op = "report" /\ prefix = NULL /\ pc = "done" /\ InWord =>
        /\ Ascending
        /\ {<<c[1], c[1] + Pow2[bits - c[2]] - 1>> : c \in ToSet(results)}
           = {<<c.start, c.end>> :
                c \in {c \in Free : \A d \in Free : range_contains(d, c) => d = c}}
=============================================================================
