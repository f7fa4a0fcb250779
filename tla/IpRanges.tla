------------------------------ MODULE IpRanges ------------------------------
(***************************************************************************)
(* Address ranges, as src/ipam/operations.rs keeps them: a CIDR is its     *)
(* first and last address, inclusive, as integers, and whether it is IPv4. *)
(* find_free_blocks is given by what it returns; module FreeSpace models   *)
(* its loops word by word and compares the two, which agree for IPv4 and   *)
(* for IPv6 blocks that leave the last address alone and a size no larger  *)
(* than the block.                                                         *)
(***************************************************************************)
EXTENDS Integers, FiniteSets

IpRange == {r \in [start : Nat, end : Nat, v4 : BOOLEAN] : r.start <= r.end}

\* Families are not compared: an IPv4 and an IPv6 range overlap when their
\* integers do.
ranges_overlap(a, b) == a.start <= b.end /\ b.start <= a.end

range_contains(outer, inner) ==
    outer.start <= inner.start /\ inner.end <= outer.end

same_ip_version(a, b) == a.v4 = b.v4

\* Where a gap between the occupied ranges can end: before one of them, or at
\* the end of the block.
GapEnds(block, occupied) == {block.end} \cup {r.start - 1 : r \in occupied}

\* The addresses at which an aligned run of `size' addresses lies in a gap.
FreeStarts(block, occupied, size) ==
    {a \in UNION {block.start .. e - size + 1 : e \in GapEnds(block, occupied)} :
        /\ a % size = 0
        /\ \A r \in occupied : r.end < a \/ a + size - 1 < r.start}

\* The n smallest members of S.
Lowest(S, n) == {a \in S : Cardinality({b \in S : b < a}) < n}

find_free_blocks(block, occupied, size, count) ==
    Lowest(FreeStarts(block, occupied, size), count)

Cidr(start, size, v4) == [start |-> start, end |-> start + size - 1, v4 |-> v4]
=============================================================================
