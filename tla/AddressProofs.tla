---------------------------- MODULE AddressProofs ----------------------------
(***************************************************************************)
(* FreeSpace and Calculators for words of any width, CIDRs of any length,  *)
(* any number of allocations and any list that is given: what the searches *)
(* for free blocks and the calculators return.  FirstFree, WhatFits and    *)
(* Minimal are about the calls that InWord describes, ExactlyCovered is    *)
(* about every range but that of all of IPv6: elsewhere the values of the  *)
(* code leave their types, and it does something else.                     *)
(*                                                                         *)
(* 1. Powers of two: Pow2 has the value its recursive definition says (its *)
(*    fixpoint exists), it is monotone, and each divides the greater ones. *)
(* 2. Alignment: which addresses are multiples, and that two CIDRs nest or *)
(*    are disjoint.                                                        *)
(* 3. find_gaps: every clear run of the block lies in one gap.             *)
(* 4. find_free_blocks, then the report of one prefix and of all.          *)
(* 5. The calculators, one after the other: blocks carved one behind the   *)
(*    other; the largest CIDRs of a range and of a list, in the order of   *)
(*    their addresses; the children of one CIDR; the tree, level by level. *)
(***************************************************************************)
EXTENDS FreeSpace, Calculators, FiniteSetTheorems, WellFoundedInduction, TLAPS

\* The bits of a machine word.
LEMMA WordNat == Word \in Nat \ {0} /\ V4Bits \in 1 .. Word - 1
BY WordAssumption

-----------------------------------------------------------------------------
(* Induction over the natural numbers, for a set instead of a predicate.   *)

\* A set of naturals that is not empty has a least member.
LEMMA LeastMember ==
    ASSUME NEW S \in SUBSET Nat, S # {}
    PROVE  \E n \in S : \A m \in S : n <= m
<1>1. \E n \in S : \A m \in S : ~ (<<m, n>> \in OpToRel(<, Nat))
    BY NatLessThanWellFounded, WFMin, Zenon
<1>2. PICK n \in S : \A m \in S : ~ (<<m, n>> \in OpToRel(<, Nat))
    BY <1>1
<1>3. \A m \in S : n <= m
  <2> TAKE m \in S
  <2>1. m \in Nat /\ n \in Nat
      OBVIOUS
  <2>2. ~ (m < n)
    <3>1. ASSUME m < n PROVE <<m, n>> \in OpToRel(<, Nat)
        BY <2>1, <3>1, Zenon DEF OpToRel
    <3> QED
        BY <3>1, <1>2, Zenon
  <2> QED
      BY <2>1, <2>2
<1> QED
    BY <1>3

\* A set of naturals with a bound that is not empty has a greatest member.
LEMMA GreatestMember ==
    ASSUME NEW S \in SUBSET Nat, S # {}, NEW b \in Nat, \A n \in S : n <= b
    PROVE  \E n \in S : \A m \in S : m <= n
<1> DEFINE T == {k \in Nat : \E n \in S : k = b - n}
<1>1. T \in SUBSET Nat /\ T # {}
  <2>1. PICK n \in S : TRUE
      OBVIOUS
  <2>2. b - n \in Nat
      BY <2>1
  <2> QED
      BY <2>1, <2>2
<1>2. PICK k \in T : \A l \in T : k <= l
  <2> HIDE DEF T
  <2> QED
      BY <1>1, LeastMember
<1>3. PICK n \in S : k = b - n
    BY <1>2
<1>4. \A m \in S : m <= n
  <2> TAKE m \in S
  <2>1. b - m \in Nat /\ n \in Nat /\ m \in Nat /\ k \in Nat
      BY <1>2
  <2>2. b - m \in T
      BY <2>1
  <2>3. k <= b - m
      BY <2>2, <1>2
  <2> QED
      BY <2>1, <2>3, <1>3
<1> QED
    BY <1>3, <1>4

\* A set that holds 0 and the successor of each of its members holds every
\* natural number.
LEMMA Induction ==
    ASSUME NEW S, 0 \in S, \A n \in Nat : n \in S => n + 1 \in S
    PROVE  Nat \subseteq S
<1> SUFFICES ASSUME Nat \ S # {} PROVE FALSE
    OBVIOUS
<1>1. PICK n \in Nat \ S : \A m \in Nat \ S : n <= m
    BY LeastMember
<1>2. n # 0 /\ n - 1 \in Nat
    BY <1>1
<1>3. n - 1 \in S
    BY <1>1, <1>2
<1>4. n \in S
  <2>1. (n - 1) + 1 \in S
      BY <1>2, <1>3
  <2>2. (n - 1) + 1 = n
      BY <1>1
  <2> QED
      BY <2>1, <2>2
<1> QED
    BY <1>1, <1>4

-----------------------------------------------------------------------------
(* Pow2.                                                                   *)

\* The functions that count as Pow2 does up to n.
Powers(n) ==
    {g \in [0 .. n -> Nat] : g[0] = 1 /\ \A i \in 1 .. n : g[i] = 2 * g[i - 1]}

\* There is one of them for every n.
LEMMA PowersExist == \A n \in Nat : Powers(n) # {}
<1> DEFINE S == {n \in Nat : Powers(n) # {}}
<1>1. 0 \in S
  <2>1. [i \in 0 .. 0 |-> 1] \in Powers(0)
      BY DEF Powers
  <2> QED
      BY <2>1
<1>2. ASSUME NEW n \in Nat, n \in S PROVE n + 1 \in S
  <2>1. PICK g : g \in Powers(n)
      BY <1>2
  <2> DEFINE h == [i \in 0 .. n + 1 |-> IF i = n + 1 THEN 2 * g[n] ELSE g[i]]
  <2>2. g[n] \in Nat
      BY <2>1 DEF Powers
  <2>3. h \in [0 .. n + 1 -> Nat]
      BY <2>1, <2>2 DEF Powers
  <2>4. h[0] = 1
      BY <2>1 DEF Powers
  <2>5. ASSUME NEW i \in 1 .. n + 1 PROVE h[i] = 2 * h[i - 1]
    <3>1. CASE i = n + 1
      <4>1. h[i] = 2 * g[n] /\ i - 1 = n /\ n \in 0 .. n + 1 /\ n # n + 1
          BY <3>1
      <4>2. h[n] = g[n]
          BY <4>1
      <4> QED
          BY <4>1, <4>2
    <3>2. CASE i # n + 1
      <4>1. i \in 1 .. n /\ i - 1 \in 0 .. n + 1 /\ i - 1 # n + 1
          BY <3>2
      <4>2. h[i] = g[i] /\ h[i - 1] = g[i - 1]
          BY <4>1, <3>2
      <4>3. g[i] = 2 * g[i - 1]
          BY <4>1, <2>1 DEF Powers
      <4> QED
          BY <4>2, <4>3
    <3> QED
        BY <3>1, <3>2
  <2>6. h \in Powers(n + 1)
    <3> HIDE DEF h
    <3> QED
        BY <2>3, <2>4, <2>5 DEF Powers
  <2> QED
      BY <2>6
<1> HIDE DEF S
<1>3. Nat \subseteq S
    BY <1>1, <1>2, Induction
<1> QED
    BY <1>3 DEF S

\* Two of them agree as far as both go.
LEMMA PowersAgree ==
    ASSUME NEW m \in Nat, NEW n \in Nat, m <= n,
           NEW g \in Powers(m), NEW h \in Powers(n)
    PROVE  \A i \in 0 .. m : g[i] = h[i]
<1> DEFINE S == {i \in Nat : i <= m => g[i] = h[i]}
<1>1. 0 \in S
    BY DEF Powers
<1>2. ASSUME NEW i \in Nat, i \in S PROVE i + 1 \in S
  <2> SUFFICES ASSUME i + 1 <= m PROVE g[i + 1] = h[i + 1]
      OBVIOUS
  <2>1. g[i] = h[i]
      BY <1>2
  <2>2. i + 1 \in 1 .. m /\ i + 1 \in 1 .. n /\ (i + 1) - 1 = i
      OBVIOUS
  <2>3. g[i + 1] = 2 * g[(i + 1) - 1] /\ h[i + 1] = 2 * h[(i + 1) - 1]
      BY <2>2 DEF Powers
  <2> QED
      BY <2>1, <2>2, <2>3
<1> HIDE DEF S
<1>3. Nat \subseteq S
    BY <1>1, <1>2, Induction
<1>4. ASSUME NEW i \in 0 .. m PROVE g[i] = h[i]
  <2>1. i \in Nat /\ i <= m
      OBVIOUS
  <2> QED
      BY <2>1, <1>3 DEF S
<1> QED
    BY <1>4

\* Pow2 is the function its definition asks for.
LEMMA Pow2Def ==
    Pow2 = [n \in Nat |-> IF n = 0 THEN 1 ELSE 2 * Pow2[n - 1]]
<1> DEFINE P(n) == CHOOSE g : g \in Powers(n)
           F == [n \in Nat |-> P(n)[n]]
<1>1. \A n \in Nat : P(n) \in Powers(n)
    BY PowersExist
<1> HIDE DEF P
<1>2. ASSUME NEW n \in Nat
      PROVE  F[n] = IF n = 0 THEN 1 ELSE 2 * F[n - 1]
  <2>1. CASE n = 0
    <3>1. F[0] = P(0)[0] /\ P(0) \in Powers(0)
        BY <1>1
    <3> QED
        BY <3>1, <2>1 DEF Powers
  <2>2. CASE n # 0
    <3>1. n - 1 \in Nat /\ n - 1 <= n /\ n \in 1 .. n /\ n - 1 \in 0 .. n - 1
        BY <2>2
    <3>2. P(n) \in Powers(n) /\ P(n - 1) \in Powers(n - 1)
        BY <1>1, <3>1
    <3>3. P(n)[n] = 2 * P(n)[n - 1]
        BY <3>1, <3>2 DEF Powers
    <3>4. P(n - 1)[n - 1] = P(n)[n - 1]
        BY <3>1, <3>2, PowersAgree
    <3>5. F[n] = P(n)[n] /\ F[n - 1] = P(n - 1)[n - 1]
        BY <3>1
    <3> QED
        BY <3>3, <3>4, <3>5, <2>2
  <2> QED
      BY <2>1, <2>2
<1>3. F = [n \in Nat |-> IF n = 0 THEN 1 ELSE 2 * F[n - 1]]
  <2>1. F = [n \in Nat |-> F[n]]
      OBVIOUS
  <2> HIDE DEF F
  <2> QED
      BY <1>2, <2>1, Zenon
<1>4. \E f : f = [n \in Nat |-> IF n = 0 THEN 1 ELSE 2 * f[n - 1]]
  <2> HIDE DEF F
  <2> QED
      BY <1>3
<1> QED
    BY <1>4 DEF Pow2

\* Its values.
LEMMA Pow2Values ==
    /\ Pow2[0] = 1
    /\ \A n \in Nat : Pow2[n + 1] = 2 * Pow2[n]
    /\ \A n \in Nat : Pow2[n] \in Nat \ {0}
<1> DEFINE B(n) == IF n = 0 THEN 1 ELSE 2 * Pow2[n - 1]
<1>1. \A n \in Nat : Pow2[n] = B(n)
    BY Pow2Def
<1>2. Pow2[0] = 1
    BY <1>1
<1>3. ASSUME NEW n \in Nat PROVE Pow2[n + 1] = 2 * Pow2[n]
  <2>1. n + 1 \in Nat /\ n + 1 # 0 /\ (n + 1) - 1 = n
      OBVIOUS
  <2>2. Pow2[n + 1] = B(n + 1)
      BY <1>1, <2>1
  <2> QED
      BY <2>1, <2>2
<1> DEFINE S == {n \in Nat : Pow2[n] \in Nat \ {0}}
<1>4. 0 \in S
    BY <1>2
<1>5. ASSUME NEW n \in Nat, n \in S PROVE n + 1 \in S
  <2>1. Pow2[n] \in Nat \ {0} /\ Pow2[n + 1] = 2 * Pow2[n]
      BY <1>3, <1>5
  <2>2. 2 * Pow2[n] \in Nat \ {0}
      BY <2>1
  <2> QED
      BY <2>1, <2>2
<1>6. Nat \subseteq S
  <2> HIDE DEF S
  <2> QED
      BY <1>4, <1>5, Induction
<1> QED
    BY <1>2, <1>3, <1>6

\* Adding exponents multiplies the powers.
LEMMA Pow2Sum ==
    ASSUME NEW m \in Nat
    PROVE  \A n \in Nat : Pow2[m + n] = Pow2[n] * Pow2[m]
<1> DEFINE S == {n \in Nat : Pow2[m + n] = Pow2[n] * Pow2[m]}
<1>1. 0 \in S
  <2>1. m + 0 = m /\ Pow2[0] = 1 /\ Pow2[m] \in Nat
      BY Pow2Values
  <2>2. Pow2[m] = 1 * Pow2[m]
      BY <2>1
  <2> QED
      BY <2>1, <2>2
<1>2. ASSUME NEW n \in Nat, n \in S PROVE n + 1 \in S
  <2>1. m + (n + 1) = (m + n) + 1 /\ m + n \in Nat
      OBVIOUS
  <2>2. Pow2[m + (n + 1)] = 2 * Pow2[m + n]
      BY <2>1, Pow2Values
  <2>3. Pow2[n + 1] = 2 * Pow2[n]
      BY Pow2Values
  <2>4. PICK x \in Nat : x = Pow2[n]
      BY Pow2Values
  <2>5. PICK y \in Nat : y = Pow2[m]
      BY Pow2Values
  <2>6. Pow2[m + n] = x * y
      BY <1>2, <2>4, <2>5
  <2>7. 2 * (x * y) = (2 * x) * y
      BY <2>4, <2>5
  <2>8. Pow2[m + (n + 1)] = Pow2[n + 1] * Pow2[m]
      BY <2>2, <2>3, <2>4, <2>5, <2>6, <2>7
  <2> QED
      BY <2>8
<1> HIDE DEF S
<1>3. Nat \subseteq S
    BY <1>1, <1>2, Induction
<1> QED
    BY <1>3 DEF S

\* A power divides each power that is not smaller.
LEMMA Pow2Divides ==
    ASSUME NEW m \in Nat, NEW n \in Nat, m <= n
    PROVE  \E q \in Nat \ {0} : Pow2[n] = q * Pow2[m]
<1>1. n - m \in Nat /\ m + (n - m) = n
    OBVIOUS
<1>2. Pow2[m + (n - m)] = Pow2[n - m] * Pow2[m]
    BY <1>1, Pow2Sum
<1>3. Pow2[n - m] \in Nat \ {0}
    BY <1>1, Pow2Values
<1> QED
    BY <1>1, <1>2, <1>3

\* The powers grow.
LEMMA Pow2Grows ==
    ASSUME NEW m \in Nat, NEW n \in Nat
    PROVE  /\ m <= n => Pow2[m] <= Pow2[n]
           /\ m < n => 2 * Pow2[m] <= Pow2[n] /\ Pow2[m] < Pow2[n]
<1>1. ASSUME NEW k \in Nat, NEW l \in Nat, k <= l PROVE Pow2[k] <= Pow2[l]
  <2>1. PICK q \in Nat \ {0} : Pow2[l] = q * Pow2[k]
      BY <1>1, Pow2Divides
  <2>2. PICK x \in Nat : x = Pow2[k]
      BY Pow2Values
  <2>3. q * x >= x
    <3>1. q = 1 + (q - 1) /\ q - 1 \in Nat
        OBVIOUS
    <3>2. (q - 1) * x >= 0
        BY <3>1, <2>2
    <3>3. q * x = x + (q - 1) * x
        BY <3>1, <2>2
    <3> QED
        BY <3>2, <3>3, <2>2
  <2> QED
      BY <2>1, <2>2, <2>3
<1>2. ASSUME m < n PROVE 2 * Pow2[m] <= Pow2[n] /\ Pow2[m] < Pow2[n]
  <2>1. m + 1 <= n /\ m + 1 \in Nat
      BY <1>2
  <2>2. Pow2[m + 1] <= Pow2[n]
      BY <1>1, <2>1
  <2>3. Pow2[m + 1] = 2 * Pow2[m] /\ Pow2[m] \in Nat \ {0} /\ Pow2[n] \in Nat
      BY Pow2Values
  <2> QED
      BY <2>2, <2>3
<1> QED
    BY <1>1, <1>2

-----------------------------------------------------------------------------
(* Multiples.                                                              *)

\* Multiplication distributes over addition.
LEMMA Distributes == \A p, q, x \in Int : (p + q) * x = p * x + q * x
OBVIOUS

\* The remainder is zero exactly for the multiples.
LEMMA Multiples ==
    ASSUME NEW a \in Nat, NEW s \in Nat \ {0}
    PROVE  a % s = 0 <=> \E q \in Nat : a = q * s
<1>1. a % s \in 0 .. s - 1 /\ a = (a \div s) * s + (a % s)
    OBVIOUS
<1>2. ASSUME a % s = 0 PROVE \E q \in Nat : a = q * s
  <2> DEFINE q == a \div s
  <2>1. q \in Nat /\ s \in Nat
      OBVIOUS
  <2>2. a = q * s + (a % s)
      BY <1>1
  <2> HIDE DEF q
  <2>3. a = q * s
      BY <2>1, <2>2, <1>2
  <2> QED
      BY <2>1, <2>3
<1>3. ASSUME NEW q \in Nat, a = q * s PROVE a % s = 0
    BY <1>3
<1> QED
    BY <1>2, <1>3

\* The sum and the difference of two multiples are multiples.
LEMMA MultiplesSum ==
    ASSUME NEW a \in Nat, NEW b \in Nat, NEW s \in Nat \ {0}, a % s = 0, b % s = 0
    PROVE  (a + b) % s = 0 /\ (b <= a => (a - b) % s = 0)
<1>1. PICK p \in Nat : a = p * s
    BY Multiples
<1>2. PICK q \in Nat : b = q * s
    BY Multiples
<1>3. (a + b) % s = 0
  <2>1. a + b = (p + q) * s /\ p + q \in Nat /\ a + b \in Nat
      BY <1>1, <1>2
  <2> QED
      BY <2>1, Multiples
<1>4. ASSUME b <= a PROVE (a - b) % s = 0
  <2>1. q <= p
    <3> SUFFICES ASSUME p < q PROVE FALSE
        OBVIOUS
    <3>1. q - p \in Nat \ {0} /\ b = p * s + (q - p) * s
        BY <1>2
    <3>2. (q - p) * s > 0
        BY <3>1
    <3> QED
        BY <3>1, <3>2, <1>1, <1>4
  <2>2. a - b = (p - q) * s /\ p - q \in Nat /\ a - b \in Nat
      BY <1>1, <1>2, <1>4, <2>1
  <2> QED
      BY <2>2, Multiples
<1> QED
    BY <1>3, <1>4

\* A size lies between two multiples of it.
LEMMA NextMultiple ==
    ASSUME NEW a \in Nat, NEW b \in Nat, NEW s \in Nat \ {0}, a % s = 0, b % s = 0, a < b
    PROVE  a + s <= b
<1>1. (b - a) % s = 0 /\ b - a \in Nat \ {0}
  <2>1. a <= b
      OBVIOUS
  <2>2. (b - a) % s = 0
      BY <2>1, MultiplesSum
  <2> QED
      BY <2>2
<1>2. PICK q \in Nat : b - a = q * s
    BY <1>1, Multiples
<1>3. q # 0
    BY <1>1, <1>2
<1>4. q - 1 \in Nat /\ q * s = s + (q - 1) * s
    BY <1>3
<1>5. (q - 1) * s >= 0
    BY <1>4
<1> QED
    BY <1>2, <1>4, <1>5

\* What is aligned to a power is aligned to the smaller ones.
LEMMA Aligned ==
    ASSUME NEW a \in Nat, NEW m \in Nat, NEW n \in Nat, m <= n, a % Pow2[n] = 0
    PROVE  a % Pow2[m] = 0
<1>1. Pow2[n] \in Nat \ {0} /\ Pow2[m] \in Nat \ {0}
    BY Pow2Values
<1>2. PICK p \in Nat : a = p * Pow2[n]
    BY <1>1, Multiples
<1>3. PICK q \in Nat \ {0} : Pow2[n] = q * Pow2[m]
    BY Pow2Divides
<1>4. PICK x \in Nat \ {0} : x = Pow2[m]
    BY <1>1
<1>5. p * (q * x) = (p * q) * x /\ p * q \in Nat
    OBVIOUS
<1>6. a = (p * q) * Pow2[m]
    BY <1>2, <1>3, <1>4, <1>5
<1> QED
    BY <1>1, <1>5, <1>6, Multiples

\* The powers themselves are.
LEMMA Pow2Aligned ==
    ASSUME NEW m \in Nat, NEW n \in Nat, m <= n
    PROVE  Pow2[n] % Pow2[m] = 0
<1>1. PICK q \in Nat \ {0} : Pow2[n] = q * Pow2[m]
    BY Pow2Divides
<1> QED
    BY <1>1, Pow2Values, Multiples

-----------------------------------------------------------------------------
(* Words.                                                                  *)

\* A word that has not left its range is what it was.
LEMMA WrapSmall == ASSUME NEW n \in 0 .. MAX PROVE wrap(n) = n
<1>1. PICK s \in Nat \ {0} : s = Pow2[Word]
    BY WordNat, Pow2Values
<1>2. n \in 0 .. s - 1
    BY <1>1 DEF MAX
<1>3. n % s = n
    BY <1>2
<1> QED
    BY <1>1, <1>3 DEF wrap

\* Below the width of a word the shift is the power.
LEMMA SizeOf ==
    ASSUME NEW p, bits - p \in 0 .. Word - 1
    PROVE  size_of(p) = Pow2[bits - p]
<1>1. PICK k \in 0 .. Word - 1 : k = bits - p
    OBVIOUS
<1>2. k % Word = k
    BY WordNat
<1> QED
    BY <1>1, <1>2 DEF size_of, shl_one

\* An aligned CIDR of an address of the word ends in the word.
LEMMA NoWrap ==
    ASSUME NEW a \in 0 .. MAX, NEW k \in 0 .. Word, a % Pow2[k] = 0
    PROVE  a + Pow2[k] - 1 \in 0 .. MAX /\ wrap(a + Pow2[k] - 1) = a + Pow2[k] - 1
<1>1. k \in Nat /\ Word \in Nat /\ k <= Word
    BY WordNat
<1>2. Pow2[k] \in Nat \ {0} /\ Pow2[Word] \in Nat \ {0}
    BY <1>1, Pow2Values
<1>3. Pow2[Word] % Pow2[k] = 0
    BY <1>1, Pow2Aligned
<1>4. a \in Nat /\ a < Pow2[Word]
    BY <1>2 DEF MAX
<1>5. a + Pow2[k] <= Pow2[Word]
    BY <1>2, <1>3, <1>4, NextMultiple
<1>6. a + Pow2[k] - 1 \in 0 .. MAX
    BY <1>2, <1>4, <1>5 DEF MAX
<1> QED
    BY <1>6, WrapSmall

\* The bits of an address fit the word.
LEMMA BitsOf ==
    /\ bits \in Nat \ {0} /\ bits <= Word
    /\ bits < Word <=> block.v4
    /\ bits = bits_of(block.v4)
BY WordNat DEF bits, bits_of

-----------------------------------------------------------------------------
(* CIDRs.                                                                  *)

\* The CIDR of 2 ^ k addresses at a multiple of 2 ^ k.
IsCidr(c, k) == c.start % Pow2[k] = 0 /\ c.end = c.start + Pow2[k] - 1

\* A CIDR is an aligned run of a power of two addresses of its family.
LEMMA CidrsForm ==
    ASSUME NEW v4 \in BOOLEAN
    PROVE  \A c : c \in Cidrs(v4) <=>
              /\ c \in [start : Nat, end : Nat, v4 : {v4}]
              /\ \E k \in 0 .. bits_of(v4) : IsCidr(c, k) /\ c.end < Pow2[bits_of(v4)]
<1> DEFINE n == bits_of(v4)
<1>1. n \in Nat
    BY WordNat DEF bits_of
<1> HIDE DEF n
<1>2. ASSUME NEW k \in 0 .. n
      PROVE  /\ Pow2[k] \in Nat \ {0} /\ Pow2[n - k] \in Nat \ {0}
             /\ Pow2[n] = Pow2[n - k] * Pow2[k]
  <2>1. k \in Nat /\ n - k \in Nat /\ k + (n - k) = n
      BY <1>1
  <2> QED
      BY <2>1, Pow2Sum, Pow2Values
<1>3. ASSUME NEW k \in 0 .. n, NEW i \in 0 .. Pow2[n - k] - 1, NEW c,
             c = [start |-> i * Pow2[k], end |-> (i + 1) * Pow2[k] - 1, v4 |-> v4]
      PROVE  /\ c \in [start : Nat, end : Nat, v4 : {v4}]
             /\ IsCidr(c, k) /\ c.end < Pow2[n]
  <2>1. PICK x \in Nat \ {0} : x = Pow2[k]
      BY <1>2
  <2>2. PICK y \in Nat \ {0} : y = Pow2[n - k]
      BY <1>2
  <2>3. i \in Nat /\ i + 1 <= y
      BY <2>2
  <2>4. i * x \in Nat /\ (i + 1) * x = i * x + x
      BY <2>1, <2>3
  <2>5. (i * x) % x = 0
      BY <2>1, <2>3
  <2>6. (i + 1) * x <= y * x
    <3>1. PICK j \in Nat : y = (i + 1) + j
      <4>1. y - (i + 1) \in Nat /\ y = (i + 1) + (y - (i + 1))
          BY <2>2, <2>3
      <4> QED
          BY <4>1
    <3>2. y * x = (i + 1) * x + j * x
      <4>1. i + 1 \in Int /\ j \in Int /\ x \in Int
          BY <2>3
      <4>2. ((i + 1) + j) * x = (i + 1) * x + j * x
          BY <4>1, Distributes
      <4> QED
          BY <3>1, <4>2
    <3>3. PICK u \in Nat : u = j * x
        BY <2>1
    <3>4. PICK v \in Nat : v = (i + 1) * x
        BY <2>1, <2>3
    <3>5. PICK w \in Nat : w = y * x
        BY <2>1, <2>2
    <3>6. v <= w
      <4>1. w = v + u
          BY <3>2, <3>3, <3>4, <3>5
      <4> QED
          BY <4>1
    <3> QED
        BY <3>4, <3>5, <3>6
  <2>7. Pow2[n] = y * x
      BY <1>2, <2>1, <2>2
  <2>8. c.start = i * x /\ c.end = i * x + x - 1
      BY <1>3, <2>1, <2>4
  <2>9. IsCidr(c, k)
      BY <2>1, <2>5, <2>8 DEF IsCidr
  <2>10. c.end < Pow2[n]
    <3>1. PICK z \in Nat : z = i * x
        BY <2>4
    <3>2. PICK w \in Nat : w = y * x
        BY <2>1, <2>2
    <3> QED
        BY <3>1, <3>2, <2>1, <2>4, <2>6, <2>7, <2>8
  <2>11. c.end \in Nat
    <3>1. PICK z \in Nat : z = i * x
        BY <2>4
    <3> QED
        BY <3>1, <2>1, <2>8
  <2> QED
      BY <1>3, <2>4, <2>8, <2>9, <2>10, <2>11
<1>4. ASSUME NEW c \in [start : Nat, end : Nat, v4 : {v4}], NEW k \in 0 .. n,
             IsCidr(c, k), c.end < Pow2[n]
      PROVE  \E i \in 0 .. Pow2[n - k] - 1 :
                c = [start |-> i * Pow2[k], end |-> (i + 1) * Pow2[k] - 1, v4 |-> v4]
  <2>1. PICK x \in Nat \ {0} : x = Pow2[k]
      BY <1>2
  <2>2. PICK y \in Nat \ {0} : y = Pow2[n - k]
      BY <1>2
  <2>3. PICK i \in Nat : c.start = i * x
      BY <1>4, <2>1, Multiples DEF IsCidr
  <2>4. (i + 1) * x = i * x + x /\ i * x \in Nat
      BY <2>1
  <2>5. c.end = (i + 1) * x - 1
    <3>1. PICK z \in Nat : z = i * x
        BY <2>4
    <3> QED
        BY <3>1, <1>4, <2>1, <2>3, <2>4 DEF IsCidr
  <2>6. i < y
    <3> SUFFICES ASSUME y <= i PROVE FALSE
        BY <2>2
    <3>1. i - y \in Nat /\ i * x = y * x + (i - y) * x
        BY <2>1, <2>2
    <3>2. (i - y) * x \in Nat
        BY <3>1, <2>1
    <3>3. PICK w \in Nat : w = y * x
        BY <2>1, <2>2
    <3>4. PICK z \in Nat : z = i * x
        BY <2>1
    <3>5. c.end = z + x - 1 /\ c.end < w
        BY <1>2, <1>4, <2>1, <2>2, <2>3, <3>3, <3>4 DEF IsCidr
    <3>6. z >= w
        BY <3>1, <3>2, <3>3, <3>4
    <3> QED
        BY <3>5, <3>6, <2>1
  <2>7. c = [start |-> c.start, end |-> c.end, v4 |-> v4]
      OBVIOUS
  <2>8. c = [start |-> i * Pow2[k], end |-> (i + 1) * Pow2[k] - 1, v4 |-> v4]
      BY <2>1, <2>3, <2>5, <2>7
  <2> QED
      BY <2>2, <2>6, <2>8
<1>5. Cidrs(v4) = UNION {{[start |-> i * Pow2[k], end |-> (i + 1) * Pow2[k] - 1, v4 |-> v4] :
                             i \in 0 .. Pow2[n - k] - 1} : k \in 0 .. n}
    BY DEF Cidrs, n
<1> SUFFICES ASSUME NEW c
             PROVE  c \in Cidrs(v4) <=>
                       /\ c \in [start : Nat, end : Nat, v4 : {v4}]
                       /\ \E k \in 0 .. n : IsCidr(c, k) /\ c.end < Pow2[n]
    BY DEF n
<1>6. ASSUME c \in Cidrs(v4)
      PROVE  /\ c \in [start : Nat, end : Nat, v4 : {v4}]
             /\ \E k \in 0 .. n : IsCidr(c, k) /\ c.end < Pow2[n]
  <2>1. PICK k \in 0 .. n : \E i \in 0 .. Pow2[n - k] - 1 :
            c = [start |-> i * Pow2[k], end |-> (i + 1) * Pow2[k] - 1, v4 |-> v4]
      BY <1>5, <1>6
  <2>2. PICK i \in 0 .. Pow2[n - k] - 1 :
            c = [start |-> i * Pow2[k], end |-> (i + 1) * Pow2[k] - 1, v4 |-> v4]
      BY <2>1
  <2> QED
      BY <2>2, <1>3
<1>7. ASSUME c \in [start : Nat, end : Nat, v4 : {v4}],
             NEW k \in 0 .. n, IsCidr(c, k), c.end < Pow2[n]
      PROVE  c \in Cidrs(v4)
  <2>1. PICK i \in 0 .. Pow2[n - k] - 1 :
            c = [start |-> i * Pow2[k], end |-> (i + 1) * Pow2[k] - 1, v4 |-> v4]
      BY <1>4, <1>7
  <2> QED
      BY <2>1, <1>5
<1> QED
    BY <1>6, <1>7

\* Two CIDRs that share an address nest, the smaller in the greater.
LEMMA CidrsNest ==
    ASSUME NEW a \in Nat, NEW b \in Nat, NEW k \in Nat, NEW m \in Nat, k <= m,
           a % Pow2[k] = 0, b % Pow2[m] = 0,
           a <= b + Pow2[m] - 1, b <= a + Pow2[k] - 1
    PROVE  b <= a /\ a + Pow2[k] - 1 <= b + Pow2[m] - 1
<1>1. Pow2[k] \in Nat \ {0} /\ Pow2[m] \in Nat \ {0}
    BY Pow2Values
<1>2. b % Pow2[k] = 0 /\ Pow2[m] % Pow2[k] = 0
    BY Aligned, Pow2Aligned
<1>3. (b + Pow2[m]) % Pow2[k] = 0
    BY <1>1, <1>2, MultiplesSum
<1>4. b <= a
  <2> SUFFICES ASSUME a < b PROVE FALSE
      OBVIOUS
  <2>1. a + Pow2[k] <= b
      BY <1>1, <1>2, NextMultiple
  <2> QED
      BY <1>1, <2>1
<1>5. a + Pow2[k] <= b + Pow2[m]
  <2>1. a < b + Pow2[m] /\ b + Pow2[m] \in Nat
      BY <1>1
  <2> QED
      BY <1>1, <1>3, <2>1, NextMultiple
<1> QED
    BY <1>1, <1>4, <1>5

-----------------------------------------------------------------------------
(* The inductive invariant.                                                *)

\* No allocation has an address from a to e.
Clear(a, e) == \A r \in occupied : r.end < a \/ e < r.start

\* The addresses from a to e lie in the i-th gap.
InGap(i, a, e) == gaps[i][1] <= a /\ e <= gaps[i][2]

ArgumentsOk ==
    /\ op \in {"fit", "report"}
    /\ block \in Cidrs(TRUE) \cup Cidrs(FALSE)
    /\ occupied \subseteq Inside /\ Disjoint(occupied)
    /\ prefix \in 0 .. bits \/ (prefix = NULL /\ op = "report")
    /\ count \in Nat

StateOk ==
    /\ unpassed \subseteq occupied /\ from \in Nat
    /\ gaps \in Seq(Nat \X Nat)
    /\ addr \in Nat /\ sub \in Nat
    /\ results \in Seq(Nat \X (0 .. bits))
    /\ pc \in {"call", "scan", "gap", "fit", "cover", "split", "done"}

\* The gaps are clear, inside the block and in order, and none can grow.
GapsOk ==
    /\ \A i \in DOMAIN gaps :
          /\ block.start <= gaps[i][1] /\ gaps[i][1] <= gaps[i][2]
          /\ gaps[i][2] <= block.end
          /\ Clear(gaps[i][1], gaps[i][2])
          /\ gaps[i][1] = block.start \/ \E r \in occupied : r.end = gaps[i][1] - 1
          /\ gaps[i][2] = block.end \/ \E r \in occupied : r.start = gaps[i][2] + 1
    /\ \A i, j \in DOMAIN gaps : i < j => gaps[i][2] < gaps[j][1]

\* While find_gaps runs, its cursor separates the allocations it has passed
\* from the others, and every clear run before it lies in one gap.
Scanning ==
    pc \in {"call", "scan"} =>
        /\ results = <<>>
        /\ block.start <= from /\ from <= block.end + 1
        /\ \A r \in unpassed : from <= r.start
        /\ \A r \in occupied \ unpassed : r.end < from
        /\ from = block.start \/ \E r \in occupied : r.end = from - 1
        /\ \A i \in DOMAIN gaps : gaps[i][2] < from
        /\ \A a, e \in block.start .. block.end :
              a <= e /\ e < from /\ Clear(a, e) => \E i \in DOMAIN gaps : InGap(i, a, e)

\* The last address of a result.
EndOf(c) == c[1] + Pow2[bits - c[2]] - 1

Entered == pc \in {"fit", "cover", "split"}

\* Where the search stands in the first gap.
Cursor == IF pc = "split" THEN sub ELSE addr

\* The addresses from a to e are still to come.
Ahead(a, e) ==
    \E i \in DOMAIN gaps : InGap(i, a, e) /\ (Entered /\ i = 1 => Cursor <= a)

Largest == {c \in Free : \A d \in Free : range_contains(d, c) => d = c}

\* What the call should find, and what it has found, as first and last
\* addresses.
Targets ==
    IF prefix = NULL THEN {<<c.start, c.end>> : c \in Largest}
    ELSE {<<a, a + Size - 1>> : a \in FreeStarts(block, occupied, Size)}
Runs == {<<results[i][1], EndOf(results[i])>> : i \in DOMAIN results}

\* Results do not overlap and ascend, and lie before all that is to come.
InOrder ==
    /\ \A i, j \in DOMAIN results : i < j => EndOf(results[i]) < results[j][1]
    /\ pc # "done" =>
          \A i \in DOMAIN results :
              /\ Entered => EndOf(results[i]) < Cursor
              /\ \A j \in DOMAIN gaps : (Entered /\ j = 1) \/ EndOf(results[i]) < gaps[j][1]
    /\ op = "fit" => Len(results) <= count
    /\ prefix # NULL => \A i \in DOMAIN results : results[i][2] = prefix

\* A target is found or still to come, unless enough were found before it.
Progress ==
    /\ Runs \subseteq Targets
    /\ pc \in {"gap", "fit", "cover", "split"} =>
          \A t \in Targets : t \in Runs \/ Ahead(t[1], t[2])
    /\ pc = "done" =>
          \A t \in Targets : \/ t \in Runs
                             \/ /\ op = "fit" /\ Len(results) = count
                                /\ \A u \in Runs : u[1] < t[1]

\* The cursors of the three loops.
Cursors ==
    /\ op = "fit" => pc \notin {"cover", "split"}
    /\ op = "report" => pc # "fit"
    /\ Entered => gaps # <<>> /\ gaps[1][1] <= addr
    /\ pc = "fit" => addr <= MAX /\ addr % Size = 0
    /\ pc = "cover" => addr <= gaps[1][2] + 1
    /\ pc = "split" =>
          /\ addr <= gaps[1][2]
          /\ prefix # NULL /\ best_prefix < prefix
          /\ addr <= sub /\ sub <= SplitEnd + 1 /\ sub % Size = 0

\* The whole report leaves no hole behind its cursor.
NoHole ==
    pc = "cover" /\ prefix = NULL =>
        \A x \in gaps[1][1] .. addr - 1 :
            \E i \in DOMAIN results : results[i][1] <= x /\ x <= EndOf(results[i])

IInv ==
    InWord => /\ ArgumentsOk /\ StateOk /\ GapsOk /\ Scanning
              /\ InOrder /\ Progress /\ Cursors /\ NoHole

-----------------------------------------------------------------------------
(* The arguments.                                                          *)

\* The block is a CIDR of its family, in the word.
LEMMA BlockFacts ==
    ASSUME ArgumentsOk
    PROVE  /\ block.v4 \in BOOLEAN
           /\ block.start \in Nat /\ block.end \in Nat /\ block.start <= block.end
           /\ block.end <= MAX /\ MAX \in Nat
           /\ block.end < Pow2[bits]
           /\ \E k \in 0 .. bits : IsCidr(block, k)
           /\ block.v4 => block.end < MAX
<1>1. PICK v4 \in BOOLEAN : block \in Cidrs(v4)
    BY DEF ArgumentsOk
<1>2. /\ block \in [start : Nat, end : Nat, v4 : {v4}]
      /\ \E k \in 0 .. bits_of(v4) : IsCidr(block, k) /\ block.end < Pow2[bits_of(v4)]
    BY <1>1, CidrsForm
<1>3. block.v4 = v4 /\ bits = bits_of(v4)
    BY <1>2 DEF bits
<1>4. PICK k \in 0 .. bits : IsCidr(block, k) /\ block.end < Pow2[bits]
    BY <1>2, <1>3
<1>5. bits \in Nat /\ Word \in Nat /\ bits <= Word /\ k \in Nat
    BY BitsOf, WordNat
<1>6. Pow2[k] \in Nat \ {0} /\ Pow2[bits] \in Nat /\ Pow2[Word] \in Nat \ {0}
    BY <1>5, Pow2Values
<1>7. block.start <= block.end
    BY <1>2, <1>4, <1>6 DEF IsCidr
<1>8. Pow2[bits] <= Pow2[Word]
    BY <1>5, Pow2Grows
<1>9. block.v4 => Pow2[bits] < Pow2[Word]
    BY <1>5, BitsOf, Pow2Grows
<1> QED
    BY <1>2, <1>3, <1>4, <1>6, <1>7, <1>8, <1>9 DEF MAX

\* The allocations are ranges of the block.
LEMMA OccupiedFacts ==
    ASSUME ArgumentsOk, NEW r \in occupied
    PROVE  /\ r.start \in Nat /\ r.end \in Nat /\ r.start <= r.end
           /\ block.start <= r.start /\ r.end <= block.end
<1>1. r \in Cidrs(block.v4) /\ range_contains(block, r)
    BY DEF ArgumentsOk, Inside
<1>2. block.v4 \in BOOLEAN /\ block.start \in Nat /\ block.end \in Nat
    BY BlockFacts
<1>3. PICK k \in 0 .. bits_of(block.v4) : IsCidr(r, k)
    BY <1>1, <1>2, CidrsForm
<1>4. r.start \in Nat /\ r.end \in Nat
    BY <1>1, <1>2, CidrsForm
<1>5. Pow2[k] \in Nat \ {0}
    BY BitsOf, Pow2Values
<1> QED
    BY <1>1, <1>3, <1>4, <1>5 DEF IsCidr, range_contains

\* The size of a block that is asked for.
LEMMA SizeFacts ==
    ASSUME ArgumentsOk, prefix # NULL
    PROVE  /\ prefix \in 0 .. bits /\ bits - prefix \in Nat /\ bits - prefix \in 0 .. Word
           /\ Size \in Nat \ {0} /\ Size = Pow2[bits - prefix]
<1>1. prefix \in 0 .. bits
    BY DEF ArgumentsOk
<1>2. bits \in Nat /\ bits <= Word /\ Word \in Nat
    BY BitsOf, WordNat
<1>3. bits - prefix \in Nat /\ bits - prefix \in 0 .. Word
    BY <1>1, <1>2
<1> QED
    BY <1>1, <1>3, Pow2Values DEF Size

\* Where a block of the size asked for can start: at its multiples, wherever
\* its addresses are clear.
LEMMA FreeStartsIs ==
    ASSUME ArgumentsOk, prefix # NULL
    PROVE  \A a : a \in FreeStarts(block, occupied, Size) <=>
              /\ a \in Nat /\ block.start <= a /\ a + Size - 1 <= block.end
              /\ a % Size = 0 /\ Clear(a, a + Size - 1)
<1>1. Size \in Nat \ {0}
    BY SizeFacts
<1>2. block.start \in Nat /\ block.end \in Nat
    BY BlockFacts
<1>3. \A e \in GapEnds(block, occupied) : e \in Int /\ e <= block.end
  <2>1. \A r \in occupied : r.start \in Nat /\ r.end \in Nat /\ r.start <= r.end
                            /\ r.end <= block.end
      BY OccupiedFacts
  <2> QED
      BY <1>2, <2>1 DEF GapEnds
<1> TAKE a
<1>4. ASSUME a \in FreeStarts(block, occupied, Size)
      PROVE  /\ a \in Nat /\ block.start <= a /\ a + Size - 1 <= block.end
             /\ a % Size = 0 /\ Clear(a, a + Size - 1)
  <2>1. PICK e \in GapEnds(block, occupied) : a \in block.start .. e - Size + 1
      BY <1>4 DEF FreeStarts
  <2>2. a % Size = 0 /\ Clear(a, a + Size - 1)
      BY <1>4 DEF FreeStarts, Clear
  <2> QED
      BY <1>1, <1>2, <1>3, <2>1, <2>2
<1>5. ASSUME a \in Nat, block.start <= a, a + Size - 1 <= block.end,
             a % Size = 0, Clear(a, a + Size - 1)
      PROVE  a \in FreeStarts(block, occupied, Size)
  <2>1. a \in block.start .. block.end - Size + 1
      BY <1>1, <1>2, <1>5
  <2>2. block.end \in GapEnds(block, occupied)
      BY DEF GapEnds
  <2> QED
      BY <1>5, <2>1, <2>2 DEF FreeStarts, Clear
<1> QED
    BY <1>4, <1>5

\* A CIDR that is free, and its size.
LEMMA FreeIs ==
    ASSUME ArgumentsOk
    PROVE  \A c : c \in Free <=>
              /\ c \in [start : Nat, end : Nat, v4 : {block.v4}]
              /\ \E k \in 0 .. bits : IsCidr(c, k)
              /\ block.start <= c.start /\ c.end <= block.end
              /\ Clear(c.start, c.end)
<1>1. /\ block.v4 \in BOOLEAN /\ block.start \in Nat /\ block.end \in Nat
      /\ block.end < Pow2[bits]
    BY BlockFacts
<1>2. bits = bits_of(block.v4) /\ Pow2[bits] \in Nat
    BY BitsOf, Pow2Values
<1>3. \A r \in occupied : r.start \in Nat /\ r.end \in Nat
    BY OccupiedFacts
<1> TAKE c
<1>4. ASSUME c \in [start : Nat, end : Nat, v4 : {block.v4}]
      PROVE  (\A r \in occupied : ~ ranges_overlap(c, r)) <=> Clear(c.start, c.end)
    BY <1>3, <1>4 DEF ranges_overlap, Clear
<1>5. c \in Cidrs(block.v4) <=>
          /\ c \in [start : Nat, end : Nat, v4 : {block.v4}]
          /\ \E k \in 0 .. bits : IsCidr(c, k) /\ c.end < Pow2[bits]
    BY <1>1, <1>2, CidrsForm
<1>6. c \in [start : Nat, end : Nat, v4 : {block.v4}] /\ c.end <= block.end
          => c.end < Pow2[bits]
    BY <1>1, <1>2
<1> QED
    BY <1>4, <1>5, <1>6 DEF Free, Inside, range_contains

\* A target is an interval of the block that is clear.
LEMMA TargetFacts ==
    ASSUME ArgumentsOk, NEW t \in Targets
    PROVE  /\ t = <<t[1], t[2]>> /\ t[1] \in Nat /\ t[2] \in Nat /\ t[1] <= t[2]
           /\ t[1] \in block.start .. block.end /\ t[2] \in block.start .. block.end
           /\ Clear(t[1], t[2])
<1>1. block.start \in Nat /\ block.end \in Nat
    BY BlockFacts
<1>2. CASE prefix = NULL
  <2>1. PICK c \in Free : t = <<c.start, c.end>>
      BY <1>2 DEF Targets, Largest
  <2>2. PICK k \in 0 .. bits : IsCidr(c, k)
      BY <2>1, FreeIs
  <2>3. /\ c.start \in Nat /\ c.end \in Nat
        /\ block.start <= c.start /\ c.end <= block.end /\ Clear(c.start, c.end)
      BY <2>1, FreeIs
  <2>4. Pow2[k] \in Nat \ {0}
      BY BitsOf, Pow2Values
  <2>5. c.start <= c.end
      BY <2>2, <2>3, <2>4 DEF IsCidr
  <2>6. t[1] = c.start /\ t[2] = c.end
      BY <2>1
  <2> QED
      BY <1>1, <2>1, <2>3, <2>5, <2>6
<1>3. CASE prefix # NULL
  <2>1. PICK a \in FreeStarts(block, occupied, Size) : t = <<a, a + Size - 1>>
      BY <1>3 DEF Targets
  <2>2. Size \in Nat \ {0}
      BY <1>3, SizeFacts
  <2>3. /\ a \in Nat /\ block.start <= a /\ a + Size - 1 <= block.end
        /\ Clear(a, a + Size - 1)
      BY <1>3, <2>1, FreeStartsIs
  <2>4. t[1] = a /\ t[2] = a + Size - 1
      BY <2>1
  <2>5. a + Size - 1 \in Nat /\ a <= a + Size - 1
      BY <2>2, <2>3
  <2> QED
      BY <1>1, <2>1, <2>3, <2>4, <2>5
<1> QED
    BY <1>2, <1>3

\* What is said of the arguments alone stays the same while they do.
LEMMA ArgumentsStay ==
    ASSUME UNCHANGED arguments
    PROVE  /\ ArgumentsOk' <=> ArgumentsOk
           /\ InWord' <=> InWord
           /\ bits' = bits /\ Size' = Size /\ Targets' = Targets
           /\ \A c : EndOf(c)' = EndOf(c)
           /\ \A a, e : Clear(a, e)' <=> Clear(a, e)
<1>1. /\ op' = op /\ block' = block /\ occupied' = occupied /\ prefix' = prefix
      /\ count' = count
    BY DEF arguments
<1>2. bits' = bits
    BY <1>1 DEF bits
<1>3. Size' = Size
    BY <1>1, <1>2 DEF Size
<1>4. Inside' = Inside
    BY <1>1 DEF Inside
<1>5. Free' = Free
    BY <1>1, <1>4 DEF Free
<1>6. Largest' = Largest
    BY <1>5 DEF Largest
<1>7. Targets' = Targets
    BY <1>1, <1>3, <1>6 DEF Targets
<1>8. ArgumentsOk' <=> ArgumentsOk
    BY <1>1, <1>2, <1>4 DEF ArgumentsOk
<1>9. InWord' <=> InWord
    BY <1>1, <1>2, <1>3 DEF InWord
<1>10. \A c : EndOf(c)' = EndOf(c)
    BY <1>2 DEF EndOf
<1>11. \A a, e : Clear(a, e)' <=> Clear(a, e)
    BY <1>1 DEF Clear
<1> QED
    BY <1>2, <1>3, <1>7, <1>8, <1>9, <1>10, <1>11

-----------------------------------------------------------------------------
(* The initial states.                                                     *)

\* A call starts with nothing scanned.
LEMMA InitIInv == Init => IInv
<1> SUFFICES ASSUME Init, InWord
             PROVE  /\ ArgumentsOk /\ StateOk /\ GapsOk /\ Scanning
                    /\ InOrder /\ Progress /\ Cursors /\ NoHole
    BY DEF IInv
<1>1. occupied \subseteq Inside
  <2>1. occupied \in UpTo(MaxOccupied, Inside)
      BY DEF Init
  <2>2. occupied = {} \/ \E f \in [1 .. MaxOccupied -> Inside] : occupied = Range(f)
      BY <2>1 DEF UpTo
  <2>3. ASSUME NEW f \in [1 .. MaxOccupied -> Inside], occupied = Range(f)
        PROVE  occupied \subseteq Inside
      BY <2>3 DEF Range
  <2> QED
      BY <2>2, <2>3
<1>2. ArgumentsOk
  <2>1. Disjoint(occupied)
      BY DEF Init
  <2>2. op \in {"fit", "report"} /\ block \in Cidrs(TRUE) \cup Cidrs(FALSE)
      BY DEF Init
  <2>3. prefix \in 0 .. bits \/ (prefix = NULL /\ op = "report")
    <3>1. prefix \in u8 \/ (prefix = NULL /\ op = "report")
        BY DEF Init
    <3>2. prefix # NULL => prefix <= bits
        BY DEF InWord
    <3>3. u8 \subseteq Nat
        BY WordNat DEF u8
    <3>4. bits \in Nat
        BY BitsOf
    <3>5. prefix \in Nat => prefix # NULL
        BY NullAssumption
    <3>6. CASE prefix \in u8
      <4>1. prefix \in Nat
          BY <3>3, <3>6
      <4>2. prefix <= bits
          BY <4>1, <3>2, <3>5
      <4> QED
          BY <4>1, <4>2, <3>4
    <3> QED
        BY <3>1, <3>6
  <2>4. count \in Nat
      BY DEF Init
  <2> QED
      BY <1>1, <2>1, <2>2, <2>3, <2>4 DEF ArgumentsOk
<1>3. /\ unpassed = occupied /\ from = block.start /\ gaps = <<>> /\ addr = 0 /\ sub = 0
      /\ results = <<>> /\ pc = "call"
    BY DEF Init
<1>4. DOMAIN gaps = {} /\ DOMAIN results = {} /\ Len(results) = 0
    BY <1>3
<1>5. block.start \in Nat /\ block.end \in Nat /\ block.start <= block.end
    BY <1>2, BlockFacts
<1>6. StateOk
    BY <1>3, <1>5 DEF StateOk
<1>7. GapsOk
    BY <1>4 DEF GapsOk
<1>8. Scanning
  <2>1. \A r \in unpassed : from <= r.start
      BY <1>2, <1>3, OccupiedFacts
  <2>2. \A a, e \in block.start .. block.end :
           a <= e /\ e < from /\ Clear(a, e) => \E i \in DOMAIN gaps : InGap(i, a, e)
      BY <1>3, <1>5
  <2> QED
      BY <1>3, <1>4, <1>5, <2>1, <2>2 DEF Scanning
<1>9. InOrder
    BY <1>2, <1>4 DEF InOrder, ArgumentsOk
<1>10. Progress
    BY <1>3, <1>4 DEF Progress, Runs
<1>11. Cursors /\ NoHole
    BY <1>3 DEF Cursors, Entered, NoHole
<1> QED
    BY <1>2, <1>6, <1>7, <1>8, <1>9, <1>10, <1>11

-----------------------------------------------------------------------------
(* find_gaps.                                                              *)

\* What is appended comes last.
LEMMA Appended ==
    ASSUME NEW S, NEW s \in Seq(S), NEW x \in S
    PROVE  /\ Append(s, x) \in Seq(S) /\ Len(Append(s, x)) = Len(s) + 1
           /\ DOMAIN s = 1 .. Len(s) /\ Len(s) \in Nat
           /\ DOMAIN Append(s, x) = 1 .. Len(s) + 1
           /\ \A i \in 1 .. Len(s) : Append(s, x)[i] = s[i]
           /\ Append(s, x)[Len(s) + 1] = x
OBVIOUS

\* A gap is a pair of numbers.
LEMMA GapTyped ==
    ASSUME gaps \in Seq(Nat \X Nat)
    PROVE  /\ DOMAIN gaps = 1 .. Len(gaps) /\ Len(gaps) \in Nat
           /\ \A i \in DOMAIN gaps :
                 gaps[i] = <<gaps[i][1], gaps[i][2]>> /\ gaps[i][1] \in Nat /\ gaps[i][2] \in Nat
OBVIOUS

\* A gap after the others leaves the gaps in order.
LEMMA GapAppended ==
    ASSUME ArgumentsOk, gaps \in Seq(Nat \X Nat), GapsOk, UNCHANGED arguments,
           NEW a \in Nat, NEW e \in Nat, gaps' = Append(gaps, <<a, e>>),
           block.start <= a, a <= e, e <= block.end, Clear(a, e),
           a = block.start \/ \E r \in occupied : r.end = a - 1,
           e = block.end \/ \E r \in occupied : r.start = e + 1,
           \A i \in DOMAIN gaps : gaps[i][2] < a
    PROVE  /\ gaps' \in Seq(Nat \X Nat) /\ GapsOk'
           /\ \A b, f \in Nat : (\E i \in DOMAIN gaps : InGap(i, b, f)) \/ (a <= b /\ f <= e)
                 => \E i \in DOMAIN gaps' : InGap(i, b, f)'
           /\ \A i \in DOMAIN gaps' :
                 gaps'[i] = <<a, e>> \/ \E j \in DOMAIN gaps : gaps'[i] = gaps[j]
<1>0. PICK n \in Nat : n = Len(gaps)
    OBVIOUS
<1>1. /\ gaps' \in Seq(Nat \X Nat) /\ n \in Nat /\ DOMAIN gaps = 1 .. n
      /\ DOMAIN gaps' = 1 .. n + 1
      /\ \A i \in 1 .. n : gaps'[i] = gaps[i]
      /\ gaps'[n + 1] = <<a, e>>
    BY <1>0, Appended
<1>3. occupied' = occupied
    BY DEF arguments
<1>4. block' = block
    BY DEF arguments
<1>5. \A i \in DOMAIN gaps' :
          /\ block'.start <= gaps'[i][1] /\ gaps'[i][1] <= gaps'[i][2]
          /\ gaps'[i][2] <= block'.end
          /\ \A r \in occupied' : r.end < gaps'[i][1] \/ gaps'[i][2] < r.start
          /\ gaps'[i][1] = block'.start \/ \E r \in occupied' : r.end = gaps'[i][1] - 1
          /\ gaps'[i][2] = block'.end \/ \E r \in occupied' : r.start = gaps'[i][2] + 1
  <2> TAKE i \in DOMAIN gaps'
  <2>1. CASE i \in 1 .. n
    <3>1. i \in DOMAIN gaps /\ gaps'[i] = gaps[i]
        BY <2>1, <1>1
    <3>2. /\ block.start <= gaps[i][1] /\ gaps[i][1] <= gaps[i][2]
          /\ gaps[i][2] <= block.end
          /\ \A r \in occupied : r.end < gaps[i][1] \/ gaps[i][2] < r.start
          /\ gaps[i][1] = block.start \/ \E r \in occupied : r.end = gaps[i][1] - 1
          /\ gaps[i][2] = block.end \/ \E r \in occupied : r.start = gaps[i][2] + 1
        BY <3>1 DEF GapsOk, Clear
    <3> QED
        BY <3>1, <3>2, <1>3, <1>4
  <2>2. CASE i = n + 1
    <3>1. gaps'[i][1] = a /\ gaps'[i][2] = e
        BY <2>2, <1>1
    <3>2. \A r \in occupied : r.end < a \/ e < r.start
        BY DEF Clear
    <3> QED
        BY <3>1, <3>2, <1>3, <1>4
  <2>3. i \in 1 .. n \/ i = n + 1
      BY <1>1
  <2> QED
      BY <2>1, <2>2, <2>3
<1>6. \A i, j \in DOMAIN gaps' : i < j => gaps'[i][2] < gaps'[j][1]
  <2> TAKE i, j \in DOMAIN gaps'
  <2>1. CASE j \in 1 .. n
      BY <2>1, <1>1 DEF GapsOk
  <2>2. CASE j = n + 1
      BY <2>2, <1>1
  <2> QED
      BY <2>1, <2>2, <1>1
<1>7. GapsOk'
    BY <1>5, <1>6 DEF GapsOk, Clear
<1>8. \A i \in DOMAIN gaps' : gaps'[i] = <<a, e>> \/ \E j \in DOMAIN gaps : gaps'[i] = gaps[j]
    BY <1>1
<1>9. ASSUME NEW b \in Nat, NEW f \in Nat,
             (\E i \in DOMAIN gaps : InGap(i, b, f)) \/ (a <= b /\ f <= e)
      PROVE  \E i \in DOMAIN gaps' : InGap(i, b, f)'
  <2>1. ASSUME NEW i \in DOMAIN gaps, InGap(i, b, f)
        PROVE  i \in DOMAIN gaps' /\ InGap(i, b, f)'
      BY <2>1, <1>1 DEF InGap
  <2>2. ASSUME a <= b /\ f <= e
        PROVE  n + 1 \in DOMAIN gaps' /\ InGap(n + 1, b, f)'
      BY <2>2, <1>1 DEF InGap
  <2> QED
      BY <1>9, <2>1, <2>2
<1> QED
    BY <1>1, <1>7, <1>8, <1>9

\* Passing an allocation keeps what the scan has found so far.
LEMMA PassRangeScans ==
    IInv /\ InWord /\ PassRange => (StateOk /\ GapsOk /\ Scanning)'
<1> SUFFICES ASSUME IInv, InWord, PassRange PROVE (StateOk /\ GapsOk /\ Scanning)'
    OBVIOUS
<1> USE DEF PassRange
<1>1. UNCHANGED <<arguments, addr, sub, results, pc>> /\ pc = "scan"
    OBVIOUS
<1>2. PICK r \in unpassed :
          /\ \A s \in unpassed : r.start <= s.start
          /\ unpassed' = unpassed \ {r}
          /\ gaps' = IF r.start > from THEN Append(gaps, <<from, r.start - 1>>) ELSE gaps
          /\ from' = IF r.end >= from THEN saturating_add(r.end, 1) ELSE from
    OBVIOUS
<1> HIDE DEF PassRange
<1>3. ArgumentsOk /\ StateOk /\ GapsOk /\ Scanning
    BY DEF IInv
<1>4. /\ unpassed \subseteq occupied /\ from \in Nat /\ gaps \in Seq(Nat \X Nat)
    BY <1>3 DEF StateOk
<1>5. /\ block.start \in Nat /\ block.end \in Nat /\ block.end <= MAX /\ MAX \in Nat
      /\ block.end < MAX
  <2>1. block.v4 => block.end < MAX
      BY <1>3, BlockFacts
  <2> QED
      BY <1>3, <2>1, BlockFacts DEF InWord
<1>6. /\ results = <<>>
      /\ block.start <= from /\ from <= block.end + 1
      /\ \A s \in unpassed : from <= s.start
      /\ \A s \in occupied \ unpassed : s.end < from
      /\ from = block.start \/ \E s \in occupied : s.end = from - 1
      /\ \A i \in DOMAIN gaps : gaps[i][2] < from
      /\ \A a, e \in block.start .. block.end :
            a <= e /\ e < from /\ Clear(a, e) => \E i \in DOMAIN gaps : InGap(i, a, e)
    BY <1>1, <1>3 DEF Scanning
<1>7. \A s \in occupied : /\ s.start \in Nat /\ s.end \in Nat /\ s.start <= s.end
                          /\ block.start <= s.start /\ s.end <= block.end
    BY <1>3, OccupiedFacts
<1>8. from' = r.end + 1
  <2>1. r.end >= from
      BY <1>4, <1>6, <1>7
  <2>2. ~ (r.end + 1 > MAX)
      BY <1>4, <1>5, <1>7
  <2> QED
      BY <1>2, <2>1, <2>2 DEF saturating_add
<1>15. /\ r \in occupied /\ r.start \in Nat /\ r.end \in Nat /\ r.start <= r.end
       /\ from <= r.start /\ r.end <= block.end
    BY <1>4, <1>6, <1>7
<1>9. \A s \in unpassed \ {r} : r.end < s.start
  <2> TAKE s \in unpassed \ {r}
  <2>1. ~ ranges_overlap(r, s)
      BY <1>3, <1>4 DEF ArgumentsOk, Disjoint
  <2>2. r.start <= s.start /\ s.start <= s.end
      BY <1>2, <1>4, <1>7
  <2>3. r.start \in Nat /\ r.end \in Nat /\ s.start \in Nat /\ s.end \in Nat
      BY <1>4, <1>7
  <2> QED
      BY <2>1, <2>2, <2>3 DEF ranges_overlap
<1>10. Clear(from, r.start - 1)
  <2>1. \A s \in occupied : s.end < from \/ r.start - 1 < s.start
    <3> TAKE s \in occupied
    <3>1. CASE s \in unpassed
        BY <3>1, <1>2, <1>4, <1>7
    <3>2. CASE s \notin unpassed
        BY <3>2, <1>6
    <3> QED
        BY <3>1, <3>2
  <2> QED
      BY <2>1 DEF Clear
<1>11. ASSUME NEW a \in block.start .. block.end, NEW e \in block.start .. block.end,
              a <= e, e < r.end + 1, Clear(a, e)
       PROVE  (\E i \in DOMAIN gaps : InGap(i, a, e)) \/ (from <= a /\ e <= r.start - 1)
  <2>1. CASE e < from
      BY <2>1, <1>6, <1>11
  <2>2. CASE from <= e
    <3>1. r.end < a \/ e < r.start
        BY <1>4, <1>11 DEF Clear
    <3>2. e <= r.start - 1
        BY <3>1, <1>4, <1>5, <1>7, <1>11
    <3>3. from <= a
      <4> SUFFICES ASSUME a < from PROVE FALSE
          BY <1>4, <1>5
      <4>1. PICK s \in occupied : s.end = from - 1
          BY <1>5, <1>6
      <4>2. s.end < a \/ e < s.start
          BY <1>11 DEF Clear
      <4>3. s.start \in Nat /\ s.end \in Nat /\ s.start <= s.end
          BY <1>7
      <4> QED
          BY <2>2, <4>1, <4>2, <4>3, <1>4, <1>5
    <3> QED
        BY <3>2, <3>3
  <2> QED
      BY <2>1, <2>2, <1>4, <1>5
<1>12. /\ gaps' \in Seq(Nat \X Nat) /\ GapsOk'
       /\ \A b, f \in Nat : (\E i \in DOMAIN gaps : InGap(i, b, f))
                       \/ (r.start > from /\ from <= b /\ f <= r.start - 1)
             => \E i \in DOMAIN gaps' : InGap(i, b, f)'
       /\ \A i \in DOMAIN gaps' : gaps'[i] = <<from, r.start - 1>>
                                    \/ \E j \in DOMAIN gaps : gaps'[i] = gaps[j]
  <2>1. CASE r.start > from
    <3>1. r.start - 1 \in Nat /\ from <= r.start - 1 /\ r.start - 1 <= block.end
      <4>1. r.start \in Nat /\ r.end \in Nat /\ r.start <= r.end /\ r.end <= block.end
          BY <1>4, <1>7
      <4> QED
          BY <4>1, <2>1, <1>4, <1>5
    <3>2. gaps' = Append(gaps, <<from, r.start - 1>>)
        BY <2>1, <1>2
    <3>3. UNCHANGED arguments
        BY <1>1
    <3>4. \E s \in occupied : s.start = (r.start - 1) + 1
        BY <1>15
    <3> QED
        BY <3>1, <3>2, <3>3, <3>4, <1>3, <1>4, <1>6, <1>10, GapAppended
  <2>2. CASE ~ (r.start > from)
    <3>1. gaps' = gaps
        BY <2>2, <1>2
    <3>2. block' = block /\ occupied' = occupied
        BY <1>1 DEF arguments
    <3>3. GapsOk'
        BY <3>1, <3>2, <1>3 DEF GapsOk, Clear
    <3>4. \A i, b, f : InGap(i, b, f)' <=> InGap(i, b, f)
        BY <3>1 DEF InGap
    <3> QED
        BY <2>2, <3>1, <3>3, <3>4, <1>4
  <2> QED
      BY <2>1, <2>2
<1>13. StateOk'
  <2>1. from' \in Nat /\ unpassed' \subseteq occupied'
      BY <1>1, <1>2, <1>4, <1>7, <1>8 DEF arguments
  <2>2. bits' = bits
      BY <1>1, ArgumentsStay
  <2>3. addr' = addr /\ sub' = sub /\ results' = results /\ pc' = pc
      BY <1>1
  <2> QED
      BY <2>1, <2>2, <2>3, <1>3, <1>12 DEF StateOk
<1>14. Scanning'
  <2>1. block' = block /\ occupied' = occupied /\ results' = results
        /\ \A b, f : Clear(b, f)' <=> Clear(b, f)
      BY <1>1, ArgumentsStay DEF arguments
  <2>2. block.start <= from' /\ from' <= block.end + 1
      BY <1>4, <1>5, <1>7, <1>8
  <2>3. \A s \in unpassed' : from' <= s.start
    <3> TAKE s \in unpassed'
    <3>1. r.end < s.start /\ s.start \in Nat /\ r.end \in Nat
        BY <1>2, <1>4, <1>7, <1>9
    <3> QED
        BY <3>1, <1>8
  <2>4. \A s \in occupied \ unpassed' : s.end < from'
    <3> TAKE s \in occupied \ unpassed'
    <3>1. CASE s = r
        BY <3>1, <1>4, <1>7, <1>8
    <3>2. CASE s # r
      <4>1. s.end < from /\ s.end \in Nat
          BY <3>2, <1>2, <1>6, <1>7
      <4>2. from <= r.end + 1 /\ r.end \in Nat
          BY <1>4, <1>15
      <4> QED
          BY <4>1, <4>2, <1>4, <1>8
    <3> QED
        BY <3>1, <3>2
  <2>5. r \in occupied /\ r.end = from' - 1
      BY <1>4, <1>7, <1>8
  <2>6. \A i \in DOMAIN gaps' : gaps'[i][2] < from'
    <3> TAKE i \in DOMAIN gaps'
    <3>1. CASE gaps'[i] = <<from, r.start - 1>>
        BY <3>1, <1>4, <1>7, <1>8
    <3>2. ASSUME NEW j \in DOMAIN gaps, gaps'[i] = gaps[j] PROVE gaps'[i][2] < from'
      <4>1. gaps[j][2] < from /\ gaps[j][2] \in Nat
          BY <1>4, <1>6, GapTyped
      <4>2. from <= r.end + 1 /\ r.end \in Nat
          BY <1>4, <1>15
      <4> QED
          BY <4>1, <4>2, <3>2, <1>4, <1>8
    <3> QED
        BY <3>1, <3>2, <1>12
  <2>7. ASSUME NEW a \in block.start .. block.end, NEW e \in block.start .. block.end,
               a <= e, e < from', Clear(a, e)
        PROVE  \E i \in DOMAIN gaps' : InGap(i, a, e)'
    <3>1. (\E i \in DOMAIN gaps : InGap(i, a, e)) \/ (from <= a /\ e <= r.start - 1)
        BY <2>7, <1>8, <1>11
    <3>2. from <= a /\ e <= r.start - 1 => r.start > from
        BY <2>7, <1>4, <1>5, <1>7
    <3>3. a \in Nat /\ e \in Nat
        BY <1>5
    <3> QED
        BY <3>1, <3>2, <3>3, <1>12
  <2> QED
      BY <2>1, <2>2, <2>3, <2>4, <2>5, <2>6, <2>7, <1>6 DEF Scanning
<1> QED
    BY <1>12, <1>13, <1>14

\* The scan has listed nothing.
LEMMA ScanQuiet ==
    ASSUME ArgumentsOk, results = <<>>, pc = "scan"
    PROVE  InOrder /\ Progress /\ Cursors /\ NoHole
<1>1. DOMAIN results = {} /\ Len(results) = 0
    OBVIOUS
<1>2. InOrder
    BY <1>1 DEF InOrder, ArgumentsOk
<1>3. Progress
    BY <1>1 DEF Progress, Runs
<1> QED
    BY <1>2, <1>3 DEF Cursors, Entered, NoHole

\* In implication form, for the next state.
LEMMA ScanQuietNext ==
    (ArgumentsOk /\ results = <<>> /\ pc = "scan" => InOrder /\ Progress /\ Cursors /\ NoHole)'
<1>1. ArgumentsOk /\ results = <<>> /\ pc = "scan" => InOrder /\ Progress /\ Cursors /\ NoHole
    BY ScanQuiet
<1> QED
    BY <1>1, PTL

\* The scan starts with nothing passed.
LEMMA StartStep ==
    IInv /\ InWord /\ Start =>
        (StateOk /\ GapsOk /\ Scanning /\ InOrder /\ Progress /\ Cursors /\ NoHole)'
<1> SUFFICES ASSUME IInv, InWord, Start
             PROVE  (StateOk /\ GapsOk /\ Scanning /\ InOrder /\ Progress /\ Cursors /\ NoHole)'
    OBVIOUS
<1>1. ArgumentsOk /\ StateOk /\ GapsOk /\ Scanning
    BY DEF IInv
<1>2. /\ pc = "call" /\ pc' = IF op = "fit" /\ prefix > bits THEN "refused" ELSE "scan"
      /\ UNCHANGED <<arguments, scanned, gaps, addr, sub, results>>
    BY DEF Start
<1>3. /\ UNCHANGED arguments /\ unpassed' = unpassed /\ from' = from /\ gaps' = gaps
      /\ addr' = addr /\ sub' = sub /\ results' = results
      /\ block' = block /\ occupied' = occupied
    BY <1>2 DEF scanned, arguments
<1>4. pc' = "scan"
  <2> SUFFICES ASSUME op = "fit" PROVE ~ (prefix > bits)
      BY <1>2
  <2>1. prefix \in 0 .. bits /\ bits \in Nat
      BY <1>1, BitsOf DEF ArgumentsOk
  <2> QED
      BY <2>1
<1>5. bits' = bits /\ ArgumentsOk' /\ \A a, e : Clear(a, e)' <=> Clear(a, e)
    BY <1>1, <1>3, ArgumentsStay
<1>6. StateOk'
    BY <1>1, <1>3, <1>4, <1>5 DEF StateOk
<1>7. GapsOk'
    BY <1>1, <1>3 DEF GapsOk, Clear
<1>8. Scanning'
    BY <1>1, <1>2, <1>3, <1>4 DEF Scanning, Clear, InGap
<1>9. results' = <<>>
    BY <1>1, <1>2, <1>3 DEF Scanning
<1> QED
    BY <1>4, <1>5, <1>6, <1>7, <1>8, <1>9, ScanQuietNext

\* Passing an allocation keeps the invariant.
LEMMA PassRangeStep ==
    IInv /\ InWord /\ PassRange =>
        (StateOk /\ GapsOk /\ Scanning /\ InOrder /\ Progress /\ Cursors /\ NoHole)'
<1> SUFFICES ASSUME IInv, InWord, PassRange
             PROVE  (StateOk /\ GapsOk /\ Scanning /\ InOrder /\ Progress /\ Cursors /\ NoHole)'
    OBVIOUS
<1>1. (StateOk /\ GapsOk /\ Scanning)'
    BY PassRangeScans
<1>2. pc = "scan" /\ UNCHANGED arguments /\ results' = results /\ pc' = pc
    BY DEF PassRange
<1>3. ArgumentsOk' /\ results = <<>>
    BY <1>2, ArgumentsStay DEF IInv, Scanning
<1> QED
    BY <1>1, <1>2, <1>3, ScanQuietNext

\* When all are passed, every clear run of the block lies in a gap, and every
\* target is still to come.
LEMMA LastGapStep ==
    IInv /\ InWord /\ LastGap =>
        (StateOk /\ GapsOk /\ Scanning /\ InOrder /\ Progress /\ Cursors /\ NoHole)'
<1> SUFFICES ASSUME IInv, InWord, LastGap
             PROVE  (StateOk /\ GapsOk /\ Scanning /\ InOrder /\ Progress /\ Cursors /\ NoHole)'
    OBVIOUS
<1>1. /\ pc = "scan" /\ unpassed = {}
      /\ gaps' = IF from <= block.end THEN Append(gaps, <<from, block.end>>) ELSE gaps
      /\ pc' = "gap"
      /\ UNCHANGED <<arguments, scanned, addr, sub, results>>
    BY DEF LastGap
<1>2. UNCHANGED arguments /\ unpassed' = unpassed /\ from' = from /\ addr' = addr
      /\ sub' = sub /\ results' = results /\ occupied' = occupied /\ block' = block
    BY <1>1 DEF scanned, arguments
<1>3. ArgumentsOk /\ StateOk /\ GapsOk /\ Scanning /\ InOrder
    BY DEF IInv
<1>4. from \in Nat /\ gaps \in Seq(Nat \X Nat)
    BY <1>3 DEF StateOk
<1>5. block.start \in Nat /\ block.end \in Nat /\ block.start <= block.end
    BY <1>3, BlockFacts
<1>6. /\ results = <<>>
      /\ block.start <= from /\ from <= block.end + 1
      /\ \A s \in occupied \ unpassed : s.end < from
      /\ from = block.start \/ \E s \in occupied : s.end = from - 1
      /\ \A i \in DOMAIN gaps : gaps[i][2] < from
      /\ \A a, e \in block.start .. block.end :
            a <= e /\ e < from /\ Clear(a, e) => \E i \in DOMAIN gaps : InGap(i, a, e)
    BY <1>1, <1>3 DEF Scanning
<1>7. \A s \in occupied : /\ s.start \in Nat /\ s.end \in Nat /\ s.start <= s.end
                          /\ s.end < from
    BY <1>1, <1>3, <1>6, OccupiedFacts
<1>8. Clear(from, block.end)
    BY <1>7 DEF Clear
<1>9. /\ gaps' \in Seq(Nat \X Nat) /\ GapsOk'
      /\ \A b, f \in Nat : (\E i \in DOMAIN gaps : InGap(i, b, f))
                              \/ (from <= block.end /\ from <= b /\ f <= block.end)
             => \E i \in DOMAIN gaps' : InGap(i, b, f)'
  <2>1. CASE from <= block.end
    <3>1. gaps' = Append(gaps, <<from, block.end>>)
        BY <2>1, <1>1
    <3>2. block.end <= block.end /\ block.start <= from /\ block.end \in Nat
        BY <1>5, <1>6
    <3>3. \A i \in DOMAIN gaps : gaps[i][2] < from
        BY <1>6
    <3>4. UNCHANGED arguments /\ (from = block.start \/ \E s \in occupied : s.end = from - 1)
        BY <1>2, <1>6
    <3>5. /\ gaps' \in Seq(Nat \X Nat) /\ GapsOk'
          /\ \A b, f \in Nat : (\E i \in DOMAIN gaps : InGap(i, b, f))
                                  \/ (from <= b /\ f <= block.end)
                => \E i \in DOMAIN gaps' : InGap(i, b, f)'
        BY <2>1, <3>1, <3>2, <3>3, <3>4, <1>3, <1>4, <1>8, GapAppended
    <3> QED
        BY <3>5
  <2>2. CASE ~ (from <= block.end)
    <3>1. gaps' = gaps
        BY <2>2, <1>1
    <3>3. GapsOk'
        BY <3>1, <1>2, <1>3 DEF GapsOk, Clear
    <3>4. \A i, b, f : InGap(i, b, f)' <=> InGap(i, b, f)
        BY <3>1 DEF InGap
    <3> QED
        BY <2>2, <3>1, <3>3, <3>4, <1>4
  <2> QED
      BY <2>1, <2>2
<1>10. ASSUME NEW t \in Targets
       PROVE  \E i \in DOMAIN gaps' : InGap(i, t[1], t[2])'
  <2>1. PICK a \in Nat : a = t[1]
      BY <1>3, TargetFacts
  <2>2. PICK e \in Nat : e = t[2]
      BY <1>3, TargetFacts
  <2>3. /\ a <= e /\ a \in block.start .. block.end /\ e \in block.start .. block.end
        /\ Clear(a, e)
      BY <2>1, <2>2, <1>3, TargetFacts
  <2>4. CASE e < from
      BY <2>1, <2>2, <2>3, <2>4, <1>6, <1>9
  <2>5. CASE from <= e
    <3>1. from <= a
      <4> SUFFICES ASSUME a < from PROVE FALSE
          BY <1>4
      <4>1. PICK s \in occupied : s.end = from - 1
          BY <1>5, <1>6, <2>3
      <4>2. s.end < a \/ e < s.start
          BY <2>3 DEF Clear
      <4>3. s.start \in Nat /\ s.end \in Nat /\ s.start <= s.end
          BY <1>7
      <4> QED
          BY <2>5, <4>1, <4>2, <4>3, <1>4
    <3>2. from <= block.end /\ e <= block.end
        BY <2>3, <2>5, <1>4, <1>5
    <3> QED
        BY <3>1, <3>2, <2>1, <2>2, <1>9
  <2> QED
      BY <2>4, <2>5, <1>4
<1>11. StateOk'
  <2>1. bits' = bits
      BY <1>2, ArgumentsStay
  <2>2. StateOk
      BY <1>3
  <2> QED
      BY <2>1, <2>2, <1>1, <1>2, <1>9 DEF StateOk
<1>12. Scanning' /\ Cursors' /\ NoHole'
  <2>1. pc' = "gap"
      BY <1>1
  <2> QED
      BY <2>1 DEF Scanning, Cursors, NoHole, Entered
<1>13. DOMAIN results' = {} /\ Len(results') = 0
    BY <1>2, <1>6
<1>14. InOrder'
  <2>1. op' = op /\ count' = count /\ count \in Nat
      BY <1>2, <1>3 DEF arguments, ArgumentsOk
  <2> QED
      BY <2>1, <1>13 DEF InOrder
<1>15. Progress'
  <2>1. Runs' = {} /\ Targets' = Targets
      BY <1>2, <1>13, ArgumentsStay DEF Runs
  <2>2. pc' = "gap" /\ ~ Entered'
      BY <1>1 DEF Entered
  <2>3. \A t \in Targets : Ahead(t[1], t[2])'
      BY <1>10, <2>2 DEF Ahead
  <2> QED
      BY <2>1, <2>2, <2>3 DEF Progress
<1> QED
    BY <1>9, <1>11, <1>12, <1>14, <1>15

-----------------------------------------------------------------------------
(* The steps that the two searches share.                                  *)

\* A result is an address and a prefix, and ends where its CIDR does.
LEMMA ResultTyped ==
    ASSUME StateOk
    PROVE  /\ DOMAIN results = 1 .. Len(results) /\ Len(results) \in Nat
           /\ \A i \in DOMAIN results :
                 /\ results[i] = <<results[i][1], results[i][2]>>
                 /\ results[i][1] \in Nat /\ results[i][2] \in 0 .. bits
                 /\ EndOf(results[i]) \in Nat /\ results[i][1] <= EndOf(results[i])
<1>1. results \in Seq(Nat \X (0 .. bits))
    BY DEF StateOk
<1>2. /\ DOMAIN results = 1 .. Len(results) /\ Len(results) \in Nat
      /\ \A i \in DOMAIN results :
            /\ results[i] = <<results[i][1], results[i][2]>>
            /\ results[i][1] \in Nat /\ results[i][2] \in 0 .. bits
    BY <1>1
<1>3. ASSUME NEW i \in DOMAIN results
      PROVE  EndOf(results[i]) \in Nat /\ results[i][1] <= EndOf(results[i])
  <2>1. results[i][1] \in Nat /\ results[i][2] \in 0 .. bits
      BY <1>2
  <2>2. bits - results[i][2] \in Nat
      BY <2>1, BitsOf
  <2>3. Pow2[bits - results[i][2]] \in Nat \ {0}
      BY <2>2, Pow2Values
  <2> QED
      BY <2>1, <2>3 DEF EndOf
<1> QED
    BY <1>2, <1>3

\* The first gap, while there is one.
LEMMA FirstGap ==
    ASSUME ArgumentsOk, StateOk, GapsOk, gaps # <<>>
    PROVE  /\ 1 \in DOMAIN gaps /\ gaps[1][1] \in Nat /\ gaps[1][2] \in Nat
           /\ gaps[1][1] <= gaps[1][2]
           /\ block.start <= gaps[1][1] /\ gaps[1][2] <= block.end
           /\ Clear(gaps[1][1], gaps[1][2])
           /\ gaps[1][1] \in block.start .. block.end
           /\ gaps[1][2] \in block.start .. block.end
           /\ gaps[1][1] = block.start \/ \E r \in occupied : r.end = gaps[1][1] - 1
           /\ gaps[1][2] = block.end \/ \E r \in occupied : r.start = gaps[1][2] + 1
<1>1. gaps \in Seq(Nat \X Nat)
    BY DEF StateOk
<1>2. 1 \in DOMAIN gaps
    BY <1>1
<1>3. gaps[1][1] \in Nat /\ gaps[1][2] \in Nat
    BY <1>1, <1>2, GapTyped
<1>4. /\ gaps[1][1] <= gaps[1][2]
      /\ block.start <= gaps[1][1] /\ gaps[1][2] <= block.end
      /\ Clear(gaps[1][1], gaps[1][2])
      /\ gaps[1][1] = block.start \/ \E r \in occupied : r.end = gaps[1][1] - 1
      /\ gaps[1][2] = block.end \/ \E r \in occupied : r.start = gaps[1][2] + 1
    BY <1>2 DEF GapsOk
<1> QED
    BY <1>2, <1>3, <1>4, BlockFacts

\* Leaving the first gap.
LEMMA Popped ==
    ASSUME gaps \in Seq(Nat \X Nat), gaps # <<>>, gaps' = Tail(gaps)
    PROVE  /\ gaps' \in Seq(Nat \X Nat)
           /\ \A i \in DOMAIN gaps' : /\ i + 1 \in DOMAIN gaps /\ i + 1 # 1
                                      /\ gaps'[i] = gaps[i + 1]
           /\ \A i \in DOMAIN gaps : i # 1 => /\ i - 1 \in DOMAIN gaps'
                                              /\ gaps'[i - 1] = gaps[i]
           /\ \A i \in DOMAIN gaps' : i \in Nat
           /\ \A i \in DOMAIN gaps : i \in Nat
<1>1. /\ Len(gaps) \in Nat \ {0} /\ DOMAIN gaps = 1 .. Len(gaps)
      /\ Tail(gaps) \in Seq(Nat \X Nat) /\ Len(Tail(gaps)) = Len(gaps) - 1
      /\ \A i \in 1 .. Len(gaps) - 1 : Tail(gaps)[i] = gaps[i + 1]
    OBVIOUS
<1>2. PICK n \in Nat \ {0} : n = Len(gaps)
    BY <1>1
<1>3. DOMAIN gaps = 1 .. n /\ DOMAIN gaps' = 1 .. n - 1
      /\ \A i \in 1 .. n - 1 : gaps'[i] = gaps[i + 1]
    BY <1>1, <1>2
<1>4. \A i \in DOMAIN gaps : i # 1 =>
          i - 1 \in 1 .. n - 1 /\ gaps'[i - 1] = gaps[i]
  <2> TAKE i \in DOMAIN gaps
  <2> HAVE i # 1
  <2>1. i - 1 \in 1 .. n - 1 /\ (i - 1) + 1 = i
      BY <1>3
  <2>2. gaps'[i - 1] = gaps[(i - 1) + 1]
      BY <2>1, <1>3
  <2> QED
      BY <2>1, <2>2
<1>5. gaps' \in Seq(Nat \X Nat)
    BY <1>1
<1>6. \A i \in DOMAIN gaps' : /\ i \in Nat /\ i + 1 \in DOMAIN gaps /\ i + 1 # 1
                               /\ gaps'[i] = gaps[i + 1]
  <2> TAKE i \in DOMAIN gaps'
  <2>1. n \in Nat /\ i \in 1 .. n - 1
      BY <1>2, <1>3
  <2>2. i \in Nat /\ i + 1 \in 1 .. n /\ i + 1 # 1
      BY ONLY <2>1
  <2>3. gaps'[i] = gaps[i + 1]
      BY <2>1, <1>3
  <2> QED
      BY <2>2, <2>3, <1>3
<1>7. \A i \in DOMAIN gaps : i \in Nat
    BY <1>3
<1>8. \A i \in DOMAIN gaps : i # 1 => i - 1 \in DOMAIN gaps' /\ gaps'[i - 1] = gaps[i]
    BY <1>3, <1>4
<1> QED
    BY <1>5, <1>6, <1>7, <1>8

\* The gaps that are left are as before.
LEMMA GapsStay ==
    ASSUME gaps \in Seq(Nat \X Nat), GapsOk, UNCHANGED arguments,
           gaps' = gaps \/ (gaps # <<>> /\ gaps' = Tail(gaps))
    PROVE  gaps' \in Seq(Nat \X Nat) /\ GapsOk'
<1>1. block' = block /\ occupied' = occupied
    BY DEF arguments
<1>2. CASE gaps' = gaps
    BY <1>1, <1>2 DEF GapsOk, Clear
<1>3. CASE gaps # <<>> /\ gaps' = Tail(gaps)
  <2>1. /\ gaps' \in Seq(Nat \X Nat)
        /\ \A i \in DOMAIN gaps' : i \in Nat /\ i + 1 \in DOMAIN gaps /\ gaps'[i] = gaps[i + 1]
      BY <1>3, Popped
  <2>2. ASSUME NEW i \in DOMAIN gaps'
        PROVE  /\ block'.start <= gaps'[i][1] /\ gaps'[i][1] <= gaps'[i][2]
               /\ gaps'[i][2] <= block'.end
               /\ \A r \in occupied' : r.end < gaps'[i][1] \/ gaps'[i][2] < r.start
               /\ gaps'[i][1] = block'.start \/ \E r \in occupied' : r.end = gaps'[i][1] - 1
               /\ gaps'[i][2] = block'.end \/ \E r \in occupied' : r.start = gaps'[i][2] + 1
    <3>1. i + 1 \in DOMAIN gaps /\ gaps'[i] = gaps[i + 1]
        BY <2>1
    <3>2. /\ block.start <= gaps[i + 1][1] /\ gaps[i + 1][1] <= gaps[i + 1][2]
          /\ gaps[i + 1][2] <= block.end
          /\ \A r \in occupied : r.end < gaps[i + 1][1] \/ gaps[i + 1][2] < r.start
          /\ gaps[i + 1][1] = block.start \/ \E r \in occupied : r.end = gaps[i + 1][1] - 1
          /\ gaps[i + 1][2] = block.end \/ \E r \in occupied : r.start = gaps[i + 1][2] + 1
        BY <3>1 DEF GapsOk, Clear
    <3> QED
        BY <3>1, <3>2, <1>1
  <2>3. ASSUME NEW i \in DOMAIN gaps', NEW j \in DOMAIN gaps', i < j
        PROVE  gaps'[i][2] < gaps'[j][1]
    <3>1. i + 1 \in DOMAIN gaps /\ j + 1 \in DOMAIN gaps /\ i + 1 < j + 1
        BY <2>1, <2>3
    <3>2. gaps[i + 1][2] < gaps[j + 1][1]
        BY <3>1 DEF GapsOk
    <3> QED
        BY <3>2, <2>1
  <2> QED
      BY <2>1, <2>2, <2>3 DEF GapsOk, Clear
<1> QED
    BY <1>2, <1>3

\* Leaving the first gap, with nothing left in it.
LEMMA PopStep ==
    ASSUME IInv, InWord, Entered, pc' = "gap", gaps' = Tail(gaps),
           UNCHANGED <<arguments, scanned, addr, sub, results>>,
           \A t \in Targets : InGap(1, t[1], t[2]) => ~ (Cursor <= t[1])
    PROVE  (StateOk /\ GapsOk /\ Scanning /\ InOrder /\ Progress /\ Cursors /\ NoHole)'
<1>1. ArgumentsOk /\ StateOk /\ GapsOk /\ InOrder /\ Progress /\ Cursors
    BY DEF IInv
<1>2. UNCHANGED arguments /\ unpassed' = unpassed /\ from' = from /\ addr' = addr
      /\ sub' = sub /\ results' = results /\ occupied' = occupied /\ op' = op
      /\ count' = count /\ prefix' = prefix
    BY DEF scanned, arguments
<1>3. gaps # <<>> /\ gaps \in Seq(Nat \X Nat)
    BY <1>1 DEF Cursors, StateOk
<1>4. gaps' \in Seq(Nat \X Nat) /\ GapsOk'
    BY <1>1, <1>2, <1>3, GapsStay
<1>5. bits' = bits /\ Targets' = Targets /\ \A c : EndOf(c)' = EndOf(c)
    BY <1>2, ArgumentsStay
<1>6. StateOk'
    BY <1>1, <1>2, <1>4, <1>5 DEF StateOk
<1>7. ~ Entered' /\ pc' # "done" /\ pc # "done" /\ pc # "scan"
    BY DEF Entered
<1>8. Scanning' /\ Cursors' /\ NoHole'
    BY <1>7 DEF Scanning, Cursors, NoHole, Entered
<1>9. ASSUME NEW i \in DOMAIN results', NEW j \in DOMAIN gaps'
      PROVE  EndOf(results[i]) < gaps'[j][1]
  <2>1. j + 1 \in DOMAIN gaps /\ j + 1 # 1 /\ gaps'[j] = gaps[j + 1]
      BY <1>3, Popped
  <2>2. EndOf(results[i]) < gaps[j + 1][1]
      BY <2>1, <1>1, <1>2, <1>7 DEF InOrder
  <2> QED
      BY <2>1, <2>2
<1>10. InOrder'
  <2>1. \A i, j \in DOMAIN results' : i < j => EndOf(results[i]) < results[j][1]
      BY <1>1, <1>2 DEF InOrder
  <2>2. op' = "fit" => Len(results') <= count'
      BY <1>1, <1>2 DEF InOrder
  <2>3. prefix' # NULL => \A i \in DOMAIN results' : results'[i][2] = prefix'
      BY <1>1, <1>2 DEF InOrder
  <2>4. \A i, j \in DOMAIN results' : i < j => (EndOf(results[i]) < results[j][1])'
    <3> TAKE i, j \in DOMAIN results'
    <3>1. EndOf(results[i])' = EndOf(results[i])
        BY <1>2, <1>5 DEF EndOf
    <3> QED
        BY <3>1, <2>1, <1>2
  <2>5. \A i \in DOMAIN results' : \A j \in DOMAIN gaps' : (EndOf(results[i]) < gaps[j][1])'
    <3> TAKE i \in DOMAIN results'
    <3> TAKE j \in DOMAIN gaps'
    <3>1. EndOf(results[i])' = EndOf(results[i])
        BY <1>2, <1>5 DEF EndOf
    <3> QED
        BY <3>1, <1>9
  <2> QED
      BY <2>2, <2>3, <2>4, <2>5, <1>7 DEF InOrder
<1>11. Runs' = Runs
    BY <1>2, <1>5 DEF Runs, EndOf
<1>12. ASSUME NEW t \in Targets, t \notin Runs PROVE Ahead(t[1], t[2])'
  <2>1. Ahead(t[1], t[2])
      BY <1>1, <1>12 DEF Progress, Entered
  <2>2. PICK i \in DOMAIN gaps : InGap(i, t[1], t[2]) /\ (i = 1 => Cursor <= t[1])
      BY <2>1 DEF Ahead
  <2>3. i # 1
      BY <2>2
  <2>4. i - 1 \in DOMAIN gaps' /\ gaps'[i - 1] = gaps[i]
      BY <2>3, <1>3, Popped
  <2>5. PICK k \in DOMAIN gaps' : gaps'[k] = gaps[i]
      BY <2>4
  <2>6. InGap(k, t[1], t[2])'
      BY <2>2, <2>5 DEF InGap
  <2> QED
      BY <2>6, <1>7 DEF Ahead
<1>13. Progress'
  <2>1. Runs \subseteq Targets
      BY <1>1 DEF Progress
  <2>2. pc' = "gap"
      OBVIOUS
  <2>3. \A t \in Targets : t \in Runs \/ Ahead(t[1], t[2])'
      BY <1>12
  <2> QED
      BY <2>1, <2>2, <2>3, <1>5, <1>11 DEF Progress
<1> QED
    BY <1>4, <1>6, <1>8, <1>10, <1>13

\* What is left behind in the first gap is behind: nothing is listed.
LEMMA SkipStep ==
    ASSUME IInv, InWord, Entered, Entered', UNCHANGED <<arguments, scanned, gaps, results>>,
           pc' \in {"fit", "cover", "split"}, addr' \in Nat, sub' \in Nat, Cursor <= Cursor',
           \A t \in Targets : InGap(1, t[1], t[2]) /\ Cursor <= t[1] => Cursor' <= t[1]
    PROVE  (StateOk /\ GapsOk /\ Scanning /\ InOrder /\ Progress)'
<1>1. ArgumentsOk /\ StateOk /\ GapsOk /\ InOrder /\ Progress
    BY DEF IInv
<1>2. UNCHANGED arguments /\ unpassed' = unpassed /\ from' = from /\ gaps' = gaps
      /\ results' = results /\ occupied' = occupied /\ op' = op
      /\ count' = count /\ prefix' = prefix
    BY DEF scanned, arguments
<1>3. gaps \in Seq(Nat \X Nat)
    BY <1>1 DEF StateOk
<1>4. GapsOk'
    BY <1>1, <1>2, <1>3, GapsStay
<1>5. bits' = bits /\ Targets' = Targets /\ \A c : EndOf(c)' = EndOf(c)
    BY <1>2, ArgumentsStay
<1>6. StateOk'
    BY <1>1, <1>2, <1>5 DEF StateOk
<1>7. Scanning'
    BY DEF Scanning
<1>8. Cursor \in Nat /\ Cursor' \in Nat
    BY <1>1 DEF Cursor, StateOk
<1>9. pc # "done" /\ pc' # "done" /\ pc \in {"gap", "fit", "cover", "split"}
    BY DEF Entered
<1>10. InOrder'
  <2>1. \A i \in DOMAIN results' : EndOf(results[i])' = EndOf(results[i])
      BY <1>2, <1>5 DEF EndOf
  <2>2. ASSUME NEW i \in DOMAIN results
        PROVE  /\ EndOf(results[i]) < Cursor'
               /\ \A j \in DOMAIN gaps : j = 1 \/ EndOf(results[i]) < gaps[j][1]
    <3>1. EndOf(results[i]) < Cursor /\ EndOf(results[i]) \in Nat
        BY <1>1, <1>9, ResultTyped DEF InOrder
    <3>2. \A j \in DOMAIN gaps : j = 1 \/ EndOf(results[i]) < gaps[j][1]
        BY <1>1, <1>9 DEF InOrder
    <3> QED
        BY <3>1, <3>2, <1>8
  <2>3. \A i, j \in DOMAIN results : i < j => EndOf(results[i]) < results[j][1]
      BY <1>1 DEF InOrder
  <2>4. op' = "fit" => Len(results') <= count'
      BY <1>1, <1>2 DEF InOrder
  <2>5. prefix' # NULL => \A i \in DOMAIN results' : results'[i][2] = prefix'
      BY <1>1, <1>2 DEF InOrder
  <2> QED
      BY <2>1, <2>2, <2>3, <2>4, <2>5, <1>2 DEF InOrder
<1>11. Runs' = Runs
    BY <1>2, <1>5 DEF Runs, EndOf
<1>12. ASSUME NEW t \in Targets, t \notin Runs PROVE Ahead(t[1], t[2])'
  <2>1. Ahead(t[1], t[2])
      BY <1>1, <1>9, <1>12 DEF Progress
  <2>2. PICK i \in DOMAIN gaps : InGap(i, t[1], t[2]) /\ (i = 1 => Cursor <= t[1])
      BY <2>1 DEF Ahead
  <2>3. i = 1 => Cursor' <= t[1]
      BY <2>2
  <2>4. InGap(i, t[1], t[2])'
      BY <2>2, <1>2 DEF InGap
  <2> QED
      BY <2>3, <2>4, <1>2 DEF Ahead
<1>13. Progress'
  <2>1. Runs \subseteq Targets
      BY <1>1 DEF Progress
  <2>2. \A t \in Targets : t \in Runs \/ Ahead(t[1], t[2])'
      BY <1>12
  <2> QED
      BY <2>1, <2>2, <1>5, <1>9, <1>11 DEF Progress
<1> QED
    BY <1>4, <1>6, <1>7, <1>10, <1>13

\* A target is listed, and the cursor passes it.
LEMMA FindStep ==
    ASSUME IInv, InWord, Entered, Entered', UNCHANGED <<arguments, scanned, gaps>>,
           pc' \in {"fit", "cover", "split"}, addr' \in Nat, sub' \in Nat,
           NEW a \in Nat, NEW p \in 0 .. bits, results' = Append(results, <<a, p>>),
           Cursor <= a, a + Pow2[bits - p] - 1 < Cursor', a + Pow2[bits - p] - 1 <= gaps[1][2],
           <<a, a + Pow2[bits - p] - 1>> \in Targets,
           op = "fit" => Len(results) < count,
           prefix # NULL => p = prefix,
           \A t \in Targets : InGap(1, t[1], t[2]) /\ Cursor <= t[1] =>
               Cursor' <= t[1] \/ t = <<a, a + Pow2[bits - p] - 1>>
    PROVE  (StateOk /\ GapsOk /\ Scanning /\ InOrder /\ Progress)'
<1>1. ArgumentsOk /\ StateOk /\ GapsOk /\ InOrder /\ Progress /\ Cursors
    BY DEF IInv
<1>2. UNCHANGED arguments /\ unpassed' = unpassed /\ from' = from /\ gaps' = gaps
      /\ occupied' = occupied /\ op' = op /\ count' = count /\ prefix' = prefix
    BY DEF scanned, arguments
<1>3. gaps \in Seq(Nat \X Nat) /\ results \in Seq(Nat \X (0 .. bits)) /\ gaps # <<>>
    BY <1>1 DEF StateOk, Cursors
<1>4. GapsOk'
    BY <1>1, <1>2, <1>3, GapsStay
<1>5. bits' = bits /\ Targets' = Targets /\ \A c : EndOf(c)' = EndOf(c)
    BY <1>2, ArgumentsStay
<1>6. PICK n \in Nat : n = Len(results)
    BY <1>3
<1>7. /\ results' \in Seq(Nat \X (0 .. bits)) /\ Len(results') = n + 1
      /\ DOMAIN results = 1 .. n /\ DOMAIN results' = 1 .. n + 1
      /\ \A i \in 1 .. n : results'[i] = results[i]
      /\ results'[n + 1] = <<a, p>>
  <2>1. <<a, p>> \in Nat \X (0 .. bits)
      OBVIOUS
  <2>2. /\ Append(results, <<a, p>>) \in Seq(Nat \X (0 .. bits))
        /\ Len(Append(results, <<a, p>>)) = Len(results) + 1
        /\ DOMAIN results = 1 .. Len(results)
        /\ DOMAIN Append(results, <<a, p>>) = 1 .. Len(results) + 1
        /\ \A i \in 1 .. Len(results) : Append(results, <<a, p>>)[i] = results[i]
        /\ Append(results, <<a, p>>)[Len(results) + 1] = <<a, p>>
      BY <2>1, <1>3, Appended
  <2>3. results' = Append(results, <<a, p>>)
      OBVIOUS
  <2> QED
      BY ONLY <2>2, <2>3, <1>6
<1>8. StateOk'
    BY <1>1, <1>2, <1>5, <1>7 DEF StateOk
<1>9. Scanning'
    BY DEF Scanning
<1>10. Cursor \in Nat /\ Cursor' \in Nat
    BY <1>1 DEF Cursor, StateOk
<1>11. pc # "done" /\ pc' # "done" /\ pc \in {"gap", "fit", "cover", "split"}
    BY DEF Entered
<1>12. PICK e \in Nat : e = a + Pow2[bits - p] - 1
  <2>1. bits - p \in Nat
      BY BitsOf
  <2>2. Pow2[bits - p] \in Nat \ {0}
      BY <2>1, Pow2Values
  <2> QED
      BY <2>2
<1>13. a <= e
  <2>1. bits - p \in Nat
      BY BitsOf
  <2>2. Pow2[bits - p] \in Nat \ {0}
      BY <2>1, Pow2Values
  <2> QED
      BY <2>2, <1>12
<1>14. /\ \A i \in 1 .. n : EndOf(results[i])' = EndOf(results[i])
       /\ EndOf(results'[n + 1]) = e
  <2>1. \A i \in 1 .. n : EndOf(results[i])' = EndOf(results[i])
      BY <1>5, <1>7 DEF EndOf
  <2>2. EndOf(<<a, p>>) = e
      BY <1>12 DEF EndOf
  <2> QED
      BY <2>1, <2>2, <1>7
<1>15. ASSUME NEW i \in 1 .. n
       PROVE  /\ EndOf(results[i]) \in Nat /\ EndOf(results[i]) < a
              /\ EndOf(results[i]) < Cursor'
              /\ \A j \in DOMAIN gaps : j = 1 \/ EndOf(results[i]) < gaps[j][1]
  <2>1. EndOf(results[i]) < Cursor /\ EndOf(results[i]) \in Nat
      BY <1>1, <1>7, <1>11, ResultTyped DEF InOrder
  <2>2. \A j \in DOMAIN gaps : j = 1 \/ EndOf(results[i]) < gaps[j][1]
      BY <1>1, <1>7, <1>11 DEF InOrder
  <2>3. a < Cursor'
      BY <1>10, <1>12, <1>13
  <2> QED
      BY <2>1, <2>2, <2>3, <1>10
<1>16. InOrder'
  <2> DEFINE E(i) == IF i = n + 1 THEN e ELSE EndOf(results[i])
  <2>1. ASSUME NEW i \in DOMAIN results' PROVE EndOf(results[i])' = E(i)
    <3>1. CASE i \in 1 .. n
      <4>1. i # n + 1
          BY <3>1
      <4> QED
          BY <3>1, <4>1, <1>14
    <3>2. CASE i = n + 1
      <4>1. results'[i] = <<a, p>>
          BY <3>2, <1>7
      <4>2. EndOf(results[i])' = a + Pow2[bits - p] - 1
          BY <4>1, <1>5 DEF EndOf
      <4> QED
          BY <4>2, <3>2, <1>12
    <3> QED
        BY <3>1, <3>2, <1>7
  <2>2. ASSUME NEW i \in DOMAIN results', NEW j \in DOMAIN results', i < j
        PROVE  E(i) < results'[j][1]
    <3>1. i \in 1 .. n /\ i # n + 1
        BY <2>2, <1>7
    <3>2. CASE j = n + 1
        BY <3>1, <3>2, <1>7, <1>15
    <3>3. CASE j # n + 1
      <4>1. j \in 1 .. n
          BY <3>3, <1>7
      <4>2. EndOf(results[i]) < results[j][1]
          BY <2>2, <3>1, <4>1, <1>1, <1>7 DEF InOrder
      <4> QED
          BY <3>1, <4>1, <4>2, <1>7
    <3> QED
        BY <3>2, <3>3
  <2>3. ASSUME NEW i \in DOMAIN results'
        PROVE  /\ E(i) < Cursor'
               /\ \A j \in DOMAIN gaps : j = 1 \/ E(i) < gaps[j][1]
    <3>1. CASE i = n + 1
      <4>1. ASSUME NEW j \in DOMAIN gaps, j # 1 PROVE e < gaps[j][1]
        <5>1. gaps[1][2] < gaps[j][1]
          <6>1. 1 \in DOMAIN gaps /\ 1 < j
            <7>1. DOMAIN gaps = 1 .. Len(gaps) /\ Len(gaps) \in Nat
                BY <1>3, GapTyped
            <7> QED
                BY <4>1, <7>1
          <6> QED
              BY <6>1, <1>1 DEF GapsOk
        <5>2. gaps[1][2] \in Nat /\ gaps[j][1] \in Nat /\ e <= gaps[1][2]
          <6>1. 1 \in DOMAIN gaps
              BY <1>3
          <6> QED
              BY <6>1, <1>3, <1>12, GapTyped
        <5> QED
            BY <5>1, <5>2
      <4>2. e < Cursor'
          BY <1>12
      <4> QED
          BY <3>1, <4>1, <4>2
    <3>2. CASE i # n + 1
      <4>1. i \in 1 .. n
          BY <3>2, <1>7
      <4> QED
          BY <3>2, <4>1, <1>15
    <3> QED
        BY <3>1, <3>2
  <2>4. op' = "fit" => Len(results') <= count'
    <3>1. count \in Nat
        BY <1>1 DEF ArgumentsOk
    <3> QED
        BY <3>1, <1>2, <1>6, <1>7
  <2>5. prefix' # NULL => \A i \in DOMAIN results' : results'[i][2] = prefix'
    <3> SUFFICES ASSUME prefix # NULL, NEW i \in DOMAIN results'
                 PROVE  results'[i][2] = prefix
        BY <1>2
    <3>1. CASE i = n + 1
        BY <3>1, <1>7
    <3>2. CASE i # n + 1
      <4>1. i \in 1 .. n
          BY <3>2, <1>7
      <4> QED
          BY <4>1, <1>1, <1>7 DEF InOrder
    <3> QED
        BY <3>1, <3>2
  <2> HIDE DEF E
  <2>6. \A i, j \in DOMAIN results' : i < j => (EndOf(results[i]) < results[j][1])'
      BY <2>1, <2>2
  <2>7. \A i \in DOMAIN results' :
           /\ (EndOf(results[i]) < Cursor)'
           /\ \A j \in DOMAIN gaps' : j = 1 \/ (EndOf(results[i]) < gaps[j][1])'
      BY <2>1, <2>3, <1>2
  <2> QED
      BY <2>4, <2>5, <2>6, <2>7, <1>11 DEF InOrder
<1>17. Runs' = Runs \cup {<<a, e>>}
  <2>1. Runs' = {<<results'[i][1], results'[i][1] + Pow2[bits - results'[i][2]] - 1>> :
                    i \in 1 .. n + 1}
      BY <1>5, <1>7 DEF Runs, EndOf
  <2>2. Runs = {<<results[i][1], results[i][1] + Pow2[bits - results[i][2]] - 1>> :
                    i \in 1 .. n}
      BY <1>7 DEF Runs, EndOf
  <2>3. <<results'[n + 1][1], results'[n + 1][1] + Pow2[bits - results'[n + 1][2]] - 1>>
           = <<a, e>>
      BY <1>7, <1>12
  <2>4. \A i \in 1 .. n : i \in 1 .. n + 1 /\ results'[i] = results[i]
      BY <1>7
  <2>5. \A i \in 1 .. n + 1 : i \in 1 .. n \/ i = n + 1
      OBVIOUS
  <2>6. n + 1 \in 1 .. n + 1
      OBVIOUS
  <2>7. ASSUME NEW x \in Runs' PROVE x \in Runs \cup {<<a, e>>}
    <3>1. PICK i \in 1 .. n + 1 :
              x = <<results'[i][1], results'[i][1] + Pow2[bits - results'[i][2]] - 1>>
        BY <2>1
    <3>2. CASE i \in 1 .. n
        BY <3>1, <3>2, <2>2, <2>4
    <3>3. CASE i = n + 1
        BY <3>1, <3>3, <2>3
    <3> QED
        BY <3>2, <3>3, <2>5
  <2>8. ASSUME NEW x \in Runs PROVE x \in Runs'
      BY <2>1, <2>2, <2>4
  <2>9. <<a, e>> \in Runs'
      BY <2>1, <2>3, <2>6
  <2> QED
      BY <2>7, <2>8, <2>9
<1>18. ASSUME NEW t \in Targets, t \notin Runs' PROVE Ahead(t[1], t[2])'
  <2>1. t \notin Runs /\ t # <<a, e>>
      BY <1>17, <1>18
  <2>2. Ahead(t[1], t[2])
      BY <2>1, <1>1, <1>11 DEF Progress
  <2>3. PICK i \in DOMAIN gaps : InGap(i, t[1], t[2]) /\ (i = 1 => Cursor <= t[1])
      BY <2>2 DEF Ahead
  <2>4. i = 1 => Cursor' <= t[1]
      BY <2>1, <2>3, <1>12
  <2>5. InGap(i, t[1], t[2])'
      BY <2>3, <1>2 DEF InGap
  <2> QED
      BY <2>4, <2>5, <1>2 DEF Ahead
<1>19. Progress'
  <2>1. Runs' \subseteq Targets
      BY <1>1, <1>12, <1>17 DEF Progress
  <2>2. \A t \in Targets : t \in Runs' \/ Ahead(t[1], t[2])'
      BY <1>18
  <2> QED
      BY <2>1, <2>2, <1>5, <1>11 DEF Progress
<1> QED
    BY <1>4, <1>8, <1>9, <1>16, <1>19

\* A target of one size is a multiple, of that size.
LEMMA SizedTarget ==
    ASSUME ArgumentsOk, prefix # NULL
    PROVE  /\ \A t \in Targets : t[1] \in Nat /\ t[1] % Size = 0 /\ t = <<t[1], t[1] + Size - 1>>
           /\ \A a \in Nat :
                 /\ a % Size = 0 /\ block.start <= a /\ a + Size - 1 <= block.end
                 /\ Clear(a, a + Size - 1)
                 => <<a, a + Size - 1>> \in Targets
<1>1. ASSUME NEW t \in Targets
      PROVE  t[1] \in Nat /\ t[1] % Size = 0 /\ t = <<t[1], t[1] + Size - 1>>
  <2>1. PICK a \in FreeStarts(block, occupied, Size) : t = <<a, a + Size - 1>>
      BY DEF Targets
  <2>2. a \in Nat /\ a % Size = 0
      BY <2>1, FreeStartsIs
  <2> QED
      BY <2>1, <2>2
<1>2. ASSUME NEW a \in Nat, a % Size = 0, block.start <= a, a + Size - 1 <= block.end,
             Clear(a, a + Size - 1)
      PROVE  <<a, a + Size - 1>> \in Targets
  <2>1. a \in FreeStarts(block, occupied, Size)
      BY <1>2, FreeStartsIs
  <2> QED
      BY <2>1 DEF Targets
<1> QED
    BY <1>1, <1>2

\* What lies in a clear interval is clear.
LEMMA ClearInside ==
    ASSUME ArgumentsOk, NEW a \in Int, NEW e \in Int, NEW b \in Int, NEW f \in Int,
           Clear(a, e), a <= b, f <= e
    PROVE  Clear(b, f)
<1>1. ASSUME NEW r \in occupied PROVE r.end < b \/ f < r.start
  <2>1. r.start \in Nat /\ r.end \in Nat
      BY OccupiedFacts
  <2>2. r.end < a \/ e < r.start
      BY DEF Clear
  <2> QED
      BY <2>1, <2>2
<1> QED
    BY <1>1 DEF Clear

\* Entering a gap: a cursor between its first address and its first target.
LEMMA EnterStep ==
    ASSUME IInv, InWord, pc = "gap", gaps # <<>>,
           UNCHANGED <<arguments, scanned, gaps, sub, results>>,
           pc' \in {"fit", "cover"}, addr' \in Nat, gaps[1][1] <= addr',
           \A t \in Targets : InGap(1, t[1], t[2]) => addr' <= t[1]
    PROVE  (StateOk /\ GapsOk /\ Scanning /\ InOrder /\ Progress)'
<1>1. ArgumentsOk /\ StateOk /\ GapsOk /\ InOrder /\ Progress
    BY DEF IInv
<1>2. UNCHANGED arguments /\ unpassed' = unpassed /\ from' = from /\ gaps' = gaps
      /\ results' = results /\ occupied' = occupied /\ op' = op /\ sub' = sub
      /\ count' = count /\ prefix' = prefix
    BY DEF scanned, arguments
<1>3. gaps \in Seq(Nat \X Nat)
    BY <1>1 DEF StateOk
<1>4. GapsOk'
    BY <1>1, <1>2, <1>3, GapsStay
<1>5. bits' = bits /\ Targets' = Targets /\ \A c : EndOf(c)' = EndOf(c)
    BY <1>2, ArgumentsStay
<1>6. StateOk'
    BY <1>1, <1>2, <1>5 DEF StateOk
<1>7. Scanning'
    BY DEF Scanning
<1>8. ~ Entered /\ Entered' /\ pc' # "done" /\ Cursor' = addr'
    BY DEF Entered, Cursor
<1>9. InOrder'
  <2>1. \A i \in DOMAIN results' : EndOf(results[i])' = EndOf(results[i])
      BY <1>2, <1>5 DEF EndOf
  <2>2. ASSUME NEW i \in DOMAIN results
        PROVE  /\ EndOf(results[i]) < Cursor'
               /\ \A j \in DOMAIN gaps : EndOf(results[i]) < gaps[j][1]
    <3>1. \A j \in DOMAIN gaps : EndOf(results[i]) < gaps[j][1]
        BY <1>1, <1>8 DEF InOrder
    <3>2. EndOf(results[i]) \in Nat /\ 1 \in DOMAIN gaps /\ gaps[1][1] \in Nat
        BY <1>1, ResultTyped, FirstGap
    <3> QED
        BY <3>1, <3>2, <1>8
  <2>3. \A i, j \in DOMAIN results : i < j => EndOf(results[i]) < results[j][1]
      BY <1>1 DEF InOrder
  <2>4. op' = "fit" => Len(results') <= count'
      BY <1>1, <1>2 DEF InOrder
  <2>5. prefix' # NULL => \A i \in DOMAIN results' : results'[i][2] = prefix'
      BY <1>1, <1>2 DEF InOrder
  <2> QED
      BY <2>1, <2>2, <2>3, <2>4, <2>5, <1>2 DEF InOrder
<1>10. Runs' = Runs
    BY <1>2, <1>5 DEF Runs, EndOf
<1>11. ASSUME NEW t \in Targets, t \notin Runs PROVE Ahead(t[1], t[2])'
  <2>1. Ahead(t[1], t[2])
      BY <1>1, <1>11 DEF Progress
  <2>2. PICK i \in DOMAIN gaps : InGap(i, t[1], t[2])
      BY <2>1 DEF Ahead
  <2>3. i = 1 => Cursor' <= t[1]
      BY <2>2, <1>8
  <2>4. InGap(i, t[1], t[2])'
      BY <2>2, <1>2 DEF InGap
  <2> QED
      BY <2>3, <2>4, <1>2 DEF Ahead
<1>12. Progress'
  <2>1. Runs \subseteq Targets
      BY <1>1 DEF Progress
  <2>2. \A t \in Targets : t \in Runs \/ Ahead(t[1], t[2])'
      BY <1>11
  <2> QED
      BY <2>1, <2>2, <1>5, <1>8, <1>10 DEF Progress
<1> QED
    BY <1>4, <1>6, <1>7, <1>9, <1>12

\* The last gap is left: what is not found was not there.
LEMMA ReturnStep ==
    IInv /\ InWord /\ Return =>
        (StateOk /\ GapsOk /\ Scanning /\ InOrder /\ Progress /\ Cursors /\ NoHole)'
<1> SUFFICES ASSUME IInv, InWord, Return
             PROVE  (StateOk /\ GapsOk /\ Scanning /\ InOrder /\ Progress /\ Cursors /\ NoHole)'
    OBVIOUS
<1>1. ArgumentsOk /\ StateOk /\ GapsOk /\ InOrder /\ Progress
    BY DEF IInv
<1>2. pc = "gap" /\ gaps = <<>> /\ pc' = "done" /\ UNCHANGED arguments /\ unpassed' = unpassed
      /\ from' = from /\ gaps' = gaps /\ results' = results /\ occupied' = occupied
      /\ op' = op /\ sub' = sub /\ addr' = addr /\ count' = count /\ prefix' = prefix
    BY DEF Return, scanned, arguments
<1>3. gaps \in Seq(Nat \X Nat)
    BY <1>1 DEF StateOk
<1>4. GapsOk'
    BY <1>1, <1>2, <1>3, GapsStay
<1>5. bits' = bits /\ Targets' = Targets /\ \A c : EndOf(c)' = EndOf(c)
    BY <1>2, ArgumentsStay
<1>6. StateOk'
    BY <1>1, <1>2, <1>5 DEF StateOk
<1>7. Scanning' /\ Cursors' /\ NoHole'
    BY <1>2 DEF Scanning, Cursors, NoHole, Entered
<1>8. Runs' = Runs
    BY <1>2, <1>5 DEF Runs, EndOf
<1>9. InOrder'
  <2>1. \A i \in DOMAIN results' : EndOf(results[i])' = EndOf(results[i])
      BY <1>2, <1>5 DEF EndOf
  <2>2. \A i, j \in DOMAIN results : i < j => EndOf(results[i]) < results[j][1]
      BY <1>1 DEF InOrder
  <2>3. op' = "fit" => Len(results') <= count'
      BY <1>1, <1>2 DEF InOrder
  <2>4. prefix' # NULL => \A i \in DOMAIN results' : results'[i][2] = prefix'
      BY <1>1, <1>2 DEF InOrder
  <2> QED
      BY <2>1, <2>2, <2>3, <2>4, <1>2 DEF InOrder
<1>10. \A t \in Targets : t \in Runs
  <2>1. \A t \in Targets : ~ Ahead(t[1], t[2])
    <3>1. DOMAIN gaps = {}
        BY <1>2
    <3> QED
        BY <3>1 DEF Ahead
  <2> QED
      BY <2>1, <1>1, <1>2 DEF Progress
<1>11. Progress'
  <2>1. Runs \subseteq Targets
      BY <1>1 DEF Progress
  <2> QED
      BY <2>1, <1>2, <1>5, <1>8, <1>10 DEF Progress
<1> QED
    BY <1>4, <1>6, <1>7, <1>9, <1>11

-----------------------------------------------------------------------------
(* find_free_blocks.                                                       *)

\* The size asked for is that of a word, and behind the block there is a boundary.
LEMMA FitFacts ==
    ASSUME ArgumentsOk, InWord, op = "fit"
    PROVE  /\ prefix # NULL /\ size_of(prefix) = Size
           /\ \E b \in 0 .. MAX : b % Size = 0 /\ block.end < b
<1>1. block.v4 \/ (block.end < MAX /\ Size <= block.end - block.start + 1)
    BY DEF InWord
<1>2. prefix # NULL
  <2>1. prefix \in 0 .. bits /\ bits \in Nat
      BY BitsOf DEF ArgumentsOk
  <2> QED
      BY <2>1, NullAssumption
<1>3. /\ bits - prefix \in Nat /\ bits - prefix \in 0 .. Word
      /\ Size \in Nat \ {0} /\ Size = Pow2[bits - prefix]
    BY <1>2, SizeFacts
<1>4. block.start \in Nat /\ block.end \in Nat /\ MAX \in Nat
    BY BlockFacts
<1>5. PICK k \in 0 .. bits : IsCidr(block, k)
    BY BlockFacts
<1>6. k \in Nat /\ Pow2[k] \in Nat \ {0}
    BY BitsOf, Pow2Values
<1>7. block.start % Pow2[k] = 0 /\ block.end = block.start + Pow2[k] - 1
    BY <1>5 DEF IsCidr
<1>8. CASE block.v4
  <2>1. bits \in Nat /\ Word \in Nat /\ bits < Word /\ bits - prefix <= bits
    <3>1. bits < Word
        BY <1>8, BitsOf
    <3>2. bits \in Nat /\ Word \in Nat
        BY BitsOf, WordNat
    <3>3. prefix \in 0 .. bits
        BY <1>2, SizeFacts
    <3> QED
        BY <3>1, <3>2, <3>3
  <2>2. Pow2[bits] \in Nat /\ Pow2[Word] \in Nat /\ Pow2[bits] < Pow2[Word]
      BY <2>1, Pow2Values, Pow2Grows
  <2>3. Pow2[bits] \in 0 .. MAX
      BY <2>2 DEF MAX
  <2>4. Pow2[bits] % Size = 0
      BY <2>1, <1>3, Pow2Aligned
  <2>5. block.end < Pow2[bits]
      BY BlockFacts
  <2>6. bits - prefix \in 0 .. Word - 1
      BY <2>1, <1>3
  <2>7. size_of(prefix) = Size
      BY <2>6, <1>3, SizeOf
  <2> QED
      BY <2>3, <2>4, <2>5, <2>7, <1>2
<1>9. CASE ~ block.v4
  <2>1. block.end < MAX /\ Size <= block.end - block.start + 1
      BY <1>1, <1>9
  <2>2. bits - prefix <= k
    <3> SUFFICES ASSUME k < bits - prefix PROVE FALSE
        BY <1>3, <1>6
    <3>1. Pow2[k] < Pow2[bits - prefix]
        BY <1>3, <1>6, Pow2Grows
    <3> QED
        BY <3>1, <2>1, <1>3, <1>4, <1>6, <1>7
  <2>3. block.start % Size = 0 /\ Pow2[k] % Size = 0
      BY <1>3, <1>4, <1>6, <1>7, <2>2, Aligned, Pow2Aligned
  <2>4. (block.start + Pow2[k]) % Size = 0
      BY <1>3, <1>4, <1>6, <2>3, MultiplesSum
  <2>5. bits - prefix \in 0 .. Word - 1
    <3> SUFFICES ASSUME bits - prefix = Word PROVE FALSE
        BY <1>3, WordNat
    <3>1. Size = MAX + 1
      <4>1. Pow2[Word] \in Nat
          BY WordNat, Pow2Values
      <4> QED
          BY <4>1, <1>3 DEF MAX
    <3> QED
        BY <3>1, <2>1, <1>4
  <2>6. size_of(prefix) = Size
      BY <1>3, <2>5, SizeOf
  <2>7. block.end + 1 = block.start + Pow2[k]
      BY <1>4, <1>6, <1>7
  <2>8. block.end + 1 \in 0 .. MAX /\ block.end < block.end + 1
      BY <2>1, <1>4
  <2> QED
      BY <2>4, <2>6, <2>7, <2>8, <1>2
<1> QED
    BY <1>8, <1>9

\* align: the least multiple from an address of the block on.
LEMMA AlignFacts ==
    ASSUME ArgumentsOk, InWord, op = "fit", NEW g \in Nat, g <= block.end
    PROVE  /\ align(g) \in Nat /\ g <= align(g) /\ align(g) <= MAX
           /\ align(g) % Size = 0
           /\ \A a \in Nat : a % Size = 0 /\ g <= a => align(g) <= a
<1>1. prefix # NULL /\ size_of(prefix) = Size
    BY FitFacts
<1>1b. PICK b \in 0 .. MAX : b % Size = 0 /\ block.end < b
    BY FitFacts
<1>2. PICK s \in Nat \ {0} : s = Size
    BY <1>1, SizeFacts
<1>3. block.end \in Nat /\ MAX \in Nat
    BY BlockFacts
<1>4. CASE g % s = 0
  <2>1. align(g) = g
      BY <1>1, <1>2, <1>4 DEF align
  <2> QED
      BY <2>1, <1>1b, <1>2, <1>3, <1>4
<1>5. CASE g % s # 0
  <2>1. PICK r \in 1 .. s - 1 : r = g % s
    <3>1. g % s \in 0 .. s - 1
        OBVIOUS
    <3> QED
        BY <3>1, <1>5
  <2>2. PICK q \in Nat : g = q * s + r
    <3>1. g = (g \div s) * s + (g % s) /\ g \div s \in Nat
        OBVIOUS
    <3> QED
        BY <3>1, <2>1
  <2>3. PICK x \in Nat : x = q * s /\ x % s = 0
    <3>1. (q * s) % s = 0 /\ q * s \in Nat
        OBVIOUS
    <3> QED
        BY <3>1
  <2>4. (x + s) % s = 0
    <3>1. s % s = 0
        OBVIOUS
    <3> QED
        BY <3>1, <2>3, MultiplesSum
  <2>5. g = x + r
      BY <2>2, <2>3
  <2>6. g + (s - r) = x + s
      BY <2>5
  <2>7. ASSUME NEW a \in Nat, a % s = 0, g <= a PROVE x + s <= a
    <3>1. x < a
        BY <2>5, <2>7
    <3> QED
        BY <3>1, <2>3, <2>7, NextMultiple
  <2>8. x + s <= b
    <3>1. b % s = 0 /\ b \in Nat /\ g <= b
        BY <1>1b, <1>2, <1>3
    <3> QED
        BY <3>1, <2>7
  <2>9. align(g) = wrap(x + s)
      BY <1>1, <1>2, <1>5, <2>1, <2>6 DEF align
  <2>10. x + s \in 0 .. MAX
      BY <2>3, <2>8, <1>1b, <1>2, <1>3
  <2>11. align(g) = x + s
      BY <2>9, <2>10, WrapSmall
  <2> QED
      BY <2>4, <2>5, <2>7, <2>10, <2>11, <1>2
<1> QED
    BY <1>4, <1>5

\* The search enters a gap at its first aligned address, the report at its
\* first address.
LEMMA EnterGapStep ==
    IInv /\ InWord /\ EnterGap =>
        (StateOk /\ GapsOk /\ Scanning /\ InOrder /\ Progress /\ Cursors /\ NoHole)'
<1> SUFFICES ASSUME IInv, InWord, EnterGap
             PROVE  (StateOk /\ GapsOk /\ Scanning /\ InOrder /\ Progress /\ Cursors /\ NoHole)'
    OBVIOUS
<1>1. ArgumentsOk /\ StateOk /\ GapsOk /\ Cursors
    BY DEF IInv
<1>2. /\ pc = "gap" /\ gaps # <<>> /\ UNCHANGED <<arguments, scanned, gaps, sub, results>>
      /\ IF op = "fit"
         THEN addr' = align(gaps[1][1]) /\ pc' = "fit"
         ELSE addr' = gaps[1][1] /\ pc' = "cover"
    BY DEF EnterGap
<1>3. UNCHANGED arguments /\ gaps' = gaps /\ op' = op /\ block' = block /\ prefix' = prefix
    BY <1>2 DEF arguments
<1>4. /\ gaps[1][1] \in Nat /\ gaps[1][2] \in Nat /\ gaps[1][1] <= gaps[1][2]
      /\ gaps[1][1] <= block.end /\ gaps[1][2] <= block.end /\ block.end \in Nat
    BY <1>1, <1>2, FirstGap, BlockFacts
<1>5. CASE op = "fit"
  <2>1. addr' = align(gaps[1][1]) /\ pc' = "fit"
      BY <1>2, <1>5
  <2>2. /\ addr' \in Nat /\ gaps[1][1] <= addr' /\ addr' <= MAX
        /\ addr' % Size = 0
        /\ \A a \in Nat : a % Size = 0 /\ gaps[1][1] <= a => addr' <= a
      BY <1>1, <1>4, <1>5, <2>1, AlignFacts
  <2>3. \A t \in Targets : InGap(1, t[1], t[2]) => addr' <= t[1]
    <3> TAKE t \in Targets
    <3> HAVE InGap(1, t[1], t[2])
    <3>1. t[1] \in Nat /\ t[1] % Size = 0
        BY <1>1, <1>5, FitFacts, SizedTarget
    <3>2. gaps[1][1] <= t[1]
        BY DEF InGap
    <3> QED
        BY <3>1, <3>2, <2>2
  <2>4. (StateOk /\ GapsOk /\ Scanning /\ InOrder /\ Progress)'
      BY <1>2, <2>1, <2>2, <2>3, EnterStep
  <2>5. Cursors'
    <3>1. Size' = Size
        BY <1>3, ArgumentsStay
    <3> QED
        BY <3>1, <1>2, <1>3, <1>5, <2>1, <2>2 DEF Cursors
  <2>6. NoHole'
      BY <2>1 DEF NoHole
  <2> QED
      BY <2>4, <2>5, <2>6
<1>6. CASE op # "fit"
  <2>1. addr' = gaps[1][1] /\ pc' = "cover"
      BY <1>2, <1>6
  <2>2. addr' \in Nat /\ gaps[1][1] <= addr' /\ addr' <= gaps[1][2] + 1
      BY <1>4, <2>1
  <2>3. \A t \in Targets : InGap(1, t[1], t[2]) => addr' <= t[1]
      BY <2>1 DEF InGap
  <2>4. (StateOk /\ GapsOk /\ Scanning /\ InOrder /\ Progress)'
      BY <1>2, <2>1, <2>2, <2>3, EnterStep
  <2>5. Cursors'
      BY <1>2, <1>3, <1>6, <2>1, <2>2 DEF Cursors
  <2>6. NoHole'
    <3>1. gaps'[1][1] .. addr' - 1 = {}
        BY <1>3, <1>4, <2>1
    <3> QED
        BY <3>1 DEF NoHole
  <2> QED
      BY <2>4, <2>5, <2>6
<1> QED
    BY <1>5, <1>6

\* Where the search stands, a block fits if its last address is in the gap.
LEMMA FitHere ==
    ASSUME IInv, InWord, pc = "fit"
    PROVE  /\ op = "fit" /\ prefix # NULL /\ addr \in Nat /\ addr % Size = 0
           /\ Size \in Nat \ {0} /\ size_of(prefix) = Size
           /\ EndsBy(addr, prefix, gaps[1][2]) <=> addr + Size - 1 <= gaps[1][2]
<1>1. ArgumentsOk /\ StateOk /\ Cursors
    BY DEF IInv
<1>2. op = "fit"
    BY <1>1 DEF Cursors, ArgumentsOk
<1>3. prefix # NULL /\ size_of(prefix) = Size
    BY <1>1, <1>2, FitFacts
<1>4. /\ bits - prefix \in 0 .. Word /\ Size \in Nat \ {0} /\ Size = Pow2[bits - prefix]
    BY <1>1, <1>3, SizeFacts
<1>5. addr \in Nat /\ addr % Size = 0 /\ addr <= MAX
    BY <1>1 DEF Cursors, StateOk
<1>6. addr \in 0 .. MAX
    BY <1>3, <1>5, <1>1, BlockFacts
<1>7. wrap(addr + Size - 1) = addr + Size - 1
    BY <1>4, <1>5, <1>6, NoWrap
<1> QED
    BY <1>2, <1>3, <1>4, <1>5, <1>7 DEF EndsBy

\* A block is taken.
LEMMA TakeStep ==
    IInv /\ InWord /\ Take =>
        (StateOk /\ GapsOk /\ Scanning /\ InOrder /\ Progress /\ Cursors /\ NoHole)'
<1> SUFFICES ASSUME IInv, InWord, Take
             PROVE  (StateOk /\ GapsOk /\ Scanning /\ InOrder /\ Progress /\ Cursors /\ NoHole)'
    OBVIOUS
<1>1. ArgumentsOk /\ StateOk /\ GapsOk /\ Cursors
    BY DEF IInv
<1>2. /\ pc = "fit" /\ EndsBy(addr, prefix, gaps[1][2]) /\ Len(results) < count
      /\ results' = Append(results, <<addr, prefix>>)
      /\ addr' = wrap(addr + size_of(prefix))
      /\ UNCHANGED <<arguments, scanned, gaps, sub, pc>>
    BY DEF Take, Wanted
<1>3. /\ op = "fit" /\ prefix # NULL /\ addr \in Nat /\ addr % Size = 0
      /\ Size \in Nat \ {0} /\ size_of(prefix) = Size
      /\ addr + Size - 1 <= gaps[1][2]
    BY <1>2, FitHere
<1>4. gaps # <<>> /\ gaps[1][1] <= addr
    BY <1>1, <1>2 DEF Cursors, Entered
<1>5. /\ gaps[1][1] \in Nat /\ gaps[1][2] \in Nat
      /\ block.start <= gaps[1][1] /\ gaps[1][2] <= block.end
      /\ Clear(gaps[1][1], gaps[1][2])
    BY <1>1, <1>4, FirstGap
<1>6. block.start \in Nat /\ block.end \in Nat /\ block.end + 1 <= MAX /\ MAX \in Nat
  <2>1. block.end \in Nat /\ block.start \in Nat /\ MAX \in Nat
      BY <1>1, BlockFacts
  <2>2. PICK b \in 0 .. MAX : block.end < b
      BY <1>1, <1>3, FitFacts
  <2> QED
      BY <2>1, <2>2
<1>7. addr' = addr + Size
  <2>1. addr + Size \in 0 .. MAX
      BY <1>3, <1>5, <1>6
  <2> QED
      BY <2>1, <1>2, <1>3, WrapSmall
<1>8. Entered /\ Entered' /\ Cursor = addr /\ Cursor' = addr'
    BY <1>2 DEF Entered, Cursor
<1>9. prefix \in 0 .. bits /\ Size = Pow2[bits - prefix]
    BY <1>1, <1>3, SizeFacts
<1>10. <<addr, addr + Size - 1>> \in Targets
  <2>1. Clear(addr, addr + Size - 1)
    <3>1. addr + Size - 1 \in Int
        BY <1>3
    <3> QED
        BY <3>1, <1>1, <1>3, <1>4, <1>5, ClearInside
  <2>2. block.start <= addr /\ addr + Size - 1 <= block.end
      BY <1>3, <1>4, <1>5, <1>6
  <2> QED
      BY <2>1, <2>2, <1>1, <1>3, SizedTarget
<1>11. \A t \in Targets : InGap(1, t[1], t[2]) /\ Cursor <= t[1] =>
           Cursor' <= t[1] \/ t = <<addr, addr + Size - 1>>
  <2> TAKE t \in Targets
  <2> HAVE InGap(1, t[1], t[2]) /\ Cursor <= t[1]
  <2>1. t[1] \in Nat /\ t[1] % Size = 0 /\ t = <<t[1], t[1] + Size - 1>>
      BY <1>1, <1>3, SizedTarget
  <2>2. CASE t[1] = addr
      BY <2>1, <2>2
  <2>3. CASE t[1] # addr
    <3>1. addr < t[1]
        BY <2>1, <2>3, <1>3, <1>8
    <3>2. addr + Size <= t[1]
        BY <3>1, <2>1, <1>3, NextMultiple
    <3> QED
        BY <3>2, <1>7, <1>8
  <2> QED
      BY <2>2, <2>3
<1>12. (StateOk /\ GapsOk /\ Scanning /\ InOrder /\ Progress)'
  <2>1. pc' \in {"fit", "cover", "split"} /\ addr' \in Nat /\ sub' \in Nat
      BY <1>1, <1>2, <1>3, <1>7 DEF StateOk
  <2>2. Cursor <= addr /\ addr + Pow2[bits - prefix] - 1 < Cursor'
        /\ addr + Pow2[bits - prefix] - 1 <= gaps[1][2]
      BY <1>3, <1>7, <1>8, <1>9
  <2>3. UNCHANGED <<arguments, scanned, gaps>>
      BY <1>2
  <2> QED
      BY <2>1, <2>2, <2>3, <1>2, <1>3, <1>8, <1>9, <1>10, <1>11, FindStep
<1>13. Cursors'
  <2>1. Size' = Size /\ gaps' = gaps /\ op' = op /\ block' = block /\ pc' = pc
      BY <1>2, ArgumentsStay DEF arguments
  <2>2. addr' % Size = 0
    <3>1. Size % Size = 0
        BY <1>3
    <3> QED
        BY <3>1, <1>3, <1>7, MultiplesSum
  <2>3. addr' <= MAX /\ gaps[1][1] <= addr'
      BY <1>3, <1>4, <1>5, <1>6, <1>7
  <2> QED
      BY <2>1, <2>2, <2>3, <1>2, <1>3, <1>4 DEF Cursors
<1>14. NoHole'
    BY <1>2 DEF NoHole
<1> QED
    BY <1>12, <1>13, <1>14

\* Enough were found: all that was found lies before all that is to come.
LEMMA EnoughStep ==
    ASSUME IInv, InWord, NextGap, Len(results) >= count
    PROVE  (StateOk /\ GapsOk /\ Scanning /\ InOrder /\ Progress /\ Cursors /\ NoHole)'
<1>1. ArgumentsOk /\ StateOk /\ GapsOk /\ InOrder /\ Progress /\ Cursors
    BY DEF IInv
<1>2. pc = "fit" /\ pc' = "done" /\ gaps' = Tail(gaps) /\ UNCHANGED arguments
      /\ unpassed' = unpassed
      /\ from' = from /\ results' = results /\ occupied' = occupied
      /\ op' = op /\ sub' = sub /\ addr' = addr /\ count' = count /\ prefix' = prefix
    BY DEF NextGap, scanned, arguments
<1>3. gaps \in Seq(Nat \X Nat) /\ gaps # <<>>
    BY <1>1, <1>2 DEF StateOk, Cursors, Entered
<1>4. gaps' \in Seq(Nat \X Nat) /\ GapsOk'
    BY <1>1, <1>2, <1>3, GapsStay
<1>5. bits' = bits /\ Targets' = Targets /\ \A c : EndOf(c)' = EndOf(c)
    BY <1>2, ArgumentsStay
<1>6. StateOk'
    BY <1>1, <1>2, <1>4, <1>5 DEF StateOk
<1>7. Scanning' /\ Cursors' /\ NoHole'
    BY <1>2 DEF Scanning, Cursors, NoHole, Entered
<1>8. Runs' = Runs
    BY <1>2, <1>5 DEF Runs, EndOf
<1>9. InOrder'
  <2>1. \A i \in DOMAIN results' : EndOf(results[i])' = EndOf(results[i])
      BY <1>2, <1>5 DEF EndOf
  <2>2. \A i, j \in DOMAIN results : i < j => EndOf(results[i]) < results[j][1]
      BY <1>1 DEF InOrder
  <2>3. op' = "fit" => Len(results') <= count'
      BY <1>1, <1>2 DEF InOrder
  <2>4. prefix' # NULL => \A i \in DOMAIN results' : results'[i][2] = prefix'
      BY <1>1, <1>2 DEF InOrder
  <2> QED
      BY <2>1, <2>2, <2>3, <2>4, <1>2 DEF InOrder
<1>10. op = "fit" /\ Len(results) = count
  <2>1. op = "fit"
      BY <1>1, <1>2 DEF Cursors, ArgumentsOk
  <2>2. Len(results) \in Nat /\ count \in Nat
      BY <1>1, ResultTyped DEF ArgumentsOk
  <2> QED
      BY <2>1, <2>2, <1>1 DEF InOrder
<1>11. ASSUME NEW t \in Targets, t \notin Runs, NEW u \in Runs PROVE u[1] < t[1]
  <2>1. Ahead(t[1], t[2])
      BY <1>1, <1>2, <1>11 DEF Progress
  <2>2. PICK i \in DOMAIN gaps : InGap(i, t[1], t[2]) /\ (i = 1 => Cursor <= t[1])
      BY <2>1, <1>2 DEF Ahead, Entered
  <2>3. PICK k \in DOMAIN results : u = <<results[k][1], EndOf(results[k])>>
      BY DEF Runs
  <2>4. u[1] = results[k][1] /\ u[1] \in Nat /\ EndOf(results[k]) \in Nat
        /\ u[1] <= EndOf(results[k])
      BY <2>3, <1>1, ResultTyped
  <2>5. t[1] \in Nat
      BY <1>1, TargetFacts
  <2>6. CASE i = 1
    <3>1. EndOf(results[k]) < Cursor /\ Cursor \in Nat
        BY <1>1, <1>2 DEF InOrder, Entered, Cursor, StateOk
    <3> QED
        BY <3>1, <2>2, <2>4, <2>5, <2>6
  <2>7. CASE i # 1
    <3>1. EndOf(results[k]) < gaps[i][1]
        BY <2>7, <1>1, <1>2 DEF InOrder
    <3>2. gaps[i][1] <= t[1] /\ gaps[i][1] \in Nat
        BY <2>2, <1>3, GapTyped DEF InGap
    <3> QED
        BY <3>1, <3>2, <2>4, <2>5
  <2> QED
      BY <2>6, <2>7
<1>12. Progress'
  <2>1. Runs \subseteq Targets
      BY <1>1 DEF Progress
  <2> QED
      BY <2>1, <1>2, <1>5, <1>8, <1>10, <1>11 DEF Progress
<1> QED
    BY <1>4, <1>6, <1>7, <1>9, <1>12

\* The next gap, or enough.
LEMMA NextGapStep ==
    IInv /\ InWord /\ NextGap =>
        (StateOk /\ GapsOk /\ Scanning /\ InOrder /\ Progress /\ Cursors /\ NoHole)'
<1> SUFFICES ASSUME IInv, InWord, NextGap
             PROVE  (StateOk /\ GapsOk /\ Scanning /\ InOrder /\ Progress /\ Cursors /\ NoHole)'
    OBVIOUS
<1>1. CASE Len(results) >= count
    BY <1>1, EnoughStep
<1>2. CASE ~ (Len(results) >= count)
  <2>1. /\ pc = "fit" /\ ~ Wanted /\ gaps' = Tail(gaps) /\ pc' = "gap"
        /\ UNCHANGED <<arguments, scanned, addr, sub, results>>
      BY <1>2 DEF NextGap
  <2>2. ArgumentsOk /\ StateOk /\ GapsOk /\ Cursors
      BY DEF IInv
  <2>3. Len(results) < count
    <3>1. Len(results) \in Nat /\ count \in Nat
        BY <2>2, ResultTyped DEF ArgumentsOk
    <3> QED
        BY <3>1, <1>2
  <2>4. /\ op = "fit" /\ prefix # NULL /\ addr \in Nat
        /\ Size \in Nat \ {0} /\ ~ (addr + Size - 1 <= gaps[1][2])
      BY <2>1, <2>3, FitHere DEF Wanted
  <2>5. Entered /\ Cursor = addr /\ gaps # <<>>
      BY <2>1, <2>2 DEF Entered, Cursor, Cursors
  <2>6. \A t \in Targets : InGap(1, t[1], t[2]) => ~ (Cursor <= t[1])
    <3> SUFFICES ASSUME NEW t \in Targets, InGap(1, t[1], t[2]), Cursor <= t[1] PROVE FALSE
        OBVIOUS
    <3>1. t[1] \in Nat /\ t = <<t[1], t[1] + Size - 1>>
        BY <2>2, <2>4, SizedTarget
    <3>2. t[2] = t[1] + Size - 1
        BY <3>1
    <3>3. t[2] <= gaps[1][2] /\ gaps[1][2] \in Nat
        BY <2>2, <2>5, FirstGap DEF InGap
    <3> QED
        BY <3>1, <3>2, <3>3, <2>4, <2>5
  <2> QED
      BY <2>1, <2>5, <2>6, PopStep
<1> QED
    BY <1>1, <1>2

-----------------------------------------------------------------------------
(* free_blocks.                                                            *)

\* The greatest power of two that an address is aligned to.
LEMMA TrailingZeros ==
    ASSUME NEW n \in Nat, 0 < n, n <= MAX
    PROVE  /\ trailing_zeros(n) \in 0 .. Word - 1
           /\ n % Pow2[trailing_zeros(n)] = 0
           /\ \A k \in 0 .. Word : n % Pow2[k] = 0 => k <= trailing_zeros(n)
<1>1. Word \in Nat \ {0} /\ Pow2[Word] \in Nat \ {0}
    BY WordNat, Pow2Values
<1>2. n % Pow2[Word] # 0
  <2>1. PICK s \in Nat \ {0} : s = Pow2[Word]
      BY <1>1
  <2>2. n \in 0 .. s - 1
      BY <1>1, <2>1 DEF MAX
  <2>3. n % s = n
      BY <2>2
  <2> QED
      BY <2>1, <2>3
<1> DEFINE S == {k \in 0 .. Word : n % Pow2[k] = 0}
<1>3. S \in SUBSET Nat /\ \A k \in S : k <= Word
    BY <1>1
<1>4. 0 \in S
  <2>1. Pow2[0] = 1
      BY Pow2Values
  <2>2. n % 1 = 0
      OBVIOUS
  <2> QED
      BY <1>1, <2>1, <2>2
<1>5. PICK m \in S : \A k \in S : k <= m
  <2> HIDE DEF S
  <2> QED
      BY <1>1, <1>3, <1>4, GreatestMember
<1>6. m \in 0 .. Word - 1
  <2>1. m \in 0 .. Word /\ m # Word
      BY <1>2, <1>5
  <2> QED
      BY <1>1, <2>1
<1>7. m \in 0 .. Word /\ n % Pow2[m] = 0 /\ n % Pow2[m + 1] # 0
  <2>1. m + 1 \in 0 .. Word /\ ~ (m + 1 <= m)
      BY <1>1, <1>6
  <2>2. m + 1 \notin S
      BY <1>5, <2>1
  <2> QED
      BY <1>5, <2>1, <2>2
<1>8. PICK z : z = trailing_zeros(n)
    OBVIOUS
<1>9. z \in 0 .. Word /\ n % Pow2[z] = 0 /\ n % Pow2[z + 1] # 0
  <2>1. \E k \in 0 .. Word : n % Pow2[k] = 0 /\ n % Pow2[k + 1] # 0
      BY <1>7
  <2> QED
      BY <2>1, <1>8 DEF trailing_zeros
<1>10. \A k \in 0 .. Word : n % Pow2[k] = 0 => k <= z
  <2> SUFFICES ASSUME NEW k \in 0 .. Word, n % Pow2[k] = 0, z < k PROVE FALSE
      BY <1>1, <1>9
  <2>1. z + 1 <= k /\ z + 1 \in Nat /\ k \in Nat
      BY <1>9
  <2>2. n % Pow2[z + 1] = 0
      BY <2>1, Aligned
  <2> QED
      BY <2>2, <1>9
<1>11. z # Word
    BY <1>2, <1>9
<1> QED
    BY <1>1, <1>8, <1>9, <1>10, <1>11

\* best_prefix: the greatest aligned CIDR at the cursor that the gap holds.
LEMMA BestPrefix ==
    ASSUME addr \in Nat, gaps[1][2] \in Nat, addr <= gaps[1][2], gaps[1][2] <= MAX,
           addr > 0 \/ block.v4
    PROVE  /\ best_prefix \in 0 .. bits /\ bits - best_prefix \in 0 .. Word - 1
           /\ size_of(best_prefix) = Pow2[bits - best_prefix]
           /\ addr % Pow2[bits - best_prefix] = 0
           /\ addr + Pow2[bits - best_prefix] - 1 <= gaps[1][2]
           /\ \A k \in 0 .. bits :
                 addr % Pow2[k] = 0 /\ addr + Pow2[k] - 1 <= gaps[1][2]
                 => k <= bits - best_prefix
<1>1. bits \in Nat \ {0} /\ bits <= Word /\ Word \in Nat \ {0} /\ (block.v4 => bits < Word)
    BY BitsOf, WordNat
<1>2. MAX \in Nat
    BY <1>1, Pow2Values DEF MAX
<1> DEFINE mp == IF addr = 0 \/ trailing_zeros(addr) > bits THEN bits ELSE trailing_zeros(addr)
           fits == {p \in bits - mp .. bits : EndsBy(addr, p, gaps[1][2])}
<1>3. best_prefix = IF fits = {} THEN bits ELSE CHOOSE p \in fits : \A q \in fits : p <= q
    BY DEF best_prefix
<1>4. /\ mp \in 0 .. bits /\ mp <= Word - 1 /\ addr % Pow2[mp] = 0
      /\ \A k \in 0 .. bits : addr % Pow2[k] = 0 => k <= mp
  <2>1. CASE addr = 0
    <3>1. mp = bits /\ block.v4
        BY <2>1
    <3>2. Pow2[bits] \in Nat \ {0}
        BY <1>1, Pow2Values
    <3>3. 0 % Pow2[bits] = 0
        BY <3>2
    <3> QED
        BY <2>1, <3>1, <3>3, <1>1
  <2>2. CASE addr # 0
    <3>1. 0 < addr /\ addr <= MAX
        BY <2>2, <1>2
    <3>2. PICK z : z = trailing_zeros(addr)
        OBVIOUS
    <3>3. /\ z \in 0 .. Word - 1 /\ addr % Pow2[z] = 0
          /\ \A k \in 0 .. Word : addr % Pow2[k] = 0 => k <= z
        BY <3>1, <3>2, TrailingZeros
    <3>4. CASE z > bits
      <4>1. mp = bits
          BY <3>2, <3>4
      <4>2. bits <= z /\ bits \in Nat /\ z \in Nat /\ bits <= Word - 1
          BY <3>3, <3>4, <1>1
      <4>3. addr % Pow2[bits] = 0
          BY <4>2, <3>3, Aligned
      <4> QED
          BY <4>1, <4>2, <4>3, <1>1
    <3>5. CASE ~ (z > bits)
      <4>1. mp = z
          BY <3>2, <3>5, <2>2
      <4>2. z \in 0 .. bits /\ z <= Word - 1
          BY <3>3, <3>5, <1>1
      <4>3. \A k \in 0 .. bits : k \in 0 .. Word
          BY <1>1
      <4>4. \A k \in 0 .. bits : addr % Pow2[k] = 0 => k <= z
          BY <4>3, <3>3
      <4> HIDE DEF mp
      <4> QED
          BY <4>1, <4>2, <4>4, <3>3
    <3> QED
        BY <3>4, <3>5
  <2> QED
      BY <2>1, <2>2
<1> HIDE DEF mp
<1>5. ASSUME NEW p \in bits - mp .. bits
      PROVE  /\ p \in 0 .. bits /\ bits - p \in 0 .. Word - 1
             /\ size_of(p) = Pow2[bits - p] /\ addr % Pow2[bits - p] = 0
             /\ EndsBy(addr, p, gaps[1][2]) <=> addr + Pow2[bits - p] - 1 <= gaps[1][2]
  <2>1. p \in 0 .. bits /\ bits - p \in 0 .. Word - 1 /\ bits - p \in Nat
        /\ bits - p <= mp /\ mp \in Nat
      BY <1>1, <1>4
  <2>2. size_of(p) = Pow2[bits - p]
      BY <2>1, SizeOf
  <2>3. addr % Pow2[bits - p] = 0
      BY <2>1, <1>4, Aligned
  <2>4. addr \in 0 .. MAX /\ bits - p \in 0 .. Word
      BY <2>1, <1>1, <1>2
  <2>5. wrap(addr + Pow2[bits - p] - 1) = addr + Pow2[bits - p] - 1
      BY <2>3, <2>4, NoWrap
  <2> QED
      BY <2>1, <2>2, <2>3, <2>5 DEF EndsBy
<1>6. bits \in fits
  <2>1. bits \in bits - mp .. bits
      BY <1>1, <1>4
  <2>2. bits - bits = 0 /\ Pow2[0] = 1 /\ addr + 1 - 1 = addr
      BY <1>1, Pow2Values
  <2>3. EndsBy(addr, bits, gaps[1][2])
      BY <1>5, <2>1, <2>2
  <2> QED
      BY <2>1, <2>3
<1>7. fits \in SUBSET Nat
    BY <1>1, <1>4
<1>8. \E p \in fits : \A q \in fits : p <= q
  <2> HIDE DEF fits
  <2> QED
      BY <1>6, <1>7, LeastMember
<1>9. PICK b : b = best_prefix
    OBVIOUS
<1>10. b \in fits /\ \A q \in fits : b <= q
  <2> HIDE DEF fits
  <2> QED
      BY <1>3, <1>6, <1>8, <1>9
<1>11. b \in bits - mp .. bits /\ EndsBy(addr, b, gaps[1][2])
    BY <1>10
<1>12. ASSUME NEW k \in 0 .. bits, addr % Pow2[k] = 0, addr + Pow2[k] - 1 <= gaps[1][2]
       PROVE  k <= bits - b
  <2>1. k <= mp /\ k \in Nat
      BY <1>4, <1>12
  <2>2. bits - k \in bits - mp .. bits /\ bits - (bits - k) = k
      BY <1>1, <1>4, <2>1
  <2>3. bits - k \in fits
      BY <1>5, <1>12, <2>2
  <2>4. b <= bits - k /\ b \in 0 .. bits
      BY <1>5, <1>10, <1>11, <2>3
  <2> QED
      BY <1>1, <2>1, <2>4
<1> QED
    BY <1>5, <1>9, <1>11, <1>12

\* Where the report stands in a gap, and the CIDR it takes there.
LEMMA CoverHere ==
    ASSUME IInv, InWord, pc \in {"cover", "split"}, addr <= gaps[1][2]
    PROVE  /\ op = "report" /\ addr \in Nat /\ gaps[1][2] \in Nat
           /\ best_prefix \in 0 .. bits /\ bits - best_prefix \in 0 .. Word - 1
           /\ size_of(best_prefix) = Pow2[bits - best_prefix]
           /\ addr % Pow2[bits - best_prefix] = 0
           /\ addr + Pow2[bits - best_prefix] - 1 <= gaps[1][2]
           /\ \A k \in 0 .. bits :
                 addr % Pow2[k] = 0 /\ addr + Pow2[k] - 1 <= gaps[1][2]
                 => k <= bits - best_prefix
           /\ gaps[1][2] <= block.end /\ block.end < MAX
           /\ Pow2[bits - best_prefix] \in Nat \ {0}
           /\ wrap(addr + size_of(best_prefix)) = addr + Pow2[bits - best_prefix]
<1>1. ArgumentsOk /\ StateOk /\ GapsOk /\ Cursors
    BY DEF IInv
<1>2. op = "report" /\ gaps # <<>> /\ gaps[1][1] <= addr
    BY <1>1 DEF Cursors, ArgumentsOk, Entered
<1>3. /\ gaps[1][1] \in Nat /\ gaps[1][2] \in Nat
      /\ block.start <= gaps[1][1] /\ gaps[1][2] <= block.end
    BY <1>1, <1>2, FirstGap
<1>4. addr \in Nat
    BY <1>1 DEF StateOk
<1>5. block.start \in Nat /\ block.end \in Nat /\ MAX \in Nat /\ block.end < MAX
      /\ (block.v4 \/ block.start > 0)
    BY <1>1, <1>2, BlockFacts DEF InWord
<1>6. gaps[1][2] <= MAX /\ (addr > 0 \/ block.v4)
    BY <1>2, <1>3, <1>4, <1>5
<1>7. /\ best_prefix \in 0 .. bits /\ bits - best_prefix \in 0 .. Word - 1
      /\ size_of(best_prefix) = Pow2[bits - best_prefix]
      /\ addr % Pow2[bits - best_prefix] = 0
      /\ addr + Pow2[bits - best_prefix] - 1 <= gaps[1][2]
      /\ \A k \in 0 .. bits :
            addr % Pow2[k] = 0 /\ addr + Pow2[k] - 1 <= gaps[1][2]
            => k <= bits - best_prefix
    BY <1>3, <1>4, <1>6, BestPrefix
<1>8. Pow2[bits - best_prefix] \in Nat \ {0}
    BY <1>7, Pow2Values
<1>9. wrap(addr + size_of(best_prefix)) = addr + Pow2[bits - best_prefix]
  <2>1. addr + Pow2[bits - best_prefix] \in 0 .. MAX
      BY <1>3, <1>4, <1>5, <1>7, <1>8
  <2> QED
      BY <2>1, <1>7, WrapSmall
<1> QED
    BY <1>2, <1>3, <1>4, <1>5, <1>7, <1>8, <1>9

\* Two free CIDRs that share an address nest.
LEMMA FreeNest ==
    ASSUME ArgumentsOk, NEW c \in Free, NEW d \in Free, NEW x \in Nat,
           c.start <= x, x <= c.end, d.start <= x, x <= d.end
    PROVE  range_contains(c, d) \/ range_contains(d, c)
<1>1. PICK k \in 0 .. bits : IsCidr(c, k)
    BY FreeIs
<1>2. PICK m \in 0 .. bits : IsCidr(d, m)
    BY FreeIs
<1>3. c.start \in Nat /\ c.end \in Nat /\ d.start \in Nat /\ d.end \in Nat
    BY FreeIs
<1>4. k \in Nat /\ m \in Nat
    OBVIOUS
<1>5. /\ c.start % Pow2[k] = 0 /\ c.end = c.start + Pow2[k] - 1
      /\ d.start % Pow2[m] = 0 /\ d.end = d.start + Pow2[m] - 1
    BY <1>1, <1>2 DEF IsCidr
<1>6. c.start <= d.end /\ d.start <= c.end
    BY <1>3
<1>7. CASE k <= m
  <2>1. d.start <= c.start /\ c.end <= d.end
      BY <1>3, <1>4, <1>5, <1>6, <1>7, CidrsNest
  <2> QED
      BY <2>1 DEF range_contains
<1>8. CASE m <= k
  <2>1. c.start <= d.start /\ d.end <= c.end
      BY <1>3, <1>4, <1>5, <1>6, <1>8, CidrsNest
  <2> QED
      BY <2>1 DEF range_contains
<1> QED
    BY <1>4, <1>7, <1>8

\* A clear interval that shares an address with a gap lies in it.
LEMMA InFirstGap ==
    ASSUME ArgumentsOk, StateOk, GapsOk, gaps # <<>>,
           NEW a \in Nat, NEW e \in Nat, NEW x \in Nat, Clear(a, e),
           block.start <= a, e <= block.end, a <= x, x <= e,
           gaps[1][1] <= x, x <= gaps[1][2]
    PROVE  gaps[1][1] <= a /\ e <= gaps[1][2]
<1>1. /\ gaps[1][1] \in Nat /\ gaps[1][2] \in Nat
      /\ gaps[1][1] = block.start \/ \E r \in occupied : r.end = gaps[1][1] - 1
      /\ gaps[1][2] = block.end \/ \E r \in occupied : r.start = gaps[1][2] + 1
    BY FirstGap
<1>2. \A r \in occupied : r.start \in Nat /\ r.end \in Nat /\ r.start <= r.end
    BY OccupiedFacts
<1>3. \A r \in occupied : r.end < a \/ e < r.start
    BY DEF Clear
<1>4. block.start \in Nat /\ block.end \in Nat
    BY BlockFacts
<1>5. gaps[1][1] <= a
  <2> SUFFICES ASSUME a < gaps[1][1] PROVE FALSE
      BY <1>1
  <2>1. PICK r \in occupied : r.end = gaps[1][1] - 1
      BY <1>1, <1>4
  <2>2. r.start \in Nat /\ r.end \in Nat /\ r.start <= r.end /\ (r.end < a \/ e < r.start)
      BY <1>2, <1>3
  <2> QED
      BY <2>1, <2>2, <1>1
<1>6. e <= gaps[1][2]
  <2> SUFFICES ASSUME gaps[1][2] < e PROVE FALSE
      BY <1>1
  <2>1. PICK r \in occupied : r.start = gaps[1][2] + 1
      BY <1>1, <1>4
  <2>2. r.start \in Nat /\ r.end \in Nat /\ r.start <= r.end /\ (r.end < a \/ e < r.start)
      BY <1>2, <1>3
  <2> QED
      BY <2>1, <2>2, <1>1
<1> QED
    BY <1>5, <1>6

\* The CIDR that the report takes at its cursor.
Best == [start |-> addr, end |-> addr + Pow2[bits - best_prefix] - 1, v4 |-> block.v4]

\* It is free.
LEMMA BestFree ==
    ASSUME IInv, InWord, pc \in {"cover", "split"}, addr <= gaps[1][2]
    PROVE  Best \in Free /\ gaps[1][1] <= addr /\ gaps # <<>>
<1>1. ArgumentsOk /\ StateOk /\ GapsOk /\ Cursors
    BY DEF IInv
<1>2. gaps # <<>> /\ gaps[1][1] <= addr
    BY <1>1 DEF Cursors, Entered
<1>3. /\ gaps[1][1] \in Nat /\ gaps[1][2] \in Nat
      /\ block.start <= gaps[1][1] /\ gaps[1][2] <= block.end
      /\ Clear(gaps[1][1], gaps[1][2])
    BY <1>1, <1>2, FirstGap
<1>4. block.start \in Nat /\ block.end \in Nat
    BY <1>1, BlockFacts
<1>5. PICK s \in Nat \ {0} : s = Pow2[bits - best_prefix]
    BY CoverHere
<1>6. addr \in Nat /\ addr + s - 1 <= gaps[1][2] /\ addr % s = 0
    BY <1>5, CoverHere
<1>7. /\ Best.start = addr /\ Best.end = addr + s - 1
      /\ Best \in [start : Nat, end : Nat, v4 : {block.v4}]
    BY <1>5, <1>6 DEF Best
<1>8. bits - best_prefix \in 0 .. bits
    BY CoverHere, BitsOf
<1>9. IsCidr(Best, bits - best_prefix)
    BY <1>5, <1>6, <1>7 DEF IsCidr
<1>10. Clear(addr, addr + s - 1)
    BY <1>1, <1>2, <1>3, <1>6, ClearInside
<1>11. block.start <= addr /\ addr + s - 1 <= block.end
    BY <1>2, <1>3, <1>4, <1>6
<1> QED
    BY <1>1, <1>2, <1>7, <1>8, <1>9, <1>10, <1>11, FreeIs

\* In a report of everything it is maximal: a greater free CIDR would reach
\* below the cursor, where the maximal ones are listed already.
LEMMA BestMaximal ==
    ASSUME IInv, InWord, pc = "cover", addr <= gaps[1][2], prefix = NULL
    PROVE  Best \in Largest
<1>1. ArgumentsOk /\ StateOk /\ GapsOk /\ Cursors /\ InOrder /\ Progress /\ NoHole
    BY DEF IInv
<1>2. Best \in Free /\ gaps # <<>> /\ gaps[1][1] <= addr
    BY BestFree
<1>3. /\ gaps[1][1] \in Nat /\ gaps[1][2] \in Nat
    BY <1>1, <1>2, FirstGap
<1>4. PICK s \in Nat \ {0} : s = Pow2[bits - best_prefix]
    BY CoverHere
<1>5. /\ addr \in Nat /\ addr + s - 1 <= gaps[1][2] /\ addr % s = 0
      /\ best_prefix \in 0 .. bits
      /\ \A k \in 0 .. bits :
            addr % Pow2[k] = 0 /\ addr + Pow2[k] - 1 <= gaps[1][2] => k <= bits - best_prefix
    BY <1>4, CoverHere
<1>6. Best.start = addr /\ Best.end = addr + s - 1 /\ Best.v4 = block.v4
      /\ Best = [start |-> addr, end |-> addr + s - 1, v4 |-> block.v4]
    BY <1>4 DEF Best
<1>7. ASSUME NEW d \in Free, range_contains(d, Best) PROVE d = Best
  <2>1. d.start <= addr /\ addr + s - 1 <= d.end
      BY <1>6, <1>7 DEF range_contains
  <2>2. /\ d \in [start : Nat, end : Nat, v4 : {block.v4}]
        /\ block.start <= d.start /\ d.end <= block.end /\ Clear(d.start, d.end)
      BY <1>1, FreeIs
  <2>3. PICK m \in 0 .. bits : d.start % Pow2[m] = 0 /\ d.end = d.start + Pow2[m] - 1
      BY <1>1, FreeIs DEF IsCidr
  <2>4. PICK z \in Nat \ {0} : z = Pow2[m]
      BY BitsOf, Pow2Values
  <2>5. d.start \in Nat /\ d.end \in Nat /\ addr <= d.end
      BY <2>1, <2>2, <1>4, <1>5
  <2>6. gaps[1][1] <= d.start /\ d.end <= gaps[1][2]
    <3>1. addr <= gaps[1][2]
        OBVIOUS
    <3> QED
        BY <3>1, <2>1, <2>2, <2>5, <1>1, <1>2, <1>5, InFirstGap
  <2>7. d.start = addr
    <3> SUFFICES ASSUME d.start < addr PROVE FALSE
        BY <2>1, <2>5, <1>5
    <3>1. d.start \in gaps[1][1] .. addr - 1
        BY <2>5, <2>6, <1>3, <1>5
    <3>2. PICK i \in DOMAIN results :
              results[i][1] <= d.start /\ d.start <= EndOf(results[i])
        BY <3>1, <1>1 DEF NoHole
    <3>3. <<results[i][1], EndOf(results[i])>> \in Targets
        BY <1>1 DEF Progress, Runs
    <3>4. PICK c \in Largest : <<results[i][1], EndOf(results[i])>> = <<c.start, c.end>>
        BY <3>3 DEF Targets
    <3>5. c.start <= d.start /\ d.start <= c.end
        BY <3>2, <3>4
    <3>6. c \in Free /\ \A f \in Free : range_contains(f, c) => f = c
        BY DEF Largest
    <3>7. c.end < addr
      <4>1. EndOf(results[i]) < addr
          BY <1>1 DEF InOrder, Entered, Cursor
      <4> QED
          BY <3>4, <4>1
    <3>8. c.start \in Nat /\ c.end \in Nat
        BY <3>6, <1>1, FreeIs
    <3>9. d.start <= d.end
        BY <2>1, <2>5, <1>5
    <3>10. range_contains(c, d) \/ range_contains(d, c)
        BY <3>5, <3>6, <3>9, <2>5, <1>1, FreeNest
    <3>11. d.end <= c.end
        BY <3>6, <3>8, <3>10, <2>5 DEF range_contains
    <3> QED
        BY <3>7, <3>8, <3>11, <2>5, <1>5
  <2>8. m <= bits - best_prefix
      BY <2>3, <2>6, <2>7, <1>5
  <2>9. z <= s
    <3>1. m \in Nat /\ bits - best_prefix \in Nat
        BY <1>5, BitsOf
    <3> QED
        BY <3>1, <2>4, <2>8, <1>4, Pow2Grows
  <2>10. d.end = addr + s - 1
      BY <2>1, <2>3, <2>4, <2>5, <2>7, <2>9, <1>4, <1>5
  <2>11. d = [start |-> d.start, end |-> d.end, v4 |-> block.v4]
      BY <2>2
  <2> QED
      BY <2>7, <2>10, <2>11, <1>6
<1> QED
    BY <1>2, <1>7 DEF Largest

\* What a step of the report leaves alone, and where it has moved.
LEMMA EmitFacts ==
    ASSUME IInv, InWord, Emit
    PROVE  /\ pc = "cover" /\ pc' = "cover" /\ addr <= gaps[1][2]
           /\ prefix # NULL => best_prefix >= prefix
           /\ results' = results \o (IF prefix \in {NULL, best_prefix}
                                     THEN <<<<addr, best_prefix>>>> ELSE <<>>)
           /\ addr' = addr + Pow2[bits - best_prefix]
           /\ UNCHANGED <<arguments, scanned, gaps>> /\ sub' = sub
           /\ Entered /\ Entered' /\ Cursor = addr /\ Cursor' = addr'
           /\ addr' \in Nat /\ sub' \in Nat /\ addr' <= gaps[1][2] + 1
           /\ op = "report" /\ op' = "report"
<1>1. /\ pc = "cover" /\ addr <= gaps[1][2]
      /\ prefix # NULL => best_prefix >= prefix
      /\ results' = results \o (IF prefix \in {NULL, best_prefix}
                                THEN <<<<addr, best_prefix>>>> ELSE <<>>)
      /\ addr' = wrap(addr + size_of(best_prefix))
      /\ UNCHANGED <<arguments, scanned, gaps, sub, pc>>
    BY DEF Emit, Covering
<1>2. /\ op = "report" /\ addr \in Nat /\ gaps[1][2] \in Nat
      /\ Pow2[bits - best_prefix] \in Nat \ {0}
      /\ addr + Pow2[bits - best_prefix] - 1 <= gaps[1][2]
      /\ wrap(addr + size_of(best_prefix)) = addr + Pow2[bits - best_prefix]
    BY <1>1, CoverHere
<1>3. sub \in Nat
    BY DEF IInv, StateOk
<1>4. op' = op
    BY <1>1 DEF arguments
<1>5. Entered /\ Entered' /\ Cursor = addr /\ Cursor' = addr'
    BY <1>1 DEF Entered, Cursor
<1>6. PICK s \in Nat \ {0} : s = Pow2[bits - best_prefix]
    BY <1>2
<1>7. addr' = addr + s /\ addr + s - 1 <= gaps[1][2]
    BY <1>1, <1>2, <1>6
<1>8. addr' \in Nat /\ addr' <= gaps[1][2] + 1
    BY ONLY <1>2, <1>6, <1>7
<1>9. sub' = sub /\ sub' \in Nat
    BY <1>1, <1>3
<1> QED
    BY <1>1, <1>2, <1>4, <1>5, <1>6, <1>7, <1>8, <1>9

\* The cursors after it.
LEMMA EmitCursors == ASSUME IInv, InWord, Emit PROVE Cursors'
<1>1. /\ pc' = "cover" /\ op' = "report" /\ gaps' = gaps /\ addr' \in Nat
      /\ addr' <= gaps[1][2] + 1 /\ pc = "cover" /\ addr <= gaps[1][2]
      /\ addr' = addr + Pow2[bits - best_prefix]
    BY EmitFacts
<1>2. gaps # <<>> /\ gaps[1][1] <= addr
    BY <1>1, BestFree
<1>3. addr \in Nat /\ Pow2[bits - best_prefix] \in Nat \ {0}
    BY <1>1, CoverHere
<1>4. gaps[1][1] \in Nat
    BY <1>2, FirstGap DEF IInv
<1>5. gaps[1][1] <= addr'
    BY <1>1, <1>2, <1>3, <1>4
<1> QED
    BY <1>1, <1>2, <1>5 DEF Cursors, Entered

\* In a report of everything the CIDR is listed, and no other starts in it.
LEMMA EmitAllStep ==
    ASSUME IInv, InWord, Emit, prefix = NULL
    PROVE  (StateOk /\ GapsOk /\ Scanning /\ InOrder /\ Progress /\ NoHole)'
<1>1. /\ pc = "cover" /\ pc' = "cover" /\ addr <= gaps[1][2]
      /\ addr' = addr + Pow2[bits - best_prefix]
      /\ UNCHANGED <<arguments, scanned, gaps>> /\ sub' = sub
      /\ Entered /\ Entered' /\ Cursor = addr /\ Cursor' = addr'
      /\ addr' \in Nat /\ sub' \in Nat /\ op = "report"
    BY EmitFacts
<1>2. ArgumentsOk /\ StateOk /\ GapsOk /\ NoHole
    BY DEF IInv
<1>3. results' = Append(results, <<addr, best_prefix>>)
  <2>1. results' = results \o <<<<addr, best_prefix>>>>
      BY EmitFacts
  <2>2. results \in Seq(Nat \X (0 .. bits)) /\ addr \in Nat /\ best_prefix \in 0 .. bits
      BY <1>1, <1>2, CoverHere DEF StateOk
  <2> QED
      BY <2>1, <2>2
<1>4. PICK s \in Nat \ {0} : s = Pow2[bits - best_prefix]
    BY <1>1, CoverHere
<1>5. /\ addr \in Nat /\ addr + s - 1 <= gaps[1][2] /\ gaps[1][2] \in Nat
      /\ best_prefix \in 0 .. bits
    BY <1>1, <1>4, CoverHere
<1>6. Best.start = addr /\ Best.end = addr + s - 1
    BY <1>4 DEF Best
<1>7. Best \in Largest
    BY <1>1, BestMaximal
<1>8. <<addr, addr + s - 1>> \in Targets
    BY <1>6, <1>7 DEF Targets
<1>9. \A t \in Targets : InGap(1, t[1], t[2]) /\ Cursor <= t[1] =>
          Cursor' <= t[1] \/ t = <<addr, addr + s - 1>>
  <2> SUFFICES ASSUME NEW t \in Targets, addr <= t[1], t[1] < addr + s
               PROVE  t = <<addr, addr + s - 1>>
    <3>1. \A t \in Targets : t[1] \in Nat
        BY <1>2, TargetFacts
    <3> QED
        BY <3>1, <1>1, <1>4, <1>5
  <2>1. PICK c \in Largest : t = <<c.start, c.end>>
      BY DEF Targets
  <2>2. c \in Free /\ Best \in Free
      BY <1>7 DEF Largest
  <2>3. t[1] = c.start /\ t[1] \in Nat /\ c.start <= c.end
      BY <2>1, <1>2, TargetFacts
  <2>4. Best.start <= t[1] /\ t[1] <= Best.end
      BY <2>3, <1>4, <1>5, <1>6
  <2>5. range_contains(Best, c) \/ range_contains(c, Best)
      BY <2>2, <2>3, <2>4, <1>2, FreeNest
  <2>6. c = Best
      BY <2>2, <2>5, <1>7 DEF Largest
  <2> QED
      BY <2>1, <2>6, <1>6
<1>10. (StateOk /\ GapsOk /\ Scanning /\ InOrder /\ Progress)'
  <2>1. /\ Cursor <= addr
        /\ addr + Pow2[bits - best_prefix] - 1 < Cursor'
        /\ addr + Pow2[bits - best_prefix] - 1 <= gaps[1][2]
      BY <1>1, <1>4, <1>5
  <2>2. <<addr, addr + Pow2[bits - best_prefix] - 1>> \in Targets
      BY <1>4, <1>8
  <2>3. \A t \in Targets : InGap(1, t[1], t[2]) /\ Cursor <= t[1] =>
            Cursor' <= t[1] \/ t = <<addr, addr + Pow2[bits - best_prefix] - 1>>
      BY <1>4, <1>9
  <2>4. op = "fit" => Len(results) < count
      BY <1>1
  <2>5. pc' \in {"fit", "cover", "split"}
      BY <1>1
  <2> QED
      BY <2>1, <2>2, <2>3, <2>4, <2>5, <1>1, <1>3, <1>5, FindStep
<1>11. NoHole'
  <2> SUFFICES ASSUME NEW x \in gaps[1][1] .. addr' - 1
               PROVE  \E i \in DOMAIN results' :
                         results'[i][1] <= x /\ x <= (EndOf(results[i]))'
    <3>1. gaps' = gaps
        BY <1>1
    <3> QED
        BY <3>1 DEF NoHole
  <2>1. PICK n \in Nat : n = Len(results)
      BY <1>2, ResultTyped
  <2>2. /\ DOMAIN results = 1 .. n /\ DOMAIN results' = 1 .. n + 1
        /\ \A i \in 1 .. n : results'[i] = results[i]
        /\ results'[n + 1] = <<addr, best_prefix>>
    <3>1. results \in Seq(Nat \X (0 .. bits)) /\ <<addr, best_prefix>> \in Nat \X (0 .. bits)
        BY <1>2, <1>5 DEF StateOk
    <3> QED
        BY <2>1, <3>1, <1>3, Appended
  <2>3. bits' = bits /\ \A c : EndOf(c)' = EndOf(c)
      BY <1>1, ArgumentsStay
  <2>4. gaps[1][1] \in Nat
      BY <1>1, <1>2, BestFree, FirstGap
  <2>5. CASE x < addr
    <3>1. x \in gaps[1][1] .. addr - 1
        BY <2>4, <2>5, <1>5
    <3>2. PICK i \in DOMAIN results : results[i][1] <= x /\ x <= EndOf(results[i])
        BY <3>1, <1>1, <1>2 DEF NoHole
    <3>3. i \in DOMAIN results' /\ results'[i] = results[i]
        BY <2>2
    <3>4. EndOf(results[i])' = EndOf(results[i])
        BY <3>3, <2>3 DEF EndOf
    <3> QED
        BY <3>2, <3>3, <3>4
  <2>6. CASE addr <= x
    <3>1. PICK k \in DOMAIN results' : k = n + 1
        BY <2>2
    <3>2. results'[k] = <<addr, best_prefix>>
        BY <3>1, <2>2
    <3>3. EndOf(results[k])' = addr + s - 1
        BY <3>2, <2>3, <1>4 DEF EndOf
    <3>4. x <= addr + s - 1
        BY <2>4, <1>1, <1>4, <1>5
    <3>5. results'[k][1] = addr
        BY <3>2
    <3> QED
        BY <3>3, <3>4, <3>5, <2>6
  <2> QED
      BY <2>4, <2>5, <2>6, <1>5
<1> QED
    BY <1>10, <1>11

\* In a report of one prefix it is listed when it has that prefix, and holds no
\* block of that prefix when it is smaller.
LEMMA EmitSizedStep ==
    ASSUME IInv, InWord, Emit, prefix # NULL
    PROVE  (StateOk /\ GapsOk /\ Scanning /\ InOrder /\ Progress /\ NoHole)'
<1>1. /\ pc = "cover" /\ pc' = "cover" /\ addr <= gaps[1][2]
      /\ best_prefix >= prefix
      /\ addr' = addr + Pow2[bits - best_prefix]
      /\ UNCHANGED <<arguments, scanned, gaps>> /\ sub' = sub
      /\ Entered /\ Entered' /\ Cursor = addr /\ Cursor' = addr'
      /\ addr' \in Nat /\ sub' \in Nat /\ op = "report"
      /\ pc' \in {"fit", "cover", "split"}
    BY EmitFacts
<1>2. ArgumentsOk /\ StateOk /\ GapsOk
    BY DEF IInv
<1>3. NoHole'
  <2>1. prefix' # NULL
      BY <1>1 DEF arguments
  <2> QED
      BY <2>1 DEF NoHole
<1>4. /\ prefix \in 0 .. bits /\ bits - prefix \in Nat
      /\ Size \in Nat \ {0} /\ Size = Pow2[bits - prefix]
    BY <1>2, SizeFacts
<1>5. PICK s \in Nat \ {0} : s = Pow2[bits - best_prefix]
    BY <1>1, CoverHere
<1>6. /\ addr \in Nat /\ addr + s - 1 <= gaps[1][2] /\ gaps[1][2] \in Nat
      /\ addr % s = 0 /\ best_prefix \in 0 .. bits
      /\ \A k \in 0 .. bits :
            addr % Pow2[k] = 0 /\ addr + Pow2[k] - 1 <= gaps[1][2] => k <= bits - best_prefix
    BY <1>1, <1>5, CoverHere
<1>7. bits \in Nat
    BY BitsOf
<1>8. ASSUME NEW t \in Targets, InGap(1, t[1], t[2]), addr <= t[1]
      PROVE  /\ t[1] \in Nat /\ t = <<t[1], t[1] + Size - 1>>
             /\ t[1] = addr => best_prefix = prefix
             /\ t[1] # addr => addr + s <= t[1]
  <2>1. t[1] \in Nat /\ t[1] % Size = 0 /\ t = <<t[1], t[1] + Size - 1>>
      BY <1>2, SizedTarget
  <2>2. ASSUME t[1] = addr PROVE best_prefix = prefix
    <3>1. t[2] = addr + Size - 1
        BY <2>1, <2>2
    <3>2. addr % Pow2[bits - prefix] = 0 /\ addr + Pow2[bits - prefix] - 1 <= gaps[1][2]
        BY <2>1, <2>2, <3>1, <1>4, <1>8 DEF InGap
    <3>3. bits - prefix \in 0 .. bits
        BY <1>4, <1>7
    <3>4. bits - prefix <= bits - best_prefix
        BY <3>2, <3>3, <1>6
    <3> QED
        BY <3>4, <1>1, <1>4, <1>6, <1>7
  <2>3. ASSUME t[1] # addr PROVE addr + s <= t[1]
    <3>1. bits - best_prefix \in Nat /\ bits - best_prefix <= bits - prefix
        BY <1>1, <1>4, <1>6, <1>7
    <3>2. t[1] % Pow2[bits - best_prefix] = 0
        BY <2>1, <3>1, <1>4, Aligned
    <3>3. addr < t[1] /\ t[1] % s = 0
        BY <2>1, <2>3, <3>2, <1>5, <1>6, <1>8
    <3> QED
        BY <2>1, <3>3, <1>6, NextMultiple
  <2> QED
      BY <2>1, <2>2, <2>3
<1>9. CASE best_prefix = prefix
  <2>1. results' = Append(results, <<addr, prefix>>)
    <3>1. results' = results \o <<<<addr, prefix>>>>
        BY <1>9, EmitFacts
    <3>2. results \in Seq(Nat \X (0 .. bits))
        BY <1>2 DEF StateOk
    <3> QED
        BY <3>1, <3>2, <1>4, <1>6
  <2>2. s = Size
      BY <1>4, <1>5, <1>9
  <2>3. <<addr, addr + Size - 1>> \in Targets
    <3>1. Best \in Free
        BY <1>1, BestFree
    <3>2. Best.start = addr /\ Best.end = addr + Size - 1
        BY <2>2, <1>5 DEF Best
    <3>3. block.start <= addr /\ addr + Size - 1 <= block.end /\ Clear(addr, addr + Size - 1)
        BY <3>1, <3>2, <1>2, FreeIs
    <3> QED
        BY <3>3, <2>2, <1>2, <1>6, SizedTarget
  <2>4. /\ Cursor <= addr
        /\ addr + Pow2[bits - prefix] - 1 < Cursor'
        /\ addr + Pow2[bits - prefix] - 1 <= gaps[1][2]
      BY <2>2, <1>1, <1>4, <1>5, <1>6
  <2>5. <<addr, addr + Pow2[bits - prefix] - 1>> \in Targets
      BY <2>3, <1>4
  <2>6. \A t \in Targets : InGap(1, t[1], t[2]) /\ Cursor <= t[1] =>
            Cursor' <= t[1] \/ t = <<addr, addr + Pow2[bits - prefix] - 1>>
    <3> SUFFICES ASSUME NEW t \in Targets, InGap(1, t[1], t[2]), addr <= t[1]
                 PROVE  addr + s <= t[1] \/ t = <<addr, addr + Size - 1>>
        BY <1>1, <1>4, <1>5
    <3> QED
        BY <1>8
  <2>7. (op = "fit" => Len(results) < count) /\ (prefix # NULL => prefix = prefix)
      BY <1>1
  <2>8. (StateOk /\ GapsOk /\ Scanning /\ InOrder /\ Progress)'
      BY <2>1, <2>4, <2>5, <2>6, <2>7, <1>1, <1>4, <1>6, FindStep
  <2> QED
      BY <2>8, <1>3
<1>10. CASE best_prefix # prefix
  <2>1. results' = results
    <3>1. best_prefix \in 0 .. bits /\ prefix \notin {NULL, best_prefix}
        BY <1>6, <1>10
    <3>2. results' = results \o <<>>
        BY <3>1, EmitFacts
    <3>3. results \in Seq(Nat \X (0 .. bits))
        BY <1>2 DEF StateOk
    <3> QED
        BY <3>2, <3>3
  <2>2. \A t \in Targets : InGap(1, t[1], t[2]) /\ Cursor <= t[1] => Cursor' <= t[1]
    <3> SUFFICES ASSUME NEW t \in Targets, InGap(1, t[1], t[2]), addr <= t[1]
                 PROVE  addr + s <= t[1]
        BY <1>1, <1>5
    <3> QED
        BY <1>8, <1>10
  <2>3. Cursor <= Cursor'
      BY <1>1, <1>5, <1>6
  <2>4. UNCHANGED <<arguments, scanned, gaps, results>>
      BY <2>1, <1>1
  <2>5. (StateOk /\ GapsOk /\ Scanning /\ InOrder /\ Progress)'
      BY <2>2, <2>3, <2>4, <1>1, SkipStep
  <2> QED
      BY <2>5, <1>3
<1> QED
    BY <1>9, <1>10

\* A CIDR of the cover is passed, listed or not.
LEMMA EmitStep ==
    IInv /\ InWord /\ Emit =>
        (StateOk /\ GapsOk /\ Scanning /\ InOrder /\ Progress /\ Cursors /\ NoHole)'
<1> SUFFICES ASSUME IInv, InWord, Emit
             PROVE  (StateOk /\ GapsOk /\ Scanning /\ InOrder /\ Progress /\ Cursors /\ NoHole)'
    OBVIOUS
<1>1. Cursors'
    BY EmitCursors
<1>2. CASE prefix = NULL
    BY <1>1, <1>2, EmitAllStep
<1>3. CASE prefix # NULL
    BY <1>1, <1>3, EmitSizedStep
<1> QED
    BY <1>2, <1>3

\* A CIDR larger than what is asked for is split from its first address.
LEMMA StartSplitStep ==
    IInv /\ InWord /\ StartSplit =>
        (StateOk /\ GapsOk /\ Scanning /\ InOrder /\ Progress /\ Cursors /\ NoHole)'
<1> SUFFICES ASSUME IInv, InWord, StartSplit
             PROVE  (StateOk /\ GapsOk /\ Scanning /\ InOrder /\ Progress /\ Cursors /\ NoHole)'
    OBVIOUS
<1>1. /\ pc = "cover" /\ addr <= gaps[1][2] /\ prefix # NULL /\ best_prefix < prefix
      /\ sub' = addr /\ pc' = "split"
      /\ UNCHANGED <<arguments, scanned, gaps, addr, results>>
    BY DEF StartSplit, Covering
<1>2. ArgumentsOk /\ StateOk /\ GapsOk
    BY DEF IInv
<1>3. /\ prefix \in 0 .. bits /\ bits - prefix \in Nat
      /\ Size \in Nat \ {0} /\ Size = Pow2[bits - prefix]
    BY <1>1, <1>2, SizeFacts
<1>4. /\ op = "report" /\ addr \in Nat /\ best_prefix \in 0 .. bits
      /\ addr % Pow2[bits - best_prefix] = 0
      /\ Pow2[bits - best_prefix] \in Nat \ {0}
    BY <1>1, CoverHere
<1>5. Entered /\ Entered' /\ Cursor = addr /\ Cursor' = addr
    BY <1>1 DEF Entered, Cursor
<1>6. (StateOk /\ GapsOk /\ Scanning /\ InOrder /\ Progress)'
  <2>1. UNCHANGED <<arguments, scanned, gaps, results>> /\ addr' \in Nat /\ sub' \in Nat
        /\ pc' \in {"fit", "cover", "split"} /\ Cursor <= Cursor'
      BY <1>1, <1>4, <1>5
  <2>2. \A t \in Targets : InGap(1, t[1], t[2]) /\ Cursor <= t[1] => Cursor' <= t[1]
      BY <1>5
  <2> QED
      BY <2>1, <2>2, <1>5, SkipStep
<1>7. addr % Size = 0
  <2>1. bits - best_prefix \in Nat /\ bits - prefix <= bits - best_prefix
      BY <1>1, <1>3, <1>4, BitsOf
  <2> QED
      BY <2>1, <1>3, <1>4, Aligned
<1>8. Cursors'
  <2>1. op' = op /\ prefix' = prefix /\ block' = block /\ gaps' = gaps /\ addr' = addr
      BY <1>1 DEF arguments
  <2>2. bits' = bits /\ Size' = Size
      BY <1>1, ArgumentsStay
  <2>3. best_prefix' = best_prefix
      BY <2>1, <2>2 DEF best_prefix, EndsBy, size_of
  <2>4. SplitEnd' = SplitEnd
      BY <2>1, <2>2, <2>3 DEF SplitEnd, size_of
  <2>5. addr <= SplitEnd + 1
    <3>1. size_of(best_prefix) = Pow2[bits - best_prefix]
        BY <1>1, CoverHere
    <3> QED
        BY <3>1, <1>4 DEF SplitEnd
  <2>6. gaps # <<>> /\ gaps[1][1] <= addr
      BY <1>1, BestFree
  <2> QED
      BY <2>1, <2>2, <2>3, <2>4, <2>5, <2>6, <1>1, <1>4, <1>7 DEF Cursors
<1>9. NoHole'
    BY <1>1 DEF NoHole
<1> QED
    BY <1>6, <1>8, <1>9

\* Where the split stands.
LEMMA SplitHere ==
    ASSUME IInv, InWord, pc = "split"
    PROVE  /\ op = "report" /\ prefix # NULL /\ best_prefix < prefix /\ addr <= gaps[1][2]
           /\ addr \in Nat /\ sub \in Nat /\ addr <= sub /\ sub <= SplitEnd + 1
           /\ sub % Size = 0 /\ (SplitEnd + 1) % Size = 0
           /\ Size \in Nat \ {0} /\ Size = Pow2[bits - prefix] /\ prefix \in 0 .. bits
           /\ SplitEnd \in Nat /\ SplitEnd <= gaps[1][2] /\ gaps[1][2] \in Nat
           /\ gaps # <<>> /\ gaps[1][1] <= addr
           /\ gaps[1][2] <= block.end /\ block.end < MAX
           /\ size_of(prefix) = Size
           /\ EndsBy(sub, prefix, SplitEnd) <=> sub + Size - 1 <= SplitEnd
           /\ wrap(addr + size_of(best_prefix)) = SplitEnd + 1
<1>1. ArgumentsOk /\ StateOk /\ GapsOk /\ Cursors
    BY DEF IInv
<1>2. /\ prefix # NULL /\ best_prefix < prefix /\ addr <= gaps[1][2]
      /\ addr <= sub /\ sub <= SplitEnd + 1 /\ sub % Size = 0
    BY <1>1 DEF Cursors
<1>3. PICK s \in Nat \ {0} : s = Pow2[bits - best_prefix]
    BY <1>2, CoverHere
<1>4. /\ op = "report" /\ addr \in Nat /\ gaps[1][2] \in Nat
      /\ best_prefix \in 0 .. bits /\ bits - best_prefix \in 0 .. Word - 1
      /\ size_of(best_prefix) = s
      /\ addr % s = 0 /\ addr + s - 1 <= gaps[1][2]
      /\ gaps[1][2] <= block.end /\ block.end < MAX
      /\ wrap(addr + size_of(best_prefix)) = addr + s
    BY <1>2, <1>3, CoverHere
<1>5. /\ prefix \in 0 .. bits /\ bits - prefix \in Nat
      /\ Size \in Nat \ {0} /\ Size = Pow2[bits - prefix]
    BY <1>1, <1>2, SizeFacts
<1>6. bits - best_prefix \in Nat /\ bits - prefix <= bits - best_prefix
      /\ bits - prefix \in 0 .. Word - 1 /\ bits - prefix \in 0 .. Word
    BY <1>2, <1>4, <1>5, BitsOf, WordNat
<1>7. SplitEnd = addr + s - 1
    BY <1>3 DEF SplitEnd
<1>8. SplitEnd \in Nat /\ SplitEnd <= gaps[1][2] /\ SplitEnd + 1 = addr + s
    BY <1>3, <1>4, <1>7
<1>9. (SplitEnd + 1) % Size = 0
  <2>1. addr % Size = 0
      BY <1>3, <1>4, <1>5, <1>6, Aligned
  <2>2. s % Size = 0
      BY <1>3, <1>5, <1>6, Pow2Aligned
  <2>3. (addr + s) % Size = 0
      BY <2>1, <2>2, <1>4, <1>5, MultiplesSum
  <2> QED
      BY <2>3, <1>8
<1>10. size_of(prefix) = Size
    BY <1>5, <1>6, SizeOf
<1>11. sub \in Nat
    BY <1>1 DEF StateOk
<1>12. wrap(sub + Size - 1) = sub + Size - 1
  <2>1. sub \in 0 .. MAX
      BY <1>1, <1>2, <1>4, <1>8, <1>11, BlockFacts
  <2>2. sub % Pow2[bits - prefix] = 0
      BY <1>2, <1>5
  <2>3. wrap(sub + Pow2[bits - prefix] - 1) = sub + Pow2[bits - prefix] - 1
      BY <2>1, <2>2, <1>6, NoWrap
  <2> QED
      BY <2>3, <1>5
<1>13. EndsBy(sub, prefix, SplitEnd) <=> sub + Size - 1 <= SplitEnd
    BY <1>10, <1>12 DEF EndsBy
<1>14. wrap(addr + size_of(best_prefix)) = SplitEnd + 1
    BY <1>4, <1>8
<1>15. gaps # <<>> /\ gaps[1][1] <= addr
    BY <1>1 DEF Cursors, Entered
<1> QED
    BY <1>2, <1>4, <1>5, <1>8, <1>9, <1>10, <1>11, <1>13, <1>14, <1>15

\* A sub-block is listed.
LEMMA SubBlockStep ==
    ASSUME IInv, InWord, Split, EndsBy(sub, prefix, SplitEnd)
    PROVE  (StateOk /\ GapsOk /\ Scanning /\ InOrder /\ Progress /\ Cursors /\ NoHole)'
<1>1. /\ pc = "split" /\ pc' = "split"
      /\ results' = Append(results, <<sub, prefix>>)
      /\ sub' = wrap(sub + size_of(prefix)) /\ addr' = addr
      /\ UNCHANGED <<arguments, scanned, gaps>>
    BY DEF Split
<1>2. ArgumentsOk /\ StateOk /\ GapsOk
    BY DEF IInv
<1>3. /\ op = "report" /\ prefix # NULL /\ best_prefix < prefix /\ addr <= gaps[1][2]
      /\ addr \in Nat /\ sub \in Nat /\ addr <= sub /\ sub <= SplitEnd + 1
      /\ sub % Size = 0
      /\ Size \in Nat \ {0} /\ Size = Pow2[bits - prefix] /\ prefix \in 0 .. bits
      /\ SplitEnd \in Nat /\ SplitEnd <= gaps[1][2] /\ gaps[1][2] \in Nat
      /\ gaps # <<>> /\ gaps[1][1] <= addr
      /\ gaps[1][2] <= block.end /\ block.end < MAX
      /\ size_of(prefix) = Size
      /\ sub + Size - 1 <= SplitEnd
    BY <1>1, SplitHere
<1>4. /\ gaps[1][1] \in Nat /\ block.start <= gaps[1][1]
      /\ Clear(gaps[1][1], gaps[1][2])
      /\ block.start \in Nat /\ block.end \in Nat /\ MAX \in Nat
    BY <1>2, <1>3, FirstGap, BlockFacts
<1>4a. /\ sub \in Nat /\ Size \in Nat /\ 1 <= Size
       /\ SplitEnd \in Nat /\ gaps[1][2] \in Nat /\ block.end \in Nat /\ MAX \in Nat
       /\ gaps[1][1] \in Nat /\ addr \in Nat /\ block.start \in Nat
  <2>1. Size \in Nat \ {0}
      BY <1>3
  <2>2. Size \in Nat /\ 1 <= Size
      BY ONLY <2>1
  <2> QED
      BY <2>2, <1>3, <1>4
<1>4b. /\ sub + Size - 1 <= SplitEnd /\ SplitEnd <= gaps[1][2]
       /\ gaps[1][2] <= block.end /\ block.end < MAX
       /\ gaps[1][1] <= addr /\ addr <= sub /\ block.start <= gaps[1][1]
    BY <1>3, <1>4
<1>4c. /\ sub + Size \in 0 .. MAX /\ sub + Size - 1 \in Int
       /\ gaps[1][1] <= sub /\ sub + Size - 1 <= gaps[1][2]
       /\ block.start <= sub /\ sub + Size - 1 <= block.end
    BY ONLY <1>4a, <1>4b
<1>5. sub' = sub + Size
  <2>1. sub + Size \in 0 .. MAX
      BY <1>4c
  <2> QED
      BY <2>1, <1>1, <1>3, WrapSmall
<1>6. Entered /\ Entered' /\ Cursor = sub /\ Cursor' = sub'
    BY <1>1 DEF Entered, Cursor
<1>7. <<sub, sub + Size - 1>> \in Targets
  <2>1. sub + Size - 1 \in Int /\ gaps[1][1] <= sub /\ sub + Size - 1 <= gaps[1][2]
      BY <1>4c
  <2>2. Clear(sub, sub + Size - 1)
    <3>1. ArgumentsOk /\ Clear(gaps[1][1], gaps[1][2])
        BY <1>2, <1>4
    <3>2. gaps[1][1] \in Int /\ gaps[1][2] \in Int /\ sub \in Int
        BY <1>4a
    <3> QED
        BY <2>1, <3>1, <3>2, ClearInside
  <2>3. block.start <= sub /\ sub + Size - 1 <= block.end
      BY <1>4c
  <2> QED
      BY <2>2, <2>3, <1>2, <1>3, SizedTarget
<1>8. \A t \in Targets : InGap(1, t[1], t[2]) /\ Cursor <= t[1] =>
          Cursor' <= t[1] \/ t = <<sub, sub + Size - 1>>
  <2> TAKE t \in Targets
  <2> HAVE InGap(1, t[1], t[2]) /\ Cursor <= t[1]
  <2>1. t[1] \in Nat /\ t[1] % Size = 0 /\ t = <<t[1], t[1] + Size - 1>>
      BY <1>2, <1>3, SizedTarget
  <2>2. CASE t[1] = sub
      BY <2>1, <2>2
  <2>3. CASE t[1] # sub
    <3>1. sub < t[1]
        BY <2>1, <2>3, <1>3, <1>6
    <3>2. sub + Size <= t[1]
        BY <3>1, <2>1, <1>3, NextMultiple
    <3> QED
        BY <3>2, <1>5, <1>6
  <2> QED
      BY <2>2, <2>3
<1>9. (StateOk /\ GapsOk /\ Scanning /\ InOrder /\ Progress)'
  <2>1. pc' \in {"fit", "cover", "split"} /\ addr' \in Nat /\ sub' \in Nat
      BY <1>1, <1>3, <1>5
  <2>2. Cursor <= sub /\ sub + Pow2[bits - prefix] - 1 < Cursor'
        /\ sub + Pow2[bits - prefix] - 1 <= gaps[1][2]
      BY <1>3, <1>5, <1>6
  <2>3. <<sub, sub + Pow2[bits - prefix] - 1>> \in Targets
      BY <1>3, <1>7
  <2>4. \A t \in Targets : InGap(1, t[1], t[2]) /\ Cursor <= t[1] =>
            Cursor' <= t[1] \/ t = <<sub, sub + Pow2[bits - prefix] - 1>>
      BY <1>3, <1>8
  <2>5. (op = "fit" => Len(results) < count) /\ (prefix # NULL => prefix = prefix)
      BY <1>3
  <2> QED
      BY <2>1, <2>2, <2>3, <2>4, <2>5, <1>1, <1>3, <1>6, FindStep
<1>10. Cursors'
  <2>1. op' = op /\ prefix' = prefix /\ block' = block /\ gaps' = gaps /\ addr' = addr
      BY <1>1 DEF arguments
  <2>2. bits' = bits /\ Size' = Size
      BY <1>1, ArgumentsStay
  <2>3. best_prefix' = best_prefix
      BY <2>1, <2>2 DEF best_prefix, EndsBy, size_of
  <2>4. SplitEnd' = SplitEnd
      BY <2>1, <2>2, <2>3 DEF SplitEnd, size_of
  <2>5. sub' % Size = 0
    <3>1. Size % Size = 0
        BY <1>3
    <3> QED
        BY <3>1, <1>3, <1>5, MultiplesSum
  <2>6. addr <= sub' /\ sub' <= SplitEnd + 1
      BY <1>3, <1>5
  <2> QED
      BY <2>1, <2>2, <2>3, <2>4, <2>5, <2>6, <1>1, <1>3 DEF Cursors
<1>11. NoHole'
    BY <1>1 DEF NoHole
<1> QED
    BY <1>9, <1>10, <1>11

\* All sub-blocks are listed: the cover goes on behind the CIDR.
LEMMA EndSplitStep ==
    ASSUME IInv, InWord, Split, ~ EndsBy(sub, prefix, SplitEnd)
    PROVE  (StateOk /\ GapsOk /\ Scanning /\ InOrder /\ Progress /\ Cursors /\ NoHole)'
<1>1. /\ pc = "split" /\ pc' = "cover"
      /\ addr' = wrap(addr + size_of(best_prefix))
      /\ UNCHANGED <<arguments, scanned, gaps, results, sub>>
    BY DEF Split
<1>2. /\ op = "report" /\ prefix # NULL
      /\ addr \in Nat /\ sub \in Nat /\ addr <= sub /\ sub <= SplitEnd + 1
      /\ sub % Size = 0 /\ (SplitEnd + 1) % Size = 0
      /\ Size \in Nat \ {0}
      /\ SplitEnd \in Nat /\ SplitEnd <= gaps[1][2] /\ gaps[1][2] \in Nat
      /\ gaps # <<>> /\ gaps[1][1] <= addr
      /\ ~ (sub + Size - 1 <= SplitEnd) /\ addr' = SplitEnd + 1
    BY <1>1, SplitHere
<1>3. sub = SplitEnd + 1
  <2> SUFFICES ASSUME sub < SplitEnd + 1 PROVE FALSE
      BY <1>2
  <2>1. SplitEnd + 1 \in Nat
      BY <1>2
  <2>2. sub + Size <= SplitEnd + 1
      BY <2>1, <1>2, NextMultiple
  <2> QED
      BY <2>2, <1>2
<1>4. Entered /\ Entered' /\ Cursor = sub /\ Cursor' = sub
    BY <1>1, <1>2, <1>3 DEF Entered, Cursor
<1>5. (StateOk /\ GapsOk /\ Scanning /\ InOrder /\ Progress)'
  <2>1. UNCHANGED <<arguments, scanned, gaps, results>> /\ addr' \in Nat /\ sub' \in Nat
        /\ pc' \in {"fit", "cover", "split"} /\ Cursor <= Cursor'
      BY <1>1, <1>2, <1>4
  <2>2. \A t \in Targets : InGap(1, t[1], t[2]) /\ Cursor <= t[1] => Cursor' <= t[1]
      BY <1>4
  <2> QED
      BY <2>1, <2>2, <1>4, SkipStep
<1>6. Cursors'
  <2>1. op' = op /\ gaps' = gaps
      BY <1>1 DEF arguments
  <2>2. gaps[1][1] <= addr' /\ addr' <= gaps[1][2] + 1
    <3>1. gaps[1][1] \in Nat
        BY <1>2, FirstGap DEF IInv
    <3> QED
        BY <3>1, <1>2
  <2> QED
      BY <2>1, <2>2, <1>1, <1>2 DEF Cursors
<1>7. NoHole'
  <2>1. prefix' # NULL
      BY <1>1, <1>2 DEF arguments
  <2> QED
      BY <2>1 DEF NoHole
<1> QED
    BY <1>5, <1>6, <1>7

\* A step of the split.
LEMMA SplitStep ==
    IInv /\ InWord /\ Split =>
        (StateOk /\ GapsOk /\ Scanning /\ InOrder /\ Progress /\ Cursors /\ NoHole)'
<1>1. CASE EndsBy(sub, prefix, SplitEnd)
    BY <1>1, SubBlockStep
<1>2. CASE ~ EndsBy(sub, prefix, SplitEnd)
    BY <1>2, EndSplitStep
<1> QED
    BY <1>1, <1>2

\* A gap is covered.
LEMMA NextRangeStep ==
    IInv /\ InWord /\ NextRange =>
        (StateOk /\ GapsOk /\ Scanning /\ InOrder /\ Progress /\ Cursors /\ NoHole)'
<1> SUFFICES ASSUME IInv, InWord, NextRange
             PROVE  (StateOk /\ GapsOk /\ Scanning /\ InOrder /\ Progress /\ Cursors /\ NoHole)'
    OBVIOUS
<1>1. /\ pc = "cover" /\ addr > gaps[1][2] /\ gaps' = Tail(gaps) /\ pc' = "gap"
      /\ UNCHANGED <<arguments, scanned, addr, sub, results>>
    BY DEF NextRange
<1>2. ArgumentsOk /\ StateOk /\ GapsOk /\ Cursors
    BY DEF IInv
<1>3. Entered /\ Cursor = addr /\ addr \in Nat /\ gaps # <<>>
    BY <1>1, <1>2 DEF Entered, Cursor, Cursors, StateOk
<1>4. \A t \in Targets : InGap(1, t[1], t[2]) => ~ (Cursor <= t[1])
  <2> SUFFICES ASSUME NEW t \in Targets, InGap(1, t[1], t[2]), Cursor <= t[1] PROVE FALSE
      OBVIOUS
  <2>1. t[1] \in Nat /\ t[2] \in Nat /\ t[1] <= t[2]
      BY <1>2, TargetFacts
  <2>2. t[2] <= gaps[1][2] /\ gaps[1][2] \in Nat
      BY <1>2, <1>3, FirstGap DEF InGap
  <2> QED
      BY <2>1, <2>2, <1>1, <1>3
<1> QED
    BY <1>1, <1>3, <1>4, PopStep

-----------------------------------------------------------------------------
(* The inductive invariant.                                                *)

\* No step changes the arguments.
LEMMA StepKeeps ==
    ASSUME [Next]_vars
    PROVE  UNCHANGED arguments
<1>0. CASE Start
    BY <1>0 DEF Start
<1>1. CASE PassRange
    BY <1>1 DEF PassRange
<1>2. CASE LastGap
    BY <1>2 DEF LastGap
<1>3. CASE EnterGap
    BY <1>3 DEF EnterGap
<1>4. CASE Return
    BY <1>4 DEF Return
<1>5. CASE Take
    BY <1>5 DEF Take
<1>6. CASE NextGap
    BY <1>6 DEF NextGap
<1>7. CASE Emit
    BY <1>7 DEF Emit
<1>8. CASE StartSplit
    BY <1>8 DEF StartSplit
<1>9. CASE Split
    BY <1>9 DEF Split
<1>10. CASE NextRange
    BY <1>10 DEF NextRange
<1>11. CASE UNCHANGED vars
    BY <1>11 DEF vars
<1> QED
    BY <1>0, <1>1, <1>2, <1>3, <1>4, <1>5, <1>6, <1>7, <1>8, <1>9, <1>10, <1>11 DEF Next

\* A stuttering step keeps every part.
LEMMA StutterStep ==
    ASSUME IInv, InWord, UNCHANGED vars
    PROVE  (StateOk /\ GapsOk /\ Scanning /\ InOrder /\ Progress /\ Cursors /\ NoHole)'
<1>1. /\ UNCHANGED <<arguments, scanned, gaps, addr, sub, results, pc>>
      /\ op' = op /\ block' = block /\ occupied' = occupied /\ prefix' = prefix
      /\ count' = count /\ unpassed' = unpassed /\ from' = from
    BY DEF vars, arguments, scanned
<1>2. /\ bits' = bits /\ Size' = Size /\ Targets' = Targets
      /\ \A c : EndOf(c)' = EndOf(c)
      /\ \A a, e : Clear(a, e)' <=> Clear(a, e)
    BY <1>1, ArgumentsStay
<1>3. /\ StateOk /\ GapsOk /\ Scanning /\ InOrder /\ Progress /\ Cursors /\ NoHole
    BY DEF IInv
<1>4. best_prefix' = best_prefix
    BY <1>1, <1>2 DEF best_prefix, EndsBy, size_of
<1>5. SplitEnd' = SplitEnd
    BY <1>1, <1>2, <1>4 DEF SplitEnd, size_of
<1>6. (Entered' <=> Entered) /\ Cursor' = Cursor
    BY <1>1 DEF Entered, Cursor
<1>7. \A i, a, e : InGap(i, a, e)' <=> InGap(i, a, e)
    BY <1>1 DEF InGap
<1>8. \A a, e : Ahead(a, e)' <=> Ahead(a, e)
    BY <1>1, <1>6, <1>7 DEF Ahead
<1>9. Runs' = Runs
    BY <1>1, <1>2 DEF Runs, EndOf
<1>10. StateOk' /\ GapsOk'
  <2>1. StateOk'
      BY <1>1, <1>2, <1>3 DEF StateOk
  <2>2. GapsOk'
      BY <1>1, <1>2, <1>3 DEF GapsOk, Clear
  <2> QED
      BY <2>1, <2>2
<1>11. Scanning'
    BY <1>1, <1>2, <1>3, <1>7 DEF Scanning, Clear, InGap
<1>12. InOrder'
    BY <1>1, <1>2, <1>3, <1>6 DEF InOrder, EndOf
<1>13. Progress'
    BY <1>1, <1>2, <1>3, <1>6, <1>9 DEF Progress, Ahead, InGap
<1>14. Cursors'
    BY <1>1, <1>2, <1>3, <1>4, <1>5, <1>6 DEF Cursors
<1>15. NoHole'
    BY <1>1, <1>2, <1>3 DEF NoHole, EndOf
<1> QED
    BY <1>10, <1>11, <1>12, <1>13, <1>14, <1>15

\* Every step keeps the invariant.
LEMMA NextIInv == IInv /\ [Next]_vars => IInv'
<1> SUFFICES ASSUME IInv, [Next]_vars PROVE IInv'
    OBVIOUS
<1>1. (ArgumentsOk' <=> ArgumentsOk) /\ (InWord' <=> InWord)
    BY StepKeeps, ArgumentsStay
<1>2. InWord => ArgumentsOk
    BY DEF IInv
<1> DEFINE Kept ==
             (StateOk /\ GapsOk /\ Scanning /\ InOrder /\ Progress /\ Cursors /\ NoHole)'
<1>3. InWord => Kept
  <2> SUFFICES ASSUME InWord PROVE Kept
      OBVIOUS
  <2>0. CASE Start
      BY <2>0, StartStep
  <2>1. CASE PassRange
      BY <2>1, PassRangeStep
  <2>2. CASE LastGap
      BY <2>2, LastGapStep
  <2>3. CASE EnterGap
      BY <2>3, EnterGapStep
  <2>4. CASE Return
      BY <2>4, ReturnStep
  <2>5. CASE Take
      BY <2>5, TakeStep
  <2>6. CASE NextGap
      BY <2>6, NextGapStep
  <2>7. CASE Emit
      BY <2>7, EmitStep
  <2>8. CASE StartSplit
      BY <2>8, StartSplitStep
  <2>9. CASE Split
      BY <2>9, SplitStep
  <2>10. CASE NextRange
      BY <2>10, NextRangeStep
  <2>11. CASE UNCHANGED vars
      BY <2>11, StutterStep
  <2> QED
      BY <2>0, <2>1, <2>2, <2>3, <2>4, <2>5, <2>6, <2>7, <2>8, <2>9, <2>10, <2>11 DEF Next
<1>4. InWord' => Kept
    BY <1>1, <1>3
<1> QED
    BY <1>1, <1>2, <1>4 DEF IInv

\* In a call whose values stay in their types, what has been found and what is
\* still to come make up what the call should find.
THEOREM Invariant == Spec => []IInv
<1>1. Init => IInv
    BY InitIInv
<1>2. IInv /\ [Next]_vars => IInv'
    BY NextIInv
<1> QED
    BY <1>1, <1>2, PTL DEF Spec

-----------------------------------------------------------------------------
(* What the calls return.                                                  *)

\* The first address of a result is not after its last.
LEMMA ResultFacts ==
    ASSUME ArgumentsOk, StateOk, NEW i \in DOMAIN results
    PROVE  /\ results[i] \in Nat \X (0 .. bits)
           /\ results[i][1] \in Nat /\ EndOf(results[i]) \in Nat
           /\ results[i][1] <= EndOf(results[i])
<1>1. results[i] \in Nat \X (0 .. bits)
    BY DEF StateOk
<1>2. results[i][1] \in Nat /\ results[i][2] \in 0 .. bits
    BY <1>1
<1>3. bits \in Nat
    BY BitsOf, BlockFacts, WordNat DEF bits
<1>4. bits - results[i][2] \in Nat
    BY <1>2, <1>3
<1>5. PICK s \in Nat \ {0} : s = Pow2[bits - results[i][2]]
    BY <1>4, Pow2Values
<1>6. EndOf(results[i]) = results[i][1] + s - 1
    BY <1>5 DEF EndOf
<1> QED
    BY <1>1, <1>2, <1>5, <1>6

\* Results that do not overlap have different first addresses.
LEMMA ResultsAscend ==
    ASSUME ArgumentsOk, StateOk, InOrder
    PROVE  Ascending
<1> SUFFICES ASSUME NEW i \in DOMAIN results, NEW j \in DOMAIN results, i < j
             PROVE  results[i][1] < results[j][1]
    BY DEF Ascending
<1>1. /\ results[i][1] \in Nat /\ EndOf(results[i]) \in Nat
      /\ results[i][1] <= EndOf(results[i]) /\ results[j][1] \in Nat
    BY ResultFacts
<1>2. EndOf(results[i]) < results[j][1]
    BY DEF InOrder
<1> QED
    BY <1>1, <1>2

\* The set of results, as their indices give it.
LEMMA StartsAre ==
    Starts = {results[i][1] : i \in DOMAIN results}
BY DEF Starts, ToSet

\* There are as many first addresses as results.
LEMMA StartsCount ==
    ASSUME ArgumentsOk, StateOk, InOrder
    PROVE  IsFiniteSet(Starts) /\ Cardinality(Starts) = Len(results)
<1> DEFINE f == [i \in 1 .. Len(results) |-> results[i][1]]
<1>1. Len(results) \in Nat /\ DOMAIN results = 1 .. Len(results)
    BY DEF StateOk
<1>2. Starts = {results[i][1] : i \in 1 .. Len(results)}
    BY <1>1, StartsAre
<1>3. f \in [1 .. Len(results) -> Starts]
    BY <1>2
<1>4. \A i, j \in 1 .. Len(results) : f[i] = f[j] => i = j
  <2> SUFFICES ASSUME NEW i \in 1 .. Len(results), NEW j \in 1 .. Len(results), i # j
               PROVE  f[i] # f[j]
      OBVIOUS
  <2>1. results[i][1] \in Nat /\ results[j][1] \in Nat
      BY <1>1, ResultFacts
  <2>2. i < j \/ j < i
      BY <1>1
  <2>3. results[i][1] < results[j][1] \/ results[j][1] < results[i][1]
      BY <2>2, <1>1, ResultsAscend DEF Ascending
  <2> QED
      BY <2>1, <2>3
<1>5. \A t \in Starts : \E i \in 1 .. Len(results) : f[i] = t
    BY <1>2
<1>6. f \in Bijection(1 .. Len(results), Starts)
    BY <1>3, <1>4, <1>5 DEF Bijection, Injection, IsInjective, Surjection
<1>7. ExistsBijection(1 .. Len(results), Starts)
    BY <1>6 DEF ExistsBijection
<1>8. Cardinality(Starts) = Len(results)
    BY <1>1, <1>7, FS_CountingElements
<1>9. IsFiniteSet(Starts)
    BY <1>1, <1>7, FS_NatBijection
<1> QED
    BY <1>8, <1>9

\* A subset that lies before all the rest, and is all or of size n, is the n
\* smallest members.
LEMMA LowestIs ==
    ASSUME NEW F \in SUBSET Nat, NEW S \in SUBSET F, NEW n \in Nat, IsFiniteSet(S),
           Cardinality(S) <= n, \A a \in F \ S : Cardinality(S) = n,
           \A a \in F \ S : \A b \in S : b < a
    PROVE  Lowest(F, n) = S
<1> DEFINE Before(a) == {b \in F : b < a}
<1>1. Cardinality(S) \in Nat
    BY FS_CardinalityType
<1>2. ASSUME NEW a \in S PROVE Cardinality(Before(a)) < n
  <2>1. Before(a) \subseteq S \ {a}
    <3> SUFFICES ASSUME NEW b \in F, b < a PROVE b \in S \ {a}
        OBVIOUS
    <3>1. a \in Nat /\ b \in Nat
        OBVIOUS
    <3>2. b \notin S => a < b
      <4> SUFFICES ASSUME b \notin S PROVE a < b
          OBVIOUS
      <4>1. b \in F \ S
          OBVIOUS
      <4> QED
          BY <4>1
    <3> QED
        BY <3>1, <3>2
  <2>2. IsFiniteSet(S \ {a}) /\ Cardinality(S \ {a}) = Cardinality(S) - 1
      BY FS_RemoveElement
  <2>3. IsFiniteSet(Before(a)) /\ Cardinality(Before(a)) <= Cardinality(S \ {a})
      BY <2>1, <2>2, FS_Subset
  <2>4. Cardinality(Before(a)) \in Nat
      BY <2>3, FS_CardinalityType
  <2> HIDE DEF Before
  <2> QED
      BY <1>1, <2>2, <2>3, <2>4
<1>3. ASSUME NEW a \in F, a \notin S PROVE ~ (Cardinality(Before(a)) < n)
  <2>1. S \subseteq Before(a)
    <3>1. a \in F \ S
        BY <1>3
    <3>2. \A b \in S : b \in F /\ b < a
        BY <3>1
    <3> QED
        BY <3>2
  <2>2. Before(a) \in SUBSET Nat /\ a \in Nat /\ \A b \in Before(a) : b <= a
    <3>1. Before(a) \subseteq F /\ a \in Nat
        OBVIOUS
    <3>2. ASSUME NEW b \in Before(a) PROVE b <= a
      <4>1. b \in F /\ b < a
          BY <3>2
      <4>2. b \in Nat
          BY <4>1
      <4> QED
          BY <3>1, <4>1, <4>2
    <3> QED
        BY <3>1, <3>2
  <2>3. IsFiniteSet(Before(a))
      BY <2>2, FS_BoundedSetOfNaturals
  <2>4. Cardinality(S) <= Cardinality(Before(a))
      BY <2>1, <2>3, FS_Subset
  <2>5. Cardinality(Before(a)) \in Nat
      BY <2>3, FS_CardinalityType
  <2>6. Cardinality(S) = n
      BY <1>3
  <2> HIDE DEF Before
  <2> QED
      BY <1>1, <2>4, <2>5, <2>6
<1>4. Lowest(F, n) = {a \in F : Cardinality(Before(a)) < n}
    BY DEF Lowest
<1> HIDE DEF Before
<1> QED
    BY <1>2, <1>3, <1>4

\* The first addresses of what a call for a prefix should find.
LEMMA SizedRuns ==
    ASSUME ArgumentsOk, StateOk, InOrder, Progress, prefix # NULL
    PROVE  /\ Starts \subseteq FreeStarts(block, occupied, Size)
           /\ \A a \in FreeStarts(block, occupied, Size) : \A t \in Targets :
                 t = <<a, a + Size - 1>> /\ t \in Runs => a \in Starts
           /\ \A a \in Starts : \E u \in Runs : u[1] = a
           /\ \A a \in FreeStarts(block, occupied, Size) : <<a, a + Size - 1>> \in Targets
<1>1. Starts = {results[i][1] : i \in DOMAIN results}
    BY StartsAre
<1>2. Targets = {<<a, a + Size - 1>> : a \in FreeStarts(block, occupied, Size)}
    BY DEF Targets
<1>3. Runs \subseteq Targets
    BY DEF Progress
<1>4. \A i \in DOMAIN results : <<results[i][1], EndOf(results[i])>> \in Runs
    BY DEF Runs
<1>5. ASSUME NEW i \in DOMAIN results
      PROVE  results[i][1] \in FreeStarts(block, occupied, Size)
  <2>1. PICK a \in FreeStarts(block, occupied, Size) :
            <<results[i][1], EndOf(results[i])>> = <<a, a + Size - 1>>
      BY <1>2, <1>3, <1>4
  <2> QED
      BY <2>1
<1>6. ASSUME NEW a, <<a, a + Size - 1>> \in Runs PROVE a \in Starts
  <2>1. PICK i \in DOMAIN results :
            <<a, a + Size - 1>> = <<results[i][1], EndOf(results[i])>>
      BY <1>6 DEF Runs
  <2> QED
      BY <2>1, <1>1
<1>7. ASSUME NEW a \in Starts PROVE \E u \in Runs : u[1] = a
  <2>1. PICK i \in DOMAIN results : a = results[i][1]
      BY <1>1
  <2>2. <<results[i][1], EndOf(results[i])>>[1] = a
      BY <2>1
  <2> QED
      BY <2>2, <1>4
<1> QED
    BY <1>1, <1>2, <1>5, <1>6, <1>7

\* An auto-allocation gets the lowest aligned runs that are free.
LEMMA FoundFirstFree ==
    ASSUME IInv, InWord
    PROVE  FindsFirstFree
<1> SUFFICES ASSUME op = "fit", pc = "done"
             PROVE  /\ Ascending
                    /\ Starts = find_free_blocks(block, occupied, Size, count)
    BY DEF FindsFirstFree
<1>1. ArgumentsOk /\ StateOk /\ InOrder /\ Progress
    BY DEF IInv
<1>2. prefix # NULL
  <2>1. prefix \in 0 .. bits
      BY <1>1 DEF ArgumentsOk
  <2>2. prefix \in Nat
      BY <2>1
  <2> QED
      BY <2>2, NullAssumption
<1> DEFINE F == FreeStarts(block, occupied, Size)
<1>3. Starts \in SUBSET F /\ F \in SUBSET Nat /\ count \in Nat
  <2>1. Starts \subseteq F
      BY <1>1, <1>2, SizedRuns
  <2>2. F \subseteq Nat
      BY <1>1, <1>2, FreeStartsIs
  <2> QED
      BY <1>1, <2>1, <2>2 DEF ArgumentsOk
<1>4. IsFiniteSet(Starts) /\ Cardinality(Starts) = Len(results) /\ Len(results) <= count
    BY <1>1, StartsCount DEF InOrder
<1>5. ASSUME NEW a \in F \ Starts
      PROVE  Cardinality(Starts) = count /\ \A b \in Starts : b < a
  <2>1. <<a, a + Size - 1>> \in Targets /\ <<a, a + Size - 1>> \notin Runs
      BY <1>1, <1>2, SizedRuns
  <2>2. /\ Len(results) = count
        /\ \A u \in Runs : u[1] < <<a, a + Size - 1>>[1]
      BY <2>1, <1>1 DEF Progress
  <2>3. \A b \in Starts : \E u \in Runs : u[1] = b
      BY <1>1, <1>2, SizedRuns
  <2>4. \A b \in Starts : b < a
      BY <2>2, <2>3
  <2> QED
      BY <2>2, <2>4, <1>4
<1>6. Lowest(F, count) = Starts
  <2>1. Cardinality(Starts) <= count
      BY <1>4
  <2>2. \A a \in F \ Starts : Cardinality(Starts) = count
      BY <1>5
  <2>3. \A a \in F \ Starts : \A b \in Starts : b < a
      BY <1>5
  <2> HIDE DEF F
  <2> QED
      BY <2>1, <2>2, <2>3, <1>3, <1>4, LowestIs
<1>7. Ascending
    BY <1>1, ResultsAscend
<1> QED
    BY <1>6, <1>7 DEF find_free_blocks

\* A report for one prefix lists every aligned run that is free.
LEMMA ReportedWhatFits ==
    ASSUME IInv, InWord
    PROVE  ReportsWhatFits
<1> SUFFICES ASSUME op = "report", prefix # NULL, pc = "done"
             PROVE  /\ Ascending
                    /\ Starts = FreeStarts(block, occupied, Size)
                    /\ \A i \in DOMAIN results : results[i][2] = prefix
    BY DEF ReportsWhatFits
<1>1. ArgumentsOk /\ StateOk /\ InOrder /\ Progress
    BY DEF IInv
<1>2. Starts \subseteq FreeStarts(block, occupied, Size)
    BY <1>1, SizedRuns
<1>3. \A t \in Targets : t \in Runs
    BY <1>1 DEF Progress
<1>4. \A a \in FreeStarts(block, occupied, Size) : a \in Starts
    BY <1>1, <1>3, SizedRuns
<1>5. \A i \in DOMAIN results : results[i][2] = prefix
    BY <1>1 DEF InOrder
<1> QED
    BY <1>1, <1>2, <1>4, <1>5, ResultsAscend

\* The whole report is the maximal CIDRs of the free space.
LEMMA ReportedMinimal ==
    ASSUME IInv, InWord
    PROVE  ReportIsMinimal
<1> SUFFICES ASSUME op = "report", prefix = NULL, pc = "done"
             PROVE  /\ Ascending
                    /\ {<<c[1], c[1] + Pow2[bits - c[2]] - 1>> : c \in ToSet(results)}
                       = {<<c.start, c.end>> : c \in Largest}
    BY DEF ReportIsMinimal, Largest
<1>1. ArgumentsOk /\ StateOk /\ InOrder /\ Progress
    BY DEF IInv
<1>2. {<<c[1], c[1] + Pow2[bits - c[2]] - 1>> : c \in ToSet(results)} = Runs
    BY DEF ToSet, Runs, EndOf
<1>3. Targets = {<<c.start, c.end>> : c \in Largest}
    BY DEF Targets
<1>4. Runs = Targets
  <2>1. Runs \subseteq Targets
      BY <1>1 DEF Progress
  <2>2. Targets \subseteq Runs
      BY <1>1 DEF Progress
  <2> QED
      BY <2>1, <2>2
<1> QED
    BY <1>1, <1>2, <1>3, <1>4, ResultsAscend

\* find_free_blocks returns the first N free blocks, in address order
\* (src/ipam/operations.rs:1149), for every IPv4 call with a prefix of at most
\* 32, and for every IPv6 call with a prefix that fits a block which does not
\* reach the last address: where InWord, the condition in FindsFirstFree, holds.
THEOREM FirstFree == Spec => []FindsFirstFree
<1>1. IInv => FindsFirstFree
    BY FoundFirstFree DEF FindsFirstFree
<1> QED
    BY <1>1, Invariant, PTL

\* free_blocks for one prefix lists what an auto-allocation of that prefix
\* could be given (src/ipam/operations.rs:329), if the prefix is one of the
\* family and the block, when it is IPv6, has neither the first nor the last
\* address: where InWord, the condition in ReportsWhatFits, holds.  The code
\* checks neither, and in the other calls it may list blocks that no allocation
\* can get, or not end.
THEOREM WhatFits == Spec => []ReportsWhatFits
<1>1. IInv => ReportsWhatFits
    BY ReportedWhatFits DEF ReportsWhatFits
<1> QED
    BY <1>1, Invariant, PTL

\* free_blocks without a prefix lists "the minimal set of CIDR blocks"
\* (src/ipam/operations.rs:1197), of every IPv4 block and of every IPv6 block
\* that has neither the first nor the last address (InWord).
THEOREM Minimal == Spec => []ReportIsMinimal
<1>1. IInv => ReportIsMinimal
    BY ReportedMinimal DEF ReportIsMinimal
<1> QED
    BY <1>1, Invariant, PTL

-----------------------------------------------------------------------------
(* The calculators: what a call holds, and the CIDRs of its family.        *)

\* The last address of a CIDR.
LastOf(c) == c[1] + Pow2[width - c[2]] - 1

\* The request is one that can be made.
Asks == \E v4 \in BOOLEAN : request \in Requests(v4)

\* What a request holds.
LEMMA AsksFacts ==
    ASSUME Asks
    PROVE  /\ request.v4 \in BOOLEAN
           /\ width \in 1 .. Word
           /\ width = bits_of(request.v4)
           /\ width = Word <=> ~ request.v4
           /\ request.tool = "from_range" =>
                list \in [1 .. 2 -> 0 .. Pow2[width] - 1] /\ limit \in Nat
           /\ request.tool = "summarize" =>
                list \in Seq(CidrsOf(request.v4)) /\ limit \in Nat
           /\ request.tool = "vlsm" =>
                supernet \in CidrsOf(request.v4) /\ list \in Seq(0 .. width + 1)
PROOF
  <1>1. PICK v4 \in BOOLEAN : request \in Requests(v4)
    BY DEF Asks
  <1>2. request.v4 = v4
    BY <1>1 DEF Requests
  <1>3. width = bits_of(v4) /\ width \in 1 .. Word /\ (width = Word <=> ~ v4)
    BY <1>2, WordNat DEF width, bits_of
  <1>4. \A m \in Int : \A S : Lists(S, m) \subseteq Seq(S)
    BY DEF Lists
  <1>5. ASSUME request.tool = "from_range"
        PROVE  list \in [1 .. 2 -> 0 .. Pow2[width] - 1] /\ limit \in Nat
    <2>1. list \in [1 .. 2 -> 0 .. Pow2[bits_of(v4)] - 1] /\ limit \in 0 .. 2 * Word
      BY <1>1, <1>5 DEF Requests, list, limit
    <2>2. QED
      BY <2>1, <1>3, WordNat
  <1>6. ASSUME request.tool = "summarize"
        PROVE  list \in Seq(CidrsOf(request.v4)) /\ limit \in Nat
    <2>1. /\ list \in Lists(CidrsOf(v4), IF v4 THEN MaxList ELSE MaxList - 1)
          /\ limit \in {MaxList - 1, MaxList}
      BY <1>1, <1>6 DEF Requests, list, limit
    <2>2. MaxList \in Int /\ MaxList - 1 \in Nat /\ MaxList \in Nat
      BY ListAssumption
    <2>3. list \in Seq(CidrsOf(v4))
      BY <2>1, <2>2, <1>4
    <2>4. QED
      BY <2>1, <2>2, <2>3, <1>2
  <1>7. ASSUME request.tool = "vlsm"
        PROVE  supernet \in CidrsOf(request.v4) /\ list \in Seq(0 .. width + 1)
    <2>1. /\ supernet \in CidrsOf(v4)
          /\ list \in Lists(0 .. bits_of(v4) + 1, MaxList)
      BY <1>1, <1>7 DEF Requests, list, supernet
    <2>2. list \in Seq(0 .. bits_of(v4) + 1)
      BY <2>1, <1>4, ListAssumption
    <2>3. QED
      BY <2>1, <2>2, <1>2, <1>3
  <1>8. QED
    BY <1>2, <1>3, <1>5, <1>6, <1>7

\* A CIDR is an address of its family that is a multiple of its size.
LEMMA PairsForm ==
    ASSUME NEW v4 \in BOOLEAN
    PROVE  \A c : c \in CidrsOf(v4) <=>
              /\ c \in (0 .. Pow2[bits_of(v4)] - 1) \X (0 .. bits_of(v4))
              /\ c[1] % Pow2[bits_of(v4) - c[2]] = 0
PROOF
  <1> DEFINE n == bits_of(v4)
  <1>1. n \in Nat
    BY WordNat DEF bits_of
  <1>2. ASSUME NEW p \in 0 .. n
        PROVE  /\ Pow2[p] \in Nat \ {0} /\ Pow2[n - p] \in Nat \ {0}
               /\ Pow2[n] = Pow2[p] * Pow2[n - p] /\ Pow2[n] \in Nat \ {0}
    <2>1. p \in Nat /\ n - p \in Nat /\ (n - p) + p = n
      BY <1>1
    <2>2. QED
      BY <1>1, <2>1, Pow2Sum, Pow2Values
  <1> HIDE DEF n
  <1>3. ASSUME NEW p \in 0 .. n, NEW i \in 0 .. Pow2[p] - 1
        PROVE  /\ i * Pow2[n - p] \in 0 .. Pow2[n] - 1
               /\ (i * Pow2[n - p]) % Pow2[n - p] = 0
    <2> DEFINE s == Pow2[n - p]
    <2>1. s \in Nat \ {0} /\ Pow2[p] \in Nat \ {0} /\ i \in Nat /\ Pow2[n] = Pow2[p] * s
      BY <1>2
    <2> HIDE DEF s
    <2>2. i * s \in Nat
      BY <2>1
    <2>3. (i * s) % s = 0
      BY <2>1, <2>2, Multiples
    <2>4. i + 1 <= Pow2[p] /\ i \in Int /\ Pow2[p] - i - 1 \in Nat
      BY <2>1
    <2>5. Pow2[p] * s = i * s + s + (Pow2[p] - i - 1) * s
      <3>1. ((i + 1) + (Pow2[p] - i - 1)) * s = (i + 1) * s + (Pow2[p] - i - 1) * s
        BY <2>1, <2>4, Distributes
      <3>2. (i + 1) * s = i * s + 1 * s
        BY <2>1, Distributes
      <3>3. (i + 1) + (Pow2[p] - i - 1) = Pow2[p] /\ 1 * s = s
        BY <2>1
      <3>4. QED
        BY ONLY <3>1, <3>2, <3>3
    <2>6. (Pow2[p] - i - 1) * s \in Nat
      BY <2>1, <2>4
    <2>7. i * s <= Pow2[n] - 1
      BY ONLY <2>1, <2>2, <2>5, <2>6
    <2>8. QED
      BY <2>1, <2>2, <2>3, <2>7 DEF s
  <1>4. ASSUME NEW a \in 0 .. Pow2[n] - 1, NEW p \in 0 .. n, a % Pow2[n - p] = 0
        PROVE  \E i \in 0 .. Pow2[p] - 1 : a = i * Pow2[n - p]
    <2> DEFINE s == Pow2[n - p]
    <2>1. s \in Nat \ {0} /\ Pow2[p] \in Nat \ {0} /\ Pow2[n] = Pow2[p] * s
      BY <1>2
    <2>6. a \in Nat /\ a % s = 0
      BY <2>1, <1>4
    <2> HIDE DEF s
    <2>2. PICK i \in Nat : a = i * s
      BY <2>1, <2>6, Multiples
    <2>3. ASSUME Pow2[p] <= i
          PROVE  FALSE
      <3>1. i - Pow2[p] \in Nat
        BY <2>1, <2>3
      <3>2. (Pow2[p] + (i - Pow2[p])) * s = Pow2[p] * s + (i - Pow2[p]) * s
        BY <2>1, <3>1, Distributes
      <3>3. Pow2[p] + (i - Pow2[p]) = i
        BY <2>1
      <3>4. (i - Pow2[p]) * s \in Nat /\ Pow2[p] * s \in Nat
        BY <2>1, <3>1
      <3>5. a >= Pow2[p] * s
        BY ONLY <2>2, <3>2, <3>3, <3>4
      <3>6. QED
        BY <2>1, <3>4, <3>5
    <2>4. i \in 0 .. Pow2[p] - 1
      BY <2>1, <2>3
    <2>5. QED
      BY <2>2, <2>4 DEF s
  <1>5. CidrsOf(v4) = UNION {{<<i * Pow2[n - p], p>> : i \in 0 .. Pow2[p] - 1} : p \in 0 .. n}
    BY DEF CidrsOf, n
  <1>6. SUFFICES ASSUME NEW c
                 PROVE  c \in CidrsOf(v4) <=>
                           /\ c \in (0 .. Pow2[n] - 1) \X (0 .. n)
                           /\ c[1] % Pow2[n - c[2]] = 0
    BY DEF n
  <1>7. ASSUME c \in CidrsOf(v4)
        PROVE  c \in (0 .. Pow2[n] - 1) \X (0 .. n) /\ c[1] % Pow2[n - c[2]] = 0
    <2>1. PICK p \in 0 .. n : \E i \in 0 .. Pow2[p] - 1 : c = <<i * Pow2[n - p], p>>
      BY <1>5, <1>7
    <2>2. PICK i \in 0 .. Pow2[p] - 1 : c = <<i * Pow2[n - p], p>>
      BY <2>1
    <2>3. QED
      BY <2>2, <1>3
  <1>8. ASSUME c \in (0 .. Pow2[n] - 1) \X (0 .. n), c[1] % Pow2[n - c[2]] = 0
        PROVE  c \in CidrsOf(v4)
    <2>1. PICK a \in 0 .. Pow2[n] - 1, p \in 0 .. n : c = <<a, p>>
      BY <1>8
    <2>2. a % Pow2[n - p] = 0
      BY <1>8, <2>1
    <2>3. PICK i \in 0 .. Pow2[p] - 1 : a = i * Pow2[n - p]
      BY <1>4, <2>2
    <2>4. QED
      BY <2>1, <2>3, <1>5
  <1>9. QED
    BY <1>7, <1>8

\* What the CIDRs of a request's family are.
LEMMA PairFacts ==
    ASSUME Asks, NEW c \in CidrsOf(request.v4)
    PROVE  /\ c = <<c[1], c[2]>> /\ c[1] \in Nat /\ c[2] \in 0 .. width
           /\ width \in Nat /\ width - c[2] \in 0 .. width
           /\ Pow2[width - c[2]] \in Nat \ {0} /\ Pow2[width] \in Nat \ {0}
           /\ c[1] % Pow2[width - c[2]] = 0
           /\ LastOf(c) \in Nat /\ c[1] <= LastOf(c) /\ LastOf(c) < Pow2[width]
PROOF
  <1>1. request.v4 \in BOOLEAN /\ width = bits_of(request.v4) /\ width \in Nat
    BY AsksFacts, WordNat
  <1>2. c \in (0 .. Pow2[width] - 1) \X (0 .. width) /\ c[1] % Pow2[width - c[2]] = 0
    BY <1>1, PairsForm
  <1>3. c = <<c[1], c[2]>> /\ c[1] \in 0 .. Pow2[width] - 1 /\ c[2] \in 0 .. width
    BY <1>2
  <1>4. Pow2[width] \in Nat \ {0}
    BY <1>1, Pow2Values
  <1> DEFINE k == width - c[2]
  <1>5. k \in Nat /\ k <= width
    BY <1>1, <1>3
  <1>6. Pow2[k] \in Nat \ {0} /\ Pow2[width] % Pow2[k] = 0
    BY <1>1, <1>5, Pow2Values, Pow2Aligned
  <1>7. c[1] \in Nat /\ c[1] < Pow2[width] /\ c[1] % Pow2[k] = 0
    BY <1>2, <1>3, <1>4
  <1> HIDE DEF k
  <1>8. c[1] + Pow2[k] <= Pow2[width]
    BY <1>4, <1>6, <1>7, NextMultiple
  <1>9. LastOf(c) = c[1] + Pow2[k] - 1
    BY DEF LastOf, k
  <1>10. LastOf(c) \in Nat /\ c[1] <= LastOf(c) /\ LastOf(c) < Pow2[width]
    BY <1>4, <1>6, <1>7, <1>8, <1>9
  <1>11. QED
    BY <1>1, <1>2, <1>3, <1>4, <1>5, <1>6, <1>7, <1>10 DEF k

\* The multiple below a number.
LEMMA Floor ==
    ASSUME NEW a \in Nat, NEW s \in Nat \ {0}
    PROVE  /\ a - (a % s) \in Nat /\ (a - (a % s)) % s = 0
           /\ a - (a % s) <= a /\ a < (a - (a % s)) + s
           /\ \A b \in Nat : b % s = 0 /\ b <= a /\ a < b + s => a - (a % s) = b
PROOF
  <1>1. a % s \in 0 .. s - 1 /\ a % s <= a
    OBVIOUS
  <1>2. (a - (a % s)) % s = 0
    <2>1. a \div s \in Nat /\ a - (a % s) \in Nat
      BY <1>1
    <2>2. a - (a % s) = (a \div s) * s
      OBVIOUS
    <2>3. QED
      BY <2>1, <2>2, Multiples
  <1>3. a - (a % s) \in Nat /\ a - (a % s) <= a /\ a < (a - (a % s)) + s
    BY <1>1
  <1>4. ASSUME NEW b \in Nat, b % s = 0, b <= a, a < b + s
        PROVE  a - (a % s) = b
    <2> DEFINE f == a - (a % s)
    <2>1. f \in Nat /\ f % s = 0 /\ f <= a /\ a < f + s
      BY <1>2, <1>3
    <2> HIDE DEF f
    <2>2. f < b => f + s <= b
      BY <2>1, <1>4, NextMultiple
    <2>3. b < f => b + s <= f
      BY <2>1, <1>4, NextMultiple
    <2>4. f = b
      BY <2>1, <2>2, <2>3, <1>4
    <2>5. QED
      BY <2>4 DEF f
  <1>5. QED
    BY <1>2, <1>3, <1>4

\* The mask of a prefix takes an address down to a multiple of its size.
LEMMA MaskedIs ==
    ASSUME Asks, NEW a \in 0 .. Pow2[width] - 1, NEW p \in 0 .. width
    PROVE  masked(a, p) = a - (a % Pow2[width - p])
PROOF
  <1>1. width \in Nat /\ Pow2[width] \in Nat \ {0}
    <2>1. width \in Nat
      BY AsksFacts, WordNat
    <2>2. QED
      BY <2>1, Pow2Values
  <1>2. CASE p = 0
    <2>1. masked(a, p) = 0 /\ width - p = width
      BY <1>1, <1>2 DEF masked
    <2>2. a - (a % Pow2[width]) = 0
      <3>1. a \in Nat /\ a < 0 + Pow2[width] /\ 0 <= a /\ 0 \in Nat
        BY <1>1
      <3>2. 0 % Pow2[width] = 0
        BY <1>1
      <3>3. QED
        BY <1>1, <3>1, <3>2, Floor
    <2>3. QED
      BY <2>1, <2>2
  <1>3. CASE p # 0
    BY <1>3 DEF masked
  <1>4. QED
    BY <1>2, <1>3

\* An address is in a CIDR when it is from its first to its last.
LEMMA Checks ==
    ASSUME Asks, NEW c \in CidrsOf(request.v4), NEW a \in 0 .. Pow2[width] - 1
    PROVE  check_contains(c, a) <=> c[1] <= a /\ a <= LastOf(c)
PROOF
  <1> DEFINE s == Pow2[width - c[2]]
  <1>1. /\ c[1] \in Nat /\ c[2] \in 0 .. width /\ s \in Nat \ {0} /\ c[1] % s = 0
        /\ LastOf(c) = c[1] + s - 1 /\ Pow2[width] \in Nat \ {0}
        /\ c[1] \in 0 .. Pow2[width] - 1
    BY PairFacts DEF LastOf
  <1>2. masked(c[1], c[2]) = c[1] - (c[1] % s) /\ masked(a, c[2]) = a - (a % s)
    BY <1>1, MaskedIs
  <1>3. a \in Nat
    BY <1>1
  <1> HIDE DEF s
  <1>4. masked(c[1], c[2]) = c[1]
    BY <1>1, <1>2
  <1>5. check_contains(c, a) <=> a - (a % s) = c[1]
    BY <1>2, <1>4 DEF check_contains
  <1>6. /\ a - (a % s) \in Nat /\ a - (a % s) <= a /\ a < (a - (a % s)) + s
        /\ c[1] <= a /\ a < c[1] + s => a - (a % s) = c[1]
    BY <1>1, <1>3, Floor
  <1>7. QED
    BY <1>1, <1>3, <1>5, <1>6

\* The addresses of a CIDR are those from its first to its last.
LEMMA AddressesAre ==
    ASSUME Asks, NEW c \in CidrsOf(request.v4)
    PROVE  Addresses(c) = c[1] .. LastOf(c)
PROOF
  <1>1. Addresses(c) = {a \in c[1] .. LastOf(c) : check_contains(c, a)}
    BY DEF Addresses, LastOf
  <1>2. ASSUME NEW a \in c[1] .. LastOf(c)
        PROVE  check_contains(c, a)
    <2>1. c[1] \in Nat /\ LastOf(c) \in Nat /\ LastOf(c) < Pow2[width] /\ Pow2[width] \in Nat
      BY PairFacts
    <2>2. a \in 0 .. Pow2[width] - 1 /\ c[1] <= a /\ a <= LastOf(c)
      BY <2>1
    <2>3. QED
      BY <2>2, Checks
  <1>3. QED
    BY <1>1, <1>2

\* Two CIDRs that share an address nest, the longer prefix in the shorter.
LEMMA PairsNest ==
    ASSUME Asks, NEW c \in CidrsOf(request.v4), NEW d \in CidrsOf(request.v4),
           d[2] <= c[2], c[1] <= LastOf(d), d[1] <= LastOf(c)
    PROVE  d[1] <= c[1] /\ LastOf(c) <= LastOf(d)
PROOF
  <1>1. /\ c[1] \in Nat /\ width - c[2] \in Nat /\ c[1] % Pow2[width - c[2]] = 0
        /\ d[1] \in Nat /\ width - d[2] \in Nat /\ d[1] % Pow2[width - d[2]] = 0
        /\ width - c[2] <= width - d[2]
    BY PairFacts
  <1>2. /\ c[1] <= d[1] + Pow2[width - d[2]] - 1
        /\ d[1] <= c[1] + Pow2[width - c[2]] - 1
    BY DEF LastOf
  <1>3. QED
    BY <1>1, <1>2, CidrsNest DEF LastOf

\* A CIDR in another has a prefix that is as long, and longer when they differ.
LEMMA PairsInside ==
    ASSUME Asks, NEW c \in CidrsOf(request.v4), NEW d \in CidrsOf(request.v4),
           d[1] <= c[1], LastOf(c) <= LastOf(d)
    PROVE  /\ d[2] <= c[2]
           /\ d[2] = c[2] => c = d
           /\ LastOf(d) <= LastOf(c) /\ c[1] <= d[1] => c = d
PROOF
  <1> DEFINE k == width - c[2]
             m == width - d[2]
  <1>1. /\ c = <<c[1], c[2]>> /\ c[1] \in Nat /\ c[2] \in Int /\ width \in Int
        /\ d = <<d[1], d[2]>> /\ d[1] \in Nat /\ d[2] \in Int
        /\ k \in Nat /\ m \in Nat /\ Pow2[k] \in Nat /\ Pow2[m] \in Nat
        /\ LastOf(c) = c[1] + Pow2[k] - 1 /\ LastOf(d) = d[1] + Pow2[m] - 1
    BY PairFacts DEF LastOf
  <1>2. k = width - c[2] /\ m = width - d[2]
    OBVIOUS
  <1> HIDE DEF k, m
  <1>3. Pow2[k] <= Pow2[m]
    BY <1>1
  <1>4. ~ (m < k)
    BY <1>1, <1>3, Pow2Grows
  <1>5. d[2] <= c[2]
    BY <1>1, <1>2, <1>4
  <1>6. ASSUME d[2] = c[2]
        PROVE  c = d
    <2>1. k = m
      BY <1>2, <1>6
    <2>2. c[1] = d[1]
      BY <1>1, <2>1
    <2>3. QED
      BY <1>1, <1>6, <2>2
  <1>7. ASSUME LastOf(d) <= LastOf(c), c[1] <= d[1]
        PROVE  c = d
    <2>1. Pow2[k] = Pow2[m]
      BY <1>1, <1>7
    <2>2. ~ (k < m)
      BY <1>1, <2>1, Pow2Grows
    <2>3. c[2] = d[2]
      BY <1>1, <1>2, <1>4, <2>2
    <2>4. QED
      BY <2>3, <1>6
  <1>8. QED
    BY <1>5, <1>6, <1>7

\* Containment of the addresses.
LEMMA SubsetIs ==
    ASSUME Asks, NEW c \in CidrsOf(request.v4), NEW d \in CidrsOf(request.v4)
    PROVE  Addresses(c) \subseteq Addresses(d) <=> d[1] <= c[1] /\ LastOf(c) <= LastOf(d)
PROOF
  <1>1. /\ c[1] \in Nat /\ LastOf(c) \in Nat /\ c[1] <= LastOf(c)
        /\ d[1] \in Nat /\ LastOf(d) \in Nat
    BY PairFacts
  <1>2. Addresses(c) = c[1] .. LastOf(c) /\ Addresses(d) = d[1] .. LastOf(d)
    BY AddressesAre
  <1>3. QED
    BY <1>1, <1>2

-----------------------------------------------------------------------------
(* vlsm_split_ipv4 and vlsm_split_ipv6.                                    *)

\* The addresses of the supernet, and those that have been carved out of it.
Capacity == Pow2[width - supernet[2]]
Used == IF cidrs = <<>> THEN 0 ELSE (LastOf(cidrs[Len(cidrs)]) + 1) - supernet[1]

\* The CIDRs carved lie one behind the other from the supernet's first address,
\* none longer than the next, and the cursor is behind the last of them.
Packed ==
    /\ Asks
    /\ cidrs \in Seq(CidrsOf(request.v4)) /\ Len(cidrs) <= Len(list)
    /\ \A i \in 1 .. Len(cidrs) :
          /\ cidrs[i][2] = list[i] /\ supernet[2] < list[i]
          /\ cidrs[i][1] = IF i = 1 THEN supernet[1] ELSE LastOf(cidrs[i - 1]) + 1
          /\ supernet[1] <= cidrs[i][1] /\ LastOf(cidrs[i]) <= LastOf(supernet)
    /\ \A i, j \in 1 .. Len(cidrs) : i < j => LastOf(cidrs[i]) < cidrs[j][1]
    /\ cursor = IF Used > MAX THEN NULL ELSE Used

\* What a refusal for want of room means.
NoMore ==
    /\ Len(cidrs) < Len(list) /\ Asked \in supernet[2] + 1 .. width
    /\ Used + Pow2[width - Asked] > Capacity

PackInv ==
    request.tool = "vlsm" =>
        /\ Packed
        /\ stage = "call" => cidrs = <<>>
        /\ stage = "done" /\ reply = "ok" => Len(cidrs) = Len(list)
        /\ stage = "done" /\ reply = "NoRoom" => NoMore

\* What the invariant says of the arguments and of what has been taken.
LEMMA PackedFacts ==
    ASSUME Packed, request.tool = "vlsm"
    PROVE  /\ supernet \in CidrsOf(request.v4) /\ list \in Seq(0 .. width + 1)
           /\ width \in 1 .. Word /\ supernet[1] \in Nat /\ supernet[2] \in 0 .. width
           /\ Capacity \in Nat \ {0} /\ Capacity <= MAX + 1 /\ MAX \in Nat
           /\ MAX + 1 = Pow2[Word]
           /\ LastOf(supernet) = supernet[1] + Capacity - 1
           /\ supernet[1] % Capacity = 0
           /\ Used \in Nat /\ Used <= Capacity
           /\ cursor = IF Used > MAX THEN NULL ELSE Used
PROOF
  <1>1. Asks
    BY DEF Packed
  <1>2. /\ supernet \in CidrsOf(request.v4) /\ list \in Seq(0 .. width + 1)
        /\ width \in 1 .. Word
    BY <1>1, AsksFacts
  <1>3. /\ supernet[1] \in Nat /\ supernet[2] \in 0 .. width
        /\ Capacity \in Nat \ {0} /\ supernet[1] % Capacity = 0
        /\ width \in Nat /\ width - supernet[2] \in 0 .. width
        /\ LastOf(supernet) = supernet[1] + Capacity - 1
    BY <1>1, <1>2, PairFacts DEF Capacity, LastOf
  <1>4. Word \in Nat /\ width - supernet[2] \in Nat /\ width - supernet[2] <= Word
    BY <1>2, <1>3, WordNat
  <1>5. Capacity <= Pow2[Word]
    BY <1>4, Pow2Grows DEF Capacity
  <1>6. Pow2[Word] \in Nat \ {0}
    BY <1>4, Pow2Values
  <1>7. MAX + 1 = Pow2[Word] /\ MAX \in Nat
    BY <1>6 DEF MAX
  <1>8. Used \in Nat /\ Used <= Capacity
    <2>1. CASE cidrs = <<>>
      <3>1. Used = 0
        BY <2>1 DEF Used
      <3>2. QED
        BY <3>1, <1>3
    <2>2. CASE cidrs # <<>>
      <3> DEFINE n == Len(cidrs)
      <3>1. cidrs \in Seq(CidrsOf(request.v4))
        BY DEF Packed
      <3>2. n \in 1 .. n /\ cidrs[n] \in CidrsOf(request.v4)
        BY <3>1, <2>2
      <3>3. supernet[1] <= cidrs[n][1] /\ LastOf(cidrs[n]) <= LastOf(supernet)
        BY <3>2 DEF Packed
      <3>4. /\ cidrs[n][1] \in Nat /\ LastOf(cidrs[n]) \in Nat
            /\ cidrs[n][1] <= LastOf(cidrs[n])
        BY <3>2, <1>1, PairFacts
      <3>5. Used = (LastOf(cidrs[n]) + 1) - supernet[1]
        BY <2>2 DEF Used
      <3> HIDE DEF n
      <3>6. QED
        BY <3>3, <3>4, <3>5, <1>3
    <2>3. QED
      BY <2>1, <2>2
  <1>9. QED
    BY <1>2, <1>3, <1>5, <1>7, <1>8 DEF Packed

\* The next block that is asked for, once its prefix has been found valid.
LEMMA AskedFacts ==
    ASSUME Packed, request.tool = "vlsm", Carving, validate_vlsm_prefix(Asked) = "ok"
    PROVE  /\ Asked \in supernet[2] + 1 .. width
           /\ shl_one(width - Asked) = Pow2[width - Asked]
           /\ Pow2[width - Asked] \in Nat \ {0}
           /\ 2 * Pow2[width - Asked] <= Capacity
           /\ Used % Pow2[width - Asked] = 0
           /\ Capacity % Pow2[width - Asked] = 0
           /\ Fits(Pow2[width - Asked]) <=> Used + Pow2[width - Asked] <= Capacity
PROOF
  <1> DEFINE k == width - Asked
             m == width - supernet[2]
             s == Pow2[k]
             n == Len(cidrs)
  <1>1. /\ supernet \in CidrsOf(request.v4) /\ list \in Seq(0 .. width + 1)
        /\ width \in 1 .. Word /\ supernet[1] \in Nat /\ supernet[2] \in 0 .. width
        /\ Capacity \in Nat \ {0} /\ Capacity <= MAX + 1 /\ MAX \in Nat
        /\ MAX + 1 = Pow2[Word] /\ supernet[1] % Capacity = 0
        /\ Used \in Nat /\ Used <= Capacity
        /\ cursor = IF Used > MAX THEN NULL ELSE Used
    BY PackedFacts
  <1>2. Asks /\ cidrs \in Seq(CidrsOf(request.v4)) /\ Len(cidrs) < Len(list)
    BY DEF Packed, Carving
  <1>3. n \in Nat /\ n + 1 \in 1 .. Len(list)
    BY <1>1, <1>2
  <1>4. Asked \in 0 .. width + 1
    <2>1. \A i \in 1 .. Len(list) : list[i] \in 0 .. width + 1
      BY <1>1
    <2>2. Asked = list[n + 1]
      BY DEF Asked
    <2>3. QED
      BY <2>1, <2>2, <1>3
  <1>5. /\ ~ (Asked > width) /\ ~ (Asked <= supernet[2])
        /\ ~ (cidrs # <<>> /\ Asked < Last(cidrs)[2])
    BY DEF validate_vlsm_prefix
  <1>6. Asked \in supernet[2] + 1 .. width
    BY <1>1, <1>4, <1>5
  <1>7. /\ k \in Nat /\ m \in Nat /\ k < m /\ k < Word /\ k <= m /\ m <= Word /\ Word \in Nat
    <2>1. Word \in Nat /\ width \in Nat /\ width <= Word
      BY <1>1, WordNat
    <2>2. k = width - Asked /\ m = width - supernet[2]
      OBVIOUS
    <2>3. supernet[2] \in Nat /\ supernet[2] <= width /\ Asked \in Nat
      BY <1>1, <1>4, <2>1
    <2>4. supernet[2] < Asked /\ Asked <= width
      BY <1>6, <2>1, <2>3
    <2>5. QED
      BY ONLY <2>1, <2>2, <2>3, <2>4
  <1>8. Capacity = Pow2[m]
    BY DEF Capacity
  <1> HIDE DEF k, m
  <1>9. s \in Nat \ {0} /\ 2 * s <= Capacity /\ Capacity % s = 0
    BY <1>7, <1>8, Pow2Values, Pow2Grows, Pow2Aligned
  <1>10. shl_one(k) = s
    BY <1>7 DEF shl_one
  <1> HIDE DEF s
  <1>11. Used % s = 0
    <2>1. CASE cidrs = <<>>
      <3>1. Used = 0
        BY <2>1 DEF Used
      <3>2. QED
        BY <3>1, <1>9
    <2>2. CASE cidrs # <<>>
      <3>1. n \in 1 .. Len(cidrs) /\ cidrs[n] \in CidrsOf(request.v4) /\ n = Len(cidrs)
        BY <1>2, <2>2
      <3>2. cidrs[n][2] <= Asked
        <4>1. Last(cidrs) = cidrs[n]
          BY DEF Last
        <4>2. cidrs[n][2] \in 0 .. width
          BY <3>1, <1>2, PairFacts
        <4>3. QED
          BY <4>1, <4>2, <1>4, <1>5, <1>1, <2>2
      <3> DEFINE q == width - cidrs[n][2]
                 e == LastOf(cidrs[n]) + 1
      <3>3. /\ cidrs[n][1] \in Nat /\ cidrs[n][1] % Pow2[q] = 0 /\ q \in Nat
            /\ Pow2[q] \in Nat \ {0} /\ e = cidrs[n][1] + Pow2[q] /\ cidrs[n][2] \in Int
        <4>1. /\ cidrs[n][1] \in Nat /\ cidrs[n][1] % Pow2[width - cidrs[n][2]] = 0
              /\ width - cidrs[n][2] \in 0 .. width /\ width \in Nat
              /\ Pow2[width - cidrs[n][2]] \in Nat \ {0} /\ cidrs[n][2] \in 0 .. width
          BY <3>1, <1>2, PairFacts
        <4>2. e = cidrs[n][1] + Pow2[q] - 1 + 1
          BY DEF LastOf
        <4>3. QED
          BY <4>1, <4>2
      <3>4. k <= q
        BY <3>2, <3>3, <1>1, <1>4 DEF k
      <3>5. Used = e - supernet[1]
        BY <2>2, <3>1 DEF Used
      <3>6. supernet[1] <= cidrs[n][1]
        BY <3>1 DEF Packed
      <3> HIDE DEF q, e, n
      <3>7. Pow2[q] % Pow2[q] = 0
        BY <3>3
      <3>14. (cidrs[n][1] + Pow2[q]) % Pow2[q] = 0
        BY <3>3, <3>7, MultiplesSum
      <3>8. e % Pow2[q] = 0 /\ e \in Nat
        BY <3>3, <3>14
      <3>9. e % s = 0
        BY <3>3, <3>4, <3>8, <1>7, Aligned DEF s
      <3>10. supernet[1] % s = 0
        BY <1>1, <1>7, <1>8, Aligned DEF s
      <3>11. supernet[1] <= e
        <4>1. PICK a : a = cidrs[n][1]
          OBVIOUS
        <4>2. PICK b : b = supernet[1]
          OBVIOUS
        <4>3. PICK t : t = Pow2[q]
          OBVIOUS
        <4>4. a \in Nat /\ b \in Nat /\ t \in Nat /\ e = a + t /\ b <= a
          BY <4>1, <4>2, <4>3, <3>3, <3>6, <1>1
        <4>5. b <= e
          BY ONLY <4>4
        <4>6. QED
          BY ONLY <4>2, <4>5
      <3>12. (e - supernet[1]) % s = 0
        BY <3>8, <3>9, <3>10, <3>11, <1>1, <1>9, MultiplesSum
      <3>13. QED
        BY <3>5, <3>12
    <2>3. QED
      BY <2>1, <2>2
  <1>12. Fits(s) <=> Used + s <= Capacity
    <2>1. CASE Used > MAX
      <3>1. cursor = NULL
        BY <1>1, <2>1
      <3>2. ~ Fits(s)
        BY <3>1 DEF Fits
      <3>3. ~ (Used + s <= Capacity)
        BY <2>1, <1>1, <1>9
      <3>4. QED
        BY <3>2, <3>3
    <2>2. CASE ~ (Used > MAX)
      <3>1. cursor = Used /\ cursor \in Nat /\ cursor # NULL
        BY <1>1, <2>2, NullAssumption
      <3>2. Fits(s) <=> /\ Used + s <= MAX + 1
                        /\ capacity # NULL => wrap(Used + s) <= capacity
        BY <3>1, <1>1, <1>9 DEF Fits
      <3>3. Used + s \in Nat
        BY <1>1, <1>9
      <3>4. CASE ~ request.v4 /\ supernet[2] = 0
        <4>1. capacity = NULL
          BY <3>4 DEF capacity
        <4>2. m = Word
          BY <1>2, <3>4, AsksFacts, WordNat DEF m
        <4>3. QED
          BY <3>2, <4>1, <4>2, <1>1, <1>8
      <3>5. CASE ~ (~ request.v4 /\ supernet[2] = 0)
        <4>1. capacity = Capacity
          BY <3>5 DEF capacity, Capacity
        <4>2. capacity # NULL
          BY <4>1, <1>1, NullAssumption
        <4>3. m < Word
          BY <1>1, <1>2, <3>5, AsksFacts, WordNat DEF m
        <4>4. 2 * Capacity <= Pow2[Word]
          BY <4>3, <1>7, <1>8, Pow2Grows
        <4>5. ASSUME Used + s <= MAX + 1
              PROVE  Used + s \in 0 .. MAX
          BY <4>4, <4>5, <1>1, <1>9
        <4>6. Used + s \in 0 .. MAX => wrap(Used + s) = Used + s
          BY WrapSmall
        <4>7. QED
          BY <3>2, <3>3, <4>1, <4>2, <4>5, <4>6, <1>1
      <3>6. QED
        BY <3>4, <3>5
    <2>3. QED
      BY <2>1, <2>2
  <1>13. QED
    BY <1>6, <1>9, <1>10, <1>11, <1>12 DEF s, k

\* A call keeps its arguments.
LEMMA RequestStays ==
    ASSUME request' = request
    PROVE  /\ width' = width /\ list' = list /\ supernet' = supernet /\ limit' = limit
           /\ Asks' <=> Asks
           /\ request'.v4 = request.v4 /\ request'.tool = request.tool
           /\ CidrsOf(request.v4)' = CidrsOf(request.v4)
           /\ Capacity' = Capacity
           /\ \A c : LastOf(c)' = LastOf(c)
PROOF
  <1>1. width' = width /\ list' = list /\ supernet' = supernet /\ limit' = limit
    BY DEF width, list, supernet, limit
  <1>2. Asks' <=> Asks
    BY DEF Asks
  <1>3. CidrsOf(request.v4)' = CidrsOf(request.v4)
    BY DEF CidrsOf
  <1>4. Capacity' = Capacity
    BY <1>1 DEF Capacity
  <1>5. \A c : LastOf(c)' = LastOf(c)
    BY <1>1 DEF LastOf
  <1>6. QED
    BY <1>1, <1>2, <1>3, <1>4, <1>5

\* What does not touch the CIDRs and the cursor keeps them packed.
LEMMA PackQuiet ==
    ASSUME UNCHANGED <<request, cidrs, cursor>>
    PROVE  /\ Packed => Packed'
           /\ Used' = Used /\ Asked' = Asked
           /\ NoMore => NoMore'
PROOF
  <1>1. /\ width' = width /\ list' = list /\ supernet' = supernet
        /\ (Asks' <=> Asks) /\ CidrsOf(request.v4)' = CidrsOf(request.v4)
        /\ Capacity' = Capacity /\ \A c : LastOf(c)' = LastOf(c)
    BY RequestStays
  <1>2. cidrs' = cidrs /\ cursor' = cursor
    OBVIOUS
  <1>3. Used' = Used
    BY <1>1, <1>2 DEF Used
  <1>4. Asked' = Asked
    BY <1>1, <1>2 DEF Asked
  <1>5. Packed => Packed'
    BY <1>1, <1>2, <1>3 DEF Packed
  <1>6. NoMore => NoMore'
    BY <1>1, <1>2, <1>3, <1>4 DEF NoMore
  <1>7. QED
    BY <1>3, <1>4, <1>5, <1>6

\* A block that is carved is the next in line.
LEMMA CarveStep ==
    ASSUME Packed, request.tool = "vlsm", Carve
    PROVE  Packed'
PROOF
  <1> DEFINE n == Len(cidrs)
             s == Pow2[width - Asked]
             c == <<supernet[1] + Used, Asked>>
  <1>1. /\ Carving /\ validate_vlsm_prefix(Asked) = "ok"
        /\ request' = request
    BY DEF Carve
  <1>2. /\ Asked \in supernet[2] + 1 .. width
        /\ shl_one(width - Asked) = s /\ s \in Nat \ {0} /\ 2 * s <= Capacity
        /\ Used % s = 0 /\ Capacity % s = 0
        /\ Fits(s) <=> Used + s <= Capacity
    BY <1>1, AskedFacts
  <1>3. /\ supernet \in CidrsOf(request.v4) /\ list \in Seq(0 .. width + 1)
        /\ width \in 1 .. Word /\ supernet[1] \in Nat /\ supernet[2] \in 0 .. width
        /\ Capacity \in Nat \ {0} /\ Capacity <= MAX + 1 /\ MAX \in Nat
        /\ LastOf(supernet) = supernet[1] + Capacity - 1
        /\ supernet[1] % Capacity = 0 /\ Used \in Nat /\ Used <= Capacity
        /\ cursor = IF Used > MAX THEN NULL ELSE Used
    BY PackedFacts
  <1>4. Fits(s)
    BY <1>2 DEF Carve
  <1>5. cursor # NULL /\ cursor = Used /\ Used + s <= Capacity
    <2>1. cursor # NULL
      BY <1>4 DEF Fits
    <2>2. QED
      BY <2>1, <1>2, <1>3, <1>4
  <1>6. /\ cidrs' = Append(cidrs, c)
        /\ cursor' = IF Used + s > MAX THEN NULL ELSE Used + s
    <2>1. (IF cursor = NULL THEN 0 ELSE cursor) = Used
      BY <1>5
    <2>2. QED
      BY <2>1, <1>2 DEF Carve
  <1>7. /\ Asks /\ cidrs \in Seq(CidrsOf(request.v4)) /\ n \in Nat
        /\ n < Len(list)
    BY <1>1 DEF Packed, Carving
  <1>8. /\ width' = width /\ list' = list /\ supernet' = supernet
        /\ (Asks' <=> Asks) /\ CidrsOf(request.v4)' = CidrsOf(request.v4)
        /\ \A d : LastOf(d)' = LastOf(d)
    BY <1>1, RequestStays
  <1>9. c \in CidrsOf(request.v4)
    <2>1. /\ width = bits_of(request.v4) /\ request.v4 \in BOOLEAN
          /\ LastOf(supernet) < Pow2[width] /\ Pow2[width] \in Nat
      BY <1>3, <1>7, AsksFacts, PairFacts
    <2>2. supernet[1] + Used \in 0 .. Pow2[width] - 1
      <3>1. supernet[1] + Used <= LastOf(supernet)
        BY <1>2, <1>3, <1>5
      <3>2. LastOf(supernet) \in Nat /\ supernet[1] + Used \in Nat
        BY <1>3
      <3>3. QED
        BY <2>1, <3>1, <3>2
    <2>3. supernet[1] % s = 0
      <3>4. /\ width \in Nat /\ supernet[2] \in Nat /\ Asked \in Nat
            /\ supernet[2] < Asked /\ Asked <= width
        BY <1>2, <1>3, WordNat
      <3>1. width - Asked \in Nat /\ width - supernet[2] \in Nat
            /\ width - Asked <= width - supernet[2]
        BY ONLY <3>4
      <3>2. supernet[1] % Pow2[width - supernet[2]] = 0
        BY <1>3 DEF Capacity
      <3>3. QED
        BY <3>1, <3>2, <1>3, Aligned
    <2>4. (supernet[1] + Used) % s = 0
      BY <2>3, <1>2, <1>3, MultiplesSum
    <2>5. Asked \in 0 .. width
      BY <1>2, <1>3, WordNat
    <2>6. c \in (0 .. Pow2[width] - 1) \X (0 .. width) /\ c[1] % Pow2[width - c[2]] = 0
      BY <2>2, <2>4, <2>5
    <2> HIDE DEF c
    <2>7. QED
      BY <2>1, <2>6, PairsForm
  <1>10. c[1] = supernet[1] + Used /\ c[2] = Asked /\ LastOf(c) = supernet[1] + Used + s - 1
    BY DEF LastOf
  <1>11. Asked = list[n + 1]
    BY DEF Asked
  <1> HIDE DEF c, s
  <1>24. /\ s \in Nat \ {0} /\ Used \in Nat /\ supernet[1] \in Nat /\ Capacity \in Nat
         /\ Used + s <= Capacity /\ c[1] = supernet[1] + Used
         /\ LastOf(c) = supernet[1] + Used + s - 1
         /\ LastOf(supernet) = supernet[1] + Capacity - 1
    BY <1>2, <1>3, <1>5, <1>10
  <1>12. /\ cidrs' \in Seq(CidrsOf(request.v4)) /\ Len(cidrs') = n + 1
         /\ cidrs'[n + 1] = c /\ \A i \in 1 .. n : cidrs'[i] = cidrs[i]
    BY <1>6, <1>7, <1>9
  <1>13. /\ n = 0 => c[1] = supernet[1]
         /\ n # 0 => c[1] = LastOf(cidrs[n]) + 1 /\ cidrs[n] \in CidrsOf(request.v4)
    <2>1. CASE n = 0
      <3>1. cidrs = <<>>
        BY <2>1, <1>7
      <3>2. Used = 0
        BY <3>1 DEF Used
      <3>3. QED
        BY <2>1, <3>2, <1>3, <1>10
    <2>2. CASE n # 0
      <3>1. cidrs # <<>> /\ cidrs[n] \in CidrsOf(request.v4)
        BY <2>2, <1>7
      <3>2. Used = (LastOf(cidrs[n]) + 1) - supernet[1]
        BY <3>1 DEF Used
      <3>3. LastOf(cidrs[n]) \in Nat
        BY <3>1, <1>7, PairFacts
      <3>4. QED
        BY <2>2, <3>1, <3>2, <3>3, <1>3, <1>10
    <2>3. QED
      BY <2>1, <2>2
  <1>14. \A i \in 1 .. n : LastOf(cidrs[i]) < c[1]
    <2> SUFFICES ASSUME NEW i \in 1 .. n
                 PROVE  LastOf(cidrs[i]) < c[1]
      OBVIOUS
    <2>1. /\ cidrs[i] \in CidrsOf(request.v4) /\ cidrs[n] \in CidrsOf(request.v4)
          /\ n \in 1 .. n /\ n # 0
      BY <1>7
    <2>2. /\ LastOf(cidrs[i]) \in Nat /\ LastOf(cidrs[n]) \in Nat
          /\ cidrs[n][1] \in Nat /\ cidrs[n][1] <= LastOf(cidrs[n])
      BY <2>1, <1>7, PairFacts
    <2>3. i < n => LastOf(cidrs[i]) < cidrs[n][1]
      BY <2>1 DEF Packed
    <2>4. c[1] = LastOf(cidrs[n]) + 1
      BY <2>1, <1>13
    <2>5. CASE i < n
      BY <2>2, <2>3, <2>4, <2>5
    <2>6. CASE ~ (i < n)
      <3>1. i = n
        BY <2>6, <1>7
      <3>2. QED
        BY <3>1, <2>2, <2>4
    <2>7. QED
      BY <2>5, <2>6
  <1> DEFINE line(i, d) == IF i = 1 THEN supernet[1] ELSE LastOf(d) + 1
  <1>15. /\ c[2] = list[n + 1] /\ supernet[2] < list[n + 1]
         /\ c[1] = IF n + 1 = 1 THEN supernet[1] ELSE LastOf(cidrs[n]) + 1
         /\ supernet[1] <= c[1] /\ LastOf(c) <= LastOf(supernet)
    <2>1. c[1] = IF n + 1 = 1 THEN supernet[1] ELSE LastOf(cidrs[n]) + 1
      BY <1>7, <1>13
    <2>2. c[2] = list[n + 1] /\ supernet[2] < list[n + 1]
      <3>1. c[2] = list[n + 1]
        BY <1>10, <1>11
      <3>2. width \in Int /\ supernet[2] \in Int
        BY <1>3, WordNat
      <3>3. supernet[2] < Asked
        BY <1>2, <3>2
      <3>4. QED
        BY <3>1, <3>3, <1>11
    <2>3. supernet[1] <= c[1] /\ LastOf(c) <= LastOf(supernet)
      BY ONLY <1>24
    <2>4. QED
      BY <2>1, <2>2, <2>3
  <1>16. \A i \in 1 .. n + 1 :
           /\ cidrs'[i][2] = list[i] /\ supernet[2] < list[i]
           /\ cidrs'[i][1] = IF i = 1 THEN supernet[1] ELSE LastOf(cidrs'[i - 1]) + 1
           /\ supernet[1] <= cidrs'[i][1] /\ LastOf(cidrs'[i]) <= LastOf(supernet)
    <2> SUFFICES ASSUME NEW i \in 1 .. n + 1
                 PROVE  /\ cidrs'[i][2] = list[i] /\ supernet[2] < list[i]
                        /\ cidrs'[i][1] = IF i = 1 THEN supernet[1]
                                          ELSE LastOf(cidrs'[i - 1]) + 1
                        /\ supernet[1] <= cidrs'[i][1]
                        /\ LastOf(cidrs'[i]) <= LastOf(supernet)
      OBVIOUS
    <2>1. i # 1 => i - 1 \in 1 .. n
      BY <1>7
    <2>2. i # 1 => cidrs'[i - 1] = cidrs[i - 1]
      BY <2>1, <1>12
    <2>3. CASE i \in 1 .. n
      <3>1. cidrs'[i] = cidrs[i]
        BY <2>3, <1>12
      <3>2. /\ cidrs[i][2] = list[i] /\ supernet[2] < list[i]
            /\ cidrs[i][1] = IF i = 1 THEN supernet[1] ELSE LastOf(cidrs[i - 1]) + 1
            /\ supernet[1] <= cidrs[i][1] /\ LastOf(cidrs[i]) <= LastOf(supernet)
        BY <2>3 DEF Packed
      <3>3. QED
        BY <2>2, <3>1, <3>2
    <2>4. CASE i \notin 1 .. n
      <3>1. i = n + 1
        BY <2>4, <1>7
      <3>2. cidrs'[i] = c
        BY <3>1, <1>12
      <3>3. i # 1 => i - 1 = n
        BY <3>1, <1>7
      <3>4. QED
        BY <2>2, <3>1, <3>2, <3>3, <1>15
    <2>5. QED
      BY <2>3, <2>4
  <1>17. \A i, j \in 1 .. n + 1 : i < j => LastOf(cidrs'[i]) < cidrs'[j][1]
    <2> SUFFICES ASSUME NEW i \in 1 .. n + 1, NEW j \in 1 .. n + 1, i < j
                 PROVE  LastOf(cidrs'[i]) < cidrs'[j][1]
      OBVIOUS
    <2>1. i \in 1 .. n /\ cidrs'[i] = cidrs[i]
      <3>1. i \in 1 .. n
        BY <1>7
      <3>2. QED
        BY <3>1, <1>12
    <2>2. CASE j \in 1 .. n
      <3>1. cidrs'[j] = cidrs[j]
        BY <2>2, <1>12
      <3>2. QED
        BY <2>1, <2>2, <3>1 DEF Packed
    <2>3. CASE j \notin 1 .. n
      <3>1. j = n + 1
        BY <2>3, <1>7
      <3>2. QED
        BY <2>1, <3>1, <1>12, <1>14
    <2>4. QED
      BY <2>2, <2>3
  <1>18. Used' = Used + s
    <2>1. Used' = IF cidrs' = <<>> THEN 0
                  ELSE (LastOf(cidrs'[Len(cidrs')]) + 1) - supernet[1]
      BY <1>8 DEF Used
    <2>2. cidrs' # <<>> /\ cidrs'[Len(cidrs')] = c
      BY <1>7, <1>12
    <2>3. Used' = (LastOf(c) + 1) - supernet[1]
      BY <2>1, <2>2
    <2>4. QED
      BY ONLY <2>3, <1>24
  <1>19. n + 1 <= Len(list)
    BY <1>3, <1>7
  <1>20. cidrs' \in Seq(CidrsOf(request.v4)') /\ Len(cidrs') <= Len(list')
    BY <1>8, <1>12, <1>19
  <1>21. cursor' = IF Used' > MAX THEN NULL ELSE Used'
    BY <1>6, <1>18
  <1>22. Asks'
    BY <1>7, <1>8
  <1> HIDE DEF n
  <1>23. QED
    BY <1>8, <1>12, <1>16, <1>17, <1>20, <1>21, <1>22 DEF Packed

\* Every step keeps the request.
LEMMA CallKeepsRequest == ASSUME CalcNext PROVE request' = request
BY DEF CalcNext, Call, StartRange, CoverNext, RangeCovered, Normalize, Keep, StartMerging,
       MergeNext, Merged, Generate, Root, Branch, Grown, StartCarving, Carve, RefuseToCarve, Carved

\* A call begins with a request that can be made.
LEMMA CallAsks == ASSUME CalcInit PROVE Asks
BY DEF CalcInit, Asks

\* Packing begins with an empty supernet.
LEMMA PackInit == ASSUME CalcInit PROVE PackInv
PROOF
  <1> SUFFICES ASSUME request.tool = "vlsm"
               PROVE  /\ Packed /\ stage = "call" /\ cidrs = <<>>
    BY DEF PackInv
  <1>1. Asks /\ cidrs = <<>> /\ cursor = 0 /\ stage = "call"
    BY CallAsks DEF CalcInit
  <1>2. Used = 0
    BY <1>1 DEF Used
  <1>3. MAX \in Nat
    <2>1. Pow2[Word] \in Nat \ {0}
      BY WordNat, Pow2Values
    <2>2. QED
      BY <2>1 DEF MAX
  <1>4. cursor = IF Used > MAX THEN NULL ELSE Used
    BY <1>1, <1>2, <1>3
  <1>5. list \in Seq(0 .. width + 1)
    BY <1>1, AsksFacts
  <1>6. Len(cidrs) = 0 /\ cidrs \in Seq(CidrsOf(request.v4)) /\ Len(cidrs) <= Len(list)
    BY <1>1, <1>5
  <1>7. QED
    BY <1>1, <1>4, <1>6 DEF Packed

\* A step of the call keeps what it has carved in line.
LEMMA PackStep ==
    ASSUME PackInv, CalcNext
    PROVE  PackInv'
PROOF
  <1>1. request' = request
    BY CallKeepsRequest
  <1> SUFFICES ASSUME request.tool = "vlsm"
               PROVE  PackInv'
    BY <1>1 DEF PackInv
  <1>2. /\ Packed
        /\ stage = "call" => cidrs = <<>>
    BY DEF PackInv
  <1>3. list' = list
    BY <1>1, RequestStays
  <1>4. CASE Call
    <2>1. UNCHANGED <<request, cidrs, cursor>> /\ stage = "call"
      BY <1>4 DEF Call
    <2>2. Packed'
      BY <2>1, <1>2, PackQuiet
    <2>3. Refusal \in {"InvalidInput", "ok"}
      BY DEF Refusal
    <2>4. stage' = "start" \/ (stage' = "done" /\ reply' = "InvalidInput")
      BY <2>3, <1>4 DEF Call
    <2>5. QED
      BY <2>2, <2>4 DEF PackInv
  <1>5. CASE StartCarving
    <2>1. UNCHANGED <<request, cidrs, cursor>> /\ stage' = "run"
      BY <1>5 DEF StartCarving
    <2>2. Packed'
      BY <2>1, <1>2, PackQuiet
    <2>3. QED
      BY <2>1, <2>2 DEF PackInv
  <1>6. CASE Carve
    <2>1. Packed'
      BY <1>2, <1>6, CarveStep
    <2>2. stage' = "run"
      BY <1>6 DEF Carve, Carving, Doing
    <2>3. QED
      BY <2>1, <2>2 DEF PackInv
  <1>7. CASE RefuseToCarve
    <2>1. UNCHANGED <<request, cidrs, cursor>> /\ stage' = "done" /\ Carving
      BY <1>7 DEF RefuseToCarve, Answer
    <2>2. Packed' /\ (NoMore => NoMore')
      BY <2>1, <1>2, PackQuiet
    <2>3. CASE validate_vlsm_prefix(Asked) # "ok" /\ reply' = validate_vlsm_prefix(Asked)
      <3>1. reply' \in {"InvalidPrefixLength", "InvalidSubnetSplit", "InvalidInput"}
        BY <2>3 DEF validate_vlsm_prefix
      <3>2. QED
        BY <2>1, <2>2, <3>1 DEF PackInv
    <2>4. CASE /\ validate_vlsm_prefix(Asked) = "ok" /\ reply' = "NoRoom"
               /\ ~ Fits(shl_one(width - Asked))
      <3>1. /\ Asked \in supernet[2] + 1 .. width
            /\ ~ (Used + Pow2[width - Asked] <= Capacity)
            /\ Pow2[width - Asked] \in Nat
        BY <2>1, <2>4, <1>2, AskedFacts
      <3>2. Used \in Nat /\ Capacity \in Nat
        BY <1>2, PackedFacts
      <3>3. NoMore
        BY <2>1, <3>1, <3>2 DEF NoMore, Carving
      <3>4. QED
        BY <2>1, <2>2, <2>4, <3>3 DEF PackInv
    <2>5. QED
      BY <2>3, <2>4, <1>7 DEF RefuseToCarve, Answer
  <1>8. CASE Carved
    <2>1. /\ UNCHANGED <<request, cidrs, cursor>> /\ stage' = "done" /\ reply' = "ok"
          /\ Len(cidrs) = Len(list)
      BY <1>8 DEF Carved, Answer
    <2>2. Packed'
      BY <2>1, <1>2, PackQuiet
    <2>3. Len(cidrs') = Len(list')
      BY <2>1, <1>3
    <2>4. QED
      BY <2>1, <2>2, <2>3 DEF PackInv
  <1>9. CASE StartRange \/ CoverNext \/ RangeCovered \/ Normalize \/ Keep \/ StartMerging
             \/ MergeNext \/ Merged \/ Generate \/ Root \/ Branch \/ Grown
    BY <1>9 DEF StartRange, CoverNext, RangeCovered, Normalize, Keep, StartMerging,
                MergeNext, Merged, Generate, Root, Branch, Grown, Doing
  <1>10. QED
    BY <1>4, <1>5, <1>6, <1>7, <1>8, <1>9 DEF CalcNext

\* Where every prefix that is asked for is valid, `taken' adds up their sizes.
LEMMA TakenIs ==
    ASSUME list \in Seq(0 .. width + 1), width \in Nat,
           \A i \in DOMAIN list : list[i] \in 0 .. width
    PROVE  /\ taken[0] = 0
           /\ \A i \in 1 .. Len(list) : taken[i] = taken[i - 1] + Pow2[width - list[i]]
           /\ \A i \in 0 .. Len(list) : taken[i] \in Nat
PROOF
  <1> DEFINE N == Len(list)
             size(i) == Pow2[width - list[i]]
             sums(n) == {g \in [0 .. n -> Nat] :
                           g[0] = 0 /\ \A i \in 1 .. n : g[i] = g[i - 1] + size(i)}
             S == {n \in Nat : n <= N => sums(n) # {}}
  <1>1. N \in Nat /\ DOMAIN list = 1 .. N
    OBVIOUS
  <1>2. \A i \in 1 .. N : size(i) \in Nat
    <2> SUFFICES ASSUME NEW i \in 1 .. N
                 PROVE  size(i) \in Nat
      OBVIOUS
    <2>1. list[i] \in 0 .. width
      BY <1>1
    <2>2. width - list[i] \in Nat
      BY <2>1
    <2>3. QED
      BY <2>2, Pow2Values
  <1> HIDE DEF N, size
  <1>3. 0 \in S
    <2>1. [i \in 0 .. 0 |-> 0] \in sums(0)
      OBVIOUS
    <2>2. QED
      BY <2>1
  <1>4. ASSUME NEW n \in Nat, n \in S
        PROVE  n + 1 \in S
    <2> SUFFICES ASSUME n + 1 <= N
                 PROVE  sums(n + 1) # {}
      OBVIOUS
    <2>1. n <= N /\ n + 1 \in 1 .. N
      BY <1>1
    <2>2. PICK g \in sums(n) : TRUE
      BY <2>1, <1>4
    <2>3. /\ g \in [0 .. n -> Nat] /\ g[0] = 0
          /\ \A i \in 1 .. n : g[i] = g[i - 1] + size(i)
      BY <2>2
    <2> DEFINE h == [i \in 0 .. n + 1 |-> IF i = n + 1 THEN g[n] + size(n + 1) ELSE g[i]]
    <2>4. g[n] + size(n + 1) \in Nat
      BY <2>1, <2>3, <1>2
    <2>5. h \in [0 .. n + 1 -> Nat]
      <3> SUFFICES ASSUME NEW i \in 0 .. n + 1
                   PROVE  h[i] \in Nat
        OBVIOUS
      <3>1. CASE i = n + 1
        BY <3>1, <2>4
      <3>2. CASE i # n + 1
        <4>1. i \in 0 .. n
          BY <3>2
        <4>2. QED
          BY <3>2, <4>1, <2>3
      <3>3. QED
        BY <3>1, <3>2
    <2>6. h[0] = 0
      BY <2>3
    <2>7. ASSUME NEW i \in 1 .. n + 1
          PROVE  h[i] = h[i - 1] + size(i)
      <3>1. i \in 0 .. n + 1 /\ i - 1 \in 0 .. n + 1 /\ i - 1 # n + 1
        OBVIOUS
      <3>2. h[i - 1] = g[i - 1]
        BY <3>1
      <3>3. CASE i = n + 1
        BY <3>1, <3>2, <3>3
      <3>4. CASE i # n + 1
        <4>1. i \in 1 .. n
          BY <3>4
        <4>2. QED
          BY <3>1, <3>2, <3>4, <4>1, <2>3
      <3>5. QED
        BY <3>3, <3>4
    <2>8. h \in sums(n + 1)
      BY <2>5, <2>6, <2>7
    <2>9. QED
      BY <2>8
  <1>5. N \in S
    <2> HIDE DEF S
    <2>1. Nat \subseteq S
      BY <1>3, <1>4, Induction
    <2>2. QED
      BY <2>1, <1>1
  <1>6. PICK g \in sums(N) : TRUE
    BY <1>1, <1>5
  <1>7. /\ g \in [0 .. N -> Nat] /\ g[0] = 0
        /\ \A i \in 1 .. N : g[i] = g[i - 1] + size(i)
    BY <1>6
  <1>8. g = [i \in 0 .. N |-> IF i = 0 THEN 0 ELSE g[i - 1] + size(i)]
    <2>1. ASSUME NEW i \in 0 .. N
          PROVE  g[i] = IF i = 0 THEN 0 ELSE g[i - 1] + size(i)
      <3>1. CASE i = 0
        BY <3>1, <1>7
      <3>2. CASE i # 0
        <4>1. i \in 1 .. N
          BY <3>2, <1>1
        <4>2. QED
          BY <3>2, <4>1, <1>7
      <3>3. QED
        BY <3>1, <3>2
    <2>2. g = [i \in 0 .. N |-> g[i]]
      BY <1>7
    <2>3. QED
      BY <2>1, <2>2, Zenon
  <1> HIDE DEF sums, S
  <1>9. \E f : f = [i \in 0 .. N |-> IF i = 0 THEN 0 ELSE f[i - 1] + size(i)]
    BY <1>8
  <1>10. taken = [i \in 0 .. N |-> IF i = 0 THEN 0 ELSE taken[i - 1] + size(i)]
    BY <1>9 DEF taken, N, size
  <1>11. taken[0] = 0
    BY <1>1, <1>10
  <1>12. \A i \in 1 .. N : taken[i] = taken[i - 1] + size(i)
    BY <1>1, <1>10
  <1>13. \A i \in 0 .. N : taken[i] \in Nat
    <2> DEFINE T == {n \in Nat : n <= N => taken[n] \in Nat}
    <2>1. 0 \in T
      BY <1>11
    <2>2. ASSUME NEW n \in Nat, n \in T
          PROVE  n + 1 \in T
      <3> SUFFICES ASSUME n + 1 <= N
                   PROVE  taken[n + 1] \in Nat
        OBVIOUS
      <3>1. n + 1 \in 1 .. N /\ n <= N /\ (n + 1) - 1 = n
        BY <1>1
      <3>2. taken[n + 1] = taken[n] + size(n + 1)
        BY <3>1, <1>12
      <3>3. QED
        BY <3>1, <3>2, <2>2, <1>2
    <2>3. Nat \subseteq T
      <3> HIDE DEF T
      <3>1. QED
        BY <2>1, <2>2, Induction
    <2>4. QED
      BY <2>3, <1>1
  <1>14. QED
    BY <1>11, <1>12, <1>13 DEF N, size

\* What has been carved is what the blocks so far take.
LEMMA UsedIs ==
    ASSUME Packed, request.tool = "vlsm", \A i \in DOMAIN list : list[i] \in 0 .. width
    PROVE  Used = taken[Len(cidrs)]
PROOF
  <1> DEFINE N == Len(cidrs)
             T == {n \in Nat : n \in 1 .. N => LastOf(cidrs[n]) + 1 = supernet[1] + taken[n]}
  <1>1. /\ list \in Seq(0 .. width + 1) /\ width \in Nat /\ supernet[1] \in Nat
    BY PackedFacts, WordNat
  <1>2. /\ taken[0] = 0
        /\ \A i \in 1 .. Len(list) : taken[i] = taken[i - 1] + Pow2[width - list[i]]
        /\ \A i \in 0 .. Len(list) : taken[i] \in Nat
    BY <1>1, TakenIs
  <1>3. /\ Asks /\ cidrs \in Seq(CidrsOf(request.v4)) /\ N \in Nat /\ N <= Len(list)
        /\ Len(list) \in Nat
    BY <1>1 DEF Packed
  <1>4. ASSUME NEW n \in 1 .. N
        PROVE  /\ cidrs[n] \in CidrsOf(request.v4) /\ cidrs[n][1] \in Nat
               /\ LastOf(cidrs[n]) \in Nat
               /\ LastOf(cidrs[n]) + 1 = cidrs[n][1] + (taken[n] - taken[n - 1])
               /\ taken[n] \in Nat /\ taken[n - 1] \in Nat
               /\ cidrs[n][1] = IF n = 1 THEN supernet[1] ELSE LastOf(cidrs[n - 1]) + 1
    <2>1. cidrs[n] \in CidrsOf(request.v4)
      BY <1>3
    <2>2. cidrs[n][1] \in Nat /\ Pow2[width - cidrs[n][2]] \in Nat /\ LastOf(cidrs[n]) \in Nat
      BY <1>3, <2>1, PairFacts
    <2>3. /\ cidrs[n][2] = list[n]
          /\ cidrs[n][1] = IF n = 1 THEN supernet[1] ELSE LastOf(cidrs[n - 1]) + 1
      BY DEF Packed
    <2>4. n \in 1 .. Len(list) /\ n \in 0 .. Len(list) /\ n - 1 \in 0 .. Len(list)
      BY <1>3
    <2>5. /\ taken[n] = taken[n - 1] + Pow2[width - cidrs[n][2]]
          /\ taken[n] \in Nat /\ taken[n - 1] \in Nat
      BY <2>3, <2>4, <1>2
    <2>6. LastOf(cidrs[n]) = cidrs[n][1] + Pow2[width - cidrs[n][2]] - 1
      BY DEF LastOf
    <2>7. LastOf(cidrs[n]) + 1 = cidrs[n][1] + (taken[n] - taken[n - 1])
      <3> DEFINE z == Pow2[width - cidrs[n][2]]
                 l == LastOf(cidrs[n])
                 f == cidrs[n][1]
                 t == taken[n]
                 u == taken[n - 1]
      <3>1. l = f + z - 1 /\ t = u + z
        BY <2>5, <2>6
      <3>2. l \in Nat /\ f \in Nat /\ z \in Nat /\ t \in Nat /\ u \in Nat
        BY <2>2, <2>5
      <3> HIDE DEF z, l, f, t, u
      <3>3. l + 1 = f + (t - u)
        BY <3>1, <3>2
      <3>4. QED
        BY <3>3 DEF l, f, t, u
    <2>8. QED
      BY <2>1, <2>2, <2>3, <2>5, <2>7
  <1> HIDE DEF N
  <1>5. 0 \in T
    OBVIOUS
  <1>6. ASSUME NEW n \in Nat, n \in T
        PROVE  n + 1 \in T
    <2> SUFFICES ASSUME n + 1 \in 1 .. N
                 PROVE  LastOf(cidrs[n + 1]) + 1 = supernet[1] + taken[n + 1]
      OBVIOUS
    <2>1. /\ LastOf(cidrs[n + 1]) + 1 = cidrs[n + 1][1] + (taken[n + 1] - taken[n])
          /\ taken[n + 1] \in Nat /\ taken[n] \in Nat /\ cidrs[n + 1][1] \in Nat
          /\ LastOf(cidrs[n + 1]) \in Nat
          /\ cidrs[n + 1][1] = IF n + 1 = 1 THEN supernet[1] ELSE LastOf(cidrs[n]) + 1
      <3>1. (n + 1) - 1 = n
        OBVIOUS
      <3>2. QED
        BY <1>4, <3>1
    <2>2. CASE n = 0
      <3>1. cidrs[n + 1][1] = supernet[1] /\ taken[n] = 0
        BY <2>1, <2>2, <1>2
      <3>2. QED
        BY <2>1, <3>1, <1>1
    <2>3. CASE n # 0
      <3>1. n \in 1 .. N
        BY <2>3, <1>3
      <3>2. LastOf(cidrs[n]) + 1 = supernet[1] + taken[n]
        BY <3>1, <1>6
      <3>3. n + 1 # 1
        BY <2>3
      <3>4. cidrs[n + 1][1] = supernet[1] + taken[n]
        BY <2>1, <3>2, <3>3
      <3>5. QED
        BY <2>1, <3>4, <1>1
    <2>4. QED
      BY <2>2, <2>3
  <1>7. Nat \subseteq T
    <2> HIDE DEF T
    <2>1. QED
      BY <1>5, <1>6, Induction
  <1>8. CASE N = 0
    <2>1. cidrs = <<>>
      BY <1>3, <1>8 DEF N
    <2>2. QED
      BY <2>1, <1>2, <1>8 DEF Used, N
  <1>9. CASE N # 0
    <2>1. N \in 1 .. N /\ N \in Nat
      BY <1>3, <1>9
    <2>2. LastOf(cidrs[N]) + 1 = supernet[1] + taken[N]
      BY <2>1, <1>7
    <2>3. Used = (LastOf(cidrs[N]) + 1) - supernet[1]
      <3>1. cidrs # <<>>
        BY <1>9, <1>3 DEF N
      <3>2. QED
        BY <3>1 DEF Used, N
    <2>4. LastOf(cidrs[N]) \in Nat /\ taken[N] \in Nat
      BY <2>1, <1>4
    <2>5. Used = taken[N]
      BY <2>2, <2>3, <2>4, <1>1
    <2>6. QED
      BY <2>5 DEF N
  <1>10. QED
    BY <1>8, <1>9

\* Later blocks do not take less.
LEMMA TakenGrows ==
    ASSUME list \in Seq(0 .. width + 1), width \in Nat,
           \A i \in DOMAIN list : list[i] \in 0 .. width,
           NEW m \in 0 .. Len(list)
    PROVE  taken[m] <= taken[Len(list)]
PROOF
  <1> DEFINE N == Len(list)
             T == {n \in Nat : m <= n /\ n <= N => taken[m] <= taken[n]}
  <1>1. /\ \A i \in 1 .. N : taken[i] = taken[i - 1] + Pow2[width - list[i]]
        /\ \A i \in 0 .. N : taken[i] \in Nat
    BY TakenIs
  <1>2. N \in Nat /\ m \in Nat /\ m <= N /\ DOMAIN list = 1 .. N
    OBVIOUS
  <1> HIDE DEF N
  <1>3. 0 \in T
    <2>1. m <= 0 => m = 0
      BY <1>2
    <2>2. taken[0] \in Nat
      BY <1>1, <1>2
    <2>3. QED
      BY <2>1, <2>2
  <1>4. ASSUME NEW n \in Nat, n \in T
        PROVE  n + 1 \in T
    <2> SUFFICES ASSUME m <= n + 1, n + 1 <= N
                 PROVE  taken[m] <= taken[n + 1]
      OBVIOUS
    <2>1. n + 1 \in 1 .. N /\ n + 1 \in 0 .. N /\ n \in 0 .. N /\ (n + 1) - 1 = n
      BY <1>2
    <2>2. list[n + 1] \in 0 .. width
      BY <2>1, <1>2
    <2>3. Pow2[width - list[n + 1]] \in Nat
      <3>1. width - list[n + 1] \in Nat
        BY <2>2
      <3>2. QED
        BY <3>1, Pow2Values
    <2>4. taken[n + 1] = taken[n] + Pow2[width - list[n + 1]]
      BY <2>1, <1>1
    <2>5. taken[n + 1] \in Nat /\ taken[n] \in Nat /\ taken[m] \in Nat
      BY <2>1, <1>1, <1>2
    <2>6. CASE m = n + 1
      BY <2>5, <2>6
    <2>7. CASE m # n + 1
      <3>1. m <= n /\ n <= N
        BY <2>1, <2>7, <1>2
      <3>2. taken[m] <= taken[n]
        BY <3>1, <1>4
      <3>3. QED
        BY <3>2, <2>3, <2>4, <2>5
    <2>8. QED
      BY <2>6, <2>7
  <1>5. Nat \subseteq T
    <2> HIDE DEF T
    <2>1. QED
      BY <1>3, <1>4, Induction
  <1>6. taken[m] <= taken[N]
    BY <1>2, <1>5
  <1>7. QED
    BY <1>6 DEF N

\* What is carved in line is packed.
LEMMA PackedAll == ASSUME PackInv PROVE PacksAll
PROOF
  <1> SUFFICES ASSUME request.tool = "vlsm", stage = "done"
               PROVE  PacksAll
    BY DEF PacksAll
  <1>1. /\ Packed
        /\ reply = "ok" => Len(cidrs) = Len(list)
        /\ reply = "NoRoom" => NoMore
    BY DEF PackInv
  <1>2. /\ supernet \in CidrsOf(request.v4) /\ list \in Seq(0 .. width + 1)
        /\ width \in Nat /\ supernet[2] \in 0 .. width /\ Used \in Nat /\ Capacity \in Nat
        /\ cursor = IF Used > MAX THEN NULL ELSE Used
    BY <1>1, PackedFacts, WordNat
  <1>3. Asks /\ cidrs \in Seq(CidrsOf(request.v4))
    BY <1>1 DEF Packed
  <1>4. ASSUME reply = "NoRoom", \A i \in DOMAIN list : list[i] \in supernet[2] + 1 .. width
        PROVE  taken[Len(list)] > Pow2[width - supernet[2]]
    <2> DEFINE n == Len(cidrs)
    <2>1. \A i \in DOMAIN list : list[i] \in 0 .. width
      BY <1>2, <1>4
    <2>2. Used = taken[n]
      BY <1>1, <2>1, UsedIs
    <2>3. n \in Nat /\ n < Len(list) /\ Used + Pow2[width - Asked] > Capacity /\ Len(list) \in Nat
      BY <1>1, <1>2, <1>3, <1>4 DEF NoMore
    <2>4. n + 1 \in 1 .. Len(list) /\ n + 1 \in 0 .. Len(list) /\ (n + 1) - 1 = n
      BY <2>3
    <2>5. taken[n + 1] = taken[n] + Pow2[width - Asked]
      <3>1. taken[n + 1] = taken[n] + Pow2[width - list[n + 1]]
        BY <2>1, <2>4, <1>2, TakenIs
      <3>2. QED
        BY <3>1 DEF Asked
    <2>6. /\ taken[n + 1] \in Nat /\ taken[Len(list)] \in Nat
          /\ taken[n + 1] <= taken[Len(list)]
      <3>1. Len(list) \in 0 .. Len(list)
        BY <2>3
      <3>2. QED
        BY <2>1, <2>4, <3>1, <1>2, TakenIs, TakenGrows
    <2> HIDE DEF n
    <2>7. taken[Len(list)] > Capacity
      BY <2>2, <2>3, <2>5, <2>6, <1>2
    <2>8. QED
      BY <2>7 DEF Capacity
  <1>5. ASSUME reply = "ok"
        PROVE  /\ [i \in DOMAIN cidrs |-> cidrs[i][2]] = list
               /\ \A i \in DOMAIN cidrs :
                    /\ cidrs[i] \in CidrsOf(request.v4)
                    /\ Addresses(cidrs[i]) \subseteq Addresses(supernet)
               /\ \A i, j \in DOMAIN cidrs :
                    i # j => Addresses(cidrs[i]) \cap Addresses(cidrs[j]) = {}
               /\ cursor = IF taken[Len(list)] > MAX THEN NULL ELSE taken[Len(list)]
    <2>1. Len(cidrs) = Len(list) /\ DOMAIN cidrs = 1 .. Len(cidrs) /\ Len(cidrs) \in Nat
      BY <1>1, <1>3, <1>5
    <2>2. \A i \in DOMAIN cidrs : cidrs[i] \in CidrsOf(request.v4)
      BY <1>3, <2>1
    <2>3. \A i \in DOMAIN cidrs : cidrs[i][2] = list[i]
      BY <1>1, <2>1 DEF Packed
    <2>4. [i \in DOMAIN cidrs |-> cidrs[i][2]] = list
      <3>1. list = [i \in 1 .. Len(list) |-> list[i]]
        BY <1>2
      <3>2. [i \in DOMAIN cidrs |-> cidrs[i][2]] = [i \in 1 .. Len(list) |-> list[i]]
        BY <2>1, <2>3
      <3>3. QED
        BY <3>1, <3>2
    <2>5. ASSUME NEW i \in DOMAIN cidrs
          PROVE  Addresses(cidrs[i]) \subseteq Addresses(supernet)
      <3>1. supernet[1] <= cidrs[i][1] /\ LastOf(cidrs[i]) <= LastOf(supernet)
        BY <1>1, <2>1 DEF Packed
      <3>2. cidrs[i] \in CidrsOf(request.v4)
        BY <2>2
      <3>3. QED
        BY <3>1, <3>2, <1>2, <1>3, SubsetIs
    <2>6. ASSUME NEW i \in DOMAIN cidrs, NEW j \in DOMAIN cidrs, i < j
          PROVE  Addresses(cidrs[i]) \cap Addresses(cidrs[j]) = {}
      <3>1. LastOf(cidrs[i]) < cidrs[j][1]
        BY <1>1, <2>1, <2>6 DEF Packed
      <3>2. /\ cidrs[i] \in CidrsOf(request.v4) /\ cidrs[j] \in CidrsOf(request.v4)
        BY <2>2
      <3>3. /\ LastOf(cidrs[i]) \in Nat /\ cidrs[i][1] \in Nat
            /\ LastOf(cidrs[j]) \in Nat /\ cidrs[j][1] \in Nat
        BY <3>2, <1>3, PairFacts
      <3>4. /\ Addresses(cidrs[i]) = cidrs[i][1] .. LastOf(cidrs[i])
            /\ Addresses(cidrs[j]) = cidrs[j][1] .. LastOf(cidrs[j])
        BY <3>2, <1>3, AddressesAre
      <3>5. QED
        BY <3>1, <3>3, <3>4
    <2>7. \A i, j \in DOMAIN cidrs :
            i # j => Addresses(cidrs[i]) \cap Addresses(cidrs[j]) = {}
      <3> SUFFICES ASSUME NEW i \in DOMAIN cidrs, NEW j \in DOMAIN cidrs, i # j
                   PROVE  Addresses(cidrs[i]) \cap Addresses(cidrs[j]) = {}
        OBVIOUS
      <3>1. i < j \/ j < i
        BY <2>1
      <3>2. CASE i < j
        BY <3>2, <2>6
      <3>3. CASE j < i
        <4>1. Addresses(cidrs[j]) \cap Addresses(cidrs[i]) = {}
          BY <3>3, <2>6
        <4>2. QED
          BY <4>1
      <3>4. QED
        BY <3>1, <3>2, <3>3
    <2>8. cursor = IF taken[Len(list)] > MAX THEN NULL ELSE taken[Len(list)]
      <3>1. ASSUME NEW i \in DOMAIN list
            PROVE  list[i] \in 0 .. width
        <4>1. i \in DOMAIN cidrs
          BY <2>1, <1>2
        <4>2. cidrs[i][2] \in 0 .. width
          BY <4>1, <2>2, <1>3, PairFacts
        <4>3. QED
          BY <4>1, <4>2, <2>3
      <3>2. Used = taken[Len(list)]
        BY <3>1, <2>1, <1>1, UsedIs
      <3>3. QED
        BY <3>2, <1>2
    <2>9. QED
      BY <2>2, <2>4, <2>5, <2>7, <2>8
  <1>6. QED
    BY <1>4, <1>5 DEF PacksAll

\* A list of blocks is carved out of a supernet whenever it fits.
THEOREM Packing == CalcSpec => []PacksAll
PROOF
  <1>1. CalcInit => PackInv
    BY PackInit
  <1>2. PackInv /\ [CalcNext]_calcVars => PackInv'
    <2> SUFFICES ASSUME PackInv, [CalcNext]_calcVars
                 PROVE  PackInv'
      OBVIOUS
    <2>1. CASE CalcNext
      BY <2>1, PackStep
    <2>2. CASE UNCHANGED calcVars
      <3>1. UNCHANGED <<request, cidrs, cursor, stage, reply>>
        BY <2>2 DEF calcVars
      <3>2. /\ list' = list /\ (Packed => Packed') /\ (NoMore => NoMore')
        BY <3>1, RequestStays, PackQuiet
      <3>3. QED
        BY <3>1, <3>2 DEF PackInv
    <2>3. QED
      BY <2>1, <2>2
  <1>3. PackInv => PacksAll
    BY PackedAll
  <1>4. QED
    BY <1>1, <1>2, <1>3, PTL DEF CalcSpec

-----------------------------------------------------------------------------
(* The largest CIDRs of a set of addresses.                                *)

\* Of two CIDRs in a set that share an address, one of them being maximal, the
\* other lies in it; and is the same when it is maximal too.
LEMMA MaximalMeet ==
    ASSUME Asks, NEW S, NEW c \in Maximal(S), NEW d \in Within(S),
           c[1] <= LastOf(d), d[1] <= LastOf(c)
    PROVE  /\ c[1] <= d[1] /\ LastOf(d) <= LastOf(c)
           /\ d \in Maximal(S) => c = d
PROOF
  <1>1. c \in CidrsOf(request.v4) /\ d \in CidrsOf(request.v4) /\ c \in Within(S)
    BY DEF Maximal, Within
  <1>2. c[2] \in Nat /\ d[2] \in Nat /\ c[1] \in Nat /\ LastOf(c) \in Nat
    BY <1>1, PairFacts, AsksFacts, WordNat
  <1>3. c[1] <= d[1] /\ LastOf(d) <= LastOf(c)
    <2>1. CASE c[2] <= d[2]
      BY <1>1, <2>1, PairsNest
    <2>2. CASE d[2] <= c[2]
      <3>1. d[1] <= c[1] /\ LastOf(c) <= LastOf(d)
        BY <1>1, <2>2, PairsNest
      <3>2. Addresses(c) \subseteq Addresses(d)
        BY <1>1, <3>1, SubsetIs
      <3>3. c = d
        BY <3>2 DEF Maximal
      <3>4. QED
        BY <3>3, <1>2
    <2>3. QED
      BY <2>1, <2>2, <1>2
  <1>4. ASSUME d \in Maximal(S)
        PROVE  c = d
    <2>1. Addresses(d) \subseteq Addresses(c)
      BY <1>1, <1>3, SubsetIs
    <2>2. QED
      BY <1>1, <1>4, <2>1 DEF Maximal
  <1>5. QED
    BY <1>3, <1>4

\* The CIDRs found do not overlap and are in order.
Apart == \A i, j \in DOMAIN cidrs : i < j => LastOf(cidrs[i]) < cidrs[j][1]

\* An address lies in one of the CIDRs found.
Covers(a) == \E i \in DOMAIN cidrs : cidrs[i][1] <= a /\ a <= LastOf(cidrs[i])

\* CIDRs that do not overlap are found in the order of their addresses.
LEMMA ApartOrdered ==
    ASSUME Asks, cidrs \in Seq(CidrsOf(request.v4)), Apart
    PROVE  Ordered
PROOF
  <1> SUFFICES ASSUME NEW i \in DOMAIN cidrs, NEW j \in DOMAIN cidrs, i < j
               PROVE  cidrs[i][1] < cidrs[j][1]
    BY DEF Ordered
  <1>1. cidrs[i] \in CidrsOf(request.v4) /\ cidrs[j] \in CidrsOf(request.v4)
    OBVIOUS
  <1>2. /\ cidrs[i][1] \in Nat /\ LastOf(cidrs[i]) \in Nat /\ cidrs[j][1] \in Nat
        /\ cidrs[i][1] <= LastOf(cidrs[i])
    BY <1>1, PairFacts
  <1>3. LastOf(cidrs[i]) < cidrs[j][1]
    BY DEF Apart
  <1>4. QED
    BY <1>2, <1>3

\* Maximal CIDRs that cover a set of addresses are all the maximal ones.
LEMMA Exactly ==
    ASSUME Asks, NEW S, cidrs \in Seq(CidrsOf(request.v4)), Apart,
           \A i \in DOMAIN cidrs : cidrs[i] \in Maximal(S),
           \A a \in S : Covers(a)
    PROVE  Ordered /\ ToSet(cidrs) = Maximal(S)
PROOF
  <1>1. Ordered
    BY ApartOrdered
  <1>2. ToSet(cidrs) = {cidrs[i] : i \in DOMAIN cidrs}
    BY DEF ToSet
  <1>3. ASSUME NEW d \in Maximal(S)
        PROVE  d \in ToSet(cidrs)
    <2>1. d \in Within(S) /\ d \in CidrsOf(request.v4) /\ Addresses(d) \subseteq S
      BY DEF Maximal, Within
    <2>2. /\ d[1] \in Nat /\ d[1] <= LastOf(d) /\ LastOf(d) \in Nat
          /\ Addresses(d) = d[1] .. LastOf(d)
      BY <2>1, PairFacts, AddressesAre
    <2>3. d[1] \in S
      BY <2>1, <2>2
    <2>4. PICK i \in DOMAIN cidrs : cidrs[i][1] <= d[1] /\ d[1] <= LastOf(cidrs[i])
      BY <2>3 DEF Covers
    <2>5. cidrs[i] \in CidrsOf(request.v4) /\ cidrs[i] \in Maximal(S)
      OBVIOUS
    <2>6. cidrs[i][1] \in Nat /\ LastOf(cidrs[i]) \in Nat
      BY <2>5, PairFacts
    <2>7. cidrs[i][1] <= LastOf(d)
      BY <2>2, <2>4, <2>6
    <2>8. cidrs[i] = d
      BY <2>1, <2>4, <2>5, <2>7, MaximalMeet
    <2>9. QED
      BY <2>8, <1>2
  <1>4. QED
    BY <1>1, <1>2, <1>3

\* There are as many CIDRs as have been found, none of them twice.
LEMMA FoundCount ==
    ASSUME Asks, cidrs \in Seq(CidrsOf(request.v4)), Apart
    PROVE  IsFiniteSet(ToSet(cidrs)) /\ Cardinality(ToSet(cidrs)) = Len(cidrs)
PROOF
  <1> DEFINE n == Len(cidrs)
             S == ToSet(cidrs)
             f == [i \in 1 .. n |-> cidrs[i]]
  <1>1. n \in Nat /\ DOMAIN cidrs = 1 .. n
    OBVIOUS
  <1>2. S = {cidrs[i] : i \in 1 .. n}
    BY <1>1 DEF ToSet
  <1>3. f \in [1 .. n -> S]
    BY <1>2
  <1>4. \A i, j \in 1 .. n : f[i] = f[j] => i = j
    <2> SUFFICES ASSUME NEW i \in 1 .. n, NEW j \in 1 .. n, i # j
                 PROVE  f[i] # f[j]
      OBVIOUS
    <2>1. cidrs[i] \in CidrsOf(request.v4) /\ cidrs[j] \in CidrsOf(request.v4)
      BY <1>1
    <2>2. cidrs[i][1] \in Nat /\ cidrs[j][1] \in Nat
      BY <2>1, PairFacts
    <2>3. i < j \/ j < i
      BY <1>1
    <2>4. cidrs[i][1] < cidrs[j][1] \/ cidrs[j][1] < cidrs[i][1]
      BY <2>3, <1>1, ApartOrdered DEF Ordered
    <2>5. QED
      BY <2>2, <2>4
  <1>5. \A t \in S : \E i \in 1 .. n : f[i] = t
    BY <1>2
  <1> HIDE DEF f, S
  <1>6. f \in Bijection(1 .. n, S)
    BY <1>3, <1>4, <1>5 DEF Bijection, Injection, IsInjective, Surjection
  <1>7. ExistsBijection(1 .. n, S)
    BY <1>6 DEF ExistsBijection
  <1>8. Cardinality(S) = n /\ IsFiniteSet(S)
    BY <1>1, <1>7, FS_CountingElements, FS_NatBijection
  <1>9. QED
    BY <1>8 DEF S

\* The CIDRs of a family are finitely many.
LEMMA CidrsFinite == ASSUME Asks PROVE IsFiniteSet(CidrsOf(request.v4))
PROOF
  <1> DEFINE A == 0 .. Pow2[width] - 1
             P == 0 .. width
  <1>1. request.v4 \in BOOLEAN /\ width = bits_of(request.v4) /\ width \in Nat
    BY AsksFacts, WordNat
  <1>2. Pow2[width] \in Nat
    BY <1>1, Pow2Values
  <1>3. IsFiniteSet(A) /\ IsFiniteSet(P)
    <2>1. 0 \in Int /\ Pow2[width] - 1 \in Int /\ width \in Int
      BY <1>1, <1>2
    <2>2. QED
      BY <2>1, FS_Interval
  <1>4. IsFiniteSet(A \X P)
    BY <1>3, FS_Product
  <1>5. CidrsOf(request.v4) \subseteq A \X P
    BY <1>1, PairsForm
  <1>6. QED
    BY <1>4, <1>5, FS_Subset

-----------------------------------------------------------------------------
(* range_to_cidrs_v4 and range_to_cidrs_v6.                                *)

\* The greatest power of two that a word is not smaller than.
LEMMA ILog2 ==
    ASSUME NEW n \in 1 .. MAX
    PROVE  /\ ilog2(n) \in 0 .. Word - 1
           /\ Pow2[ilog2(n)] <= n
           /\ \A k \in Nat : Pow2[k] <= n => k <= ilog2(n)
PROOF
  <1>1. Word \in Nat \ {0} /\ Pow2[Word] \in Nat \ {0} /\ MAX = Pow2[Word] - 1
    BY WordNat, Pow2Values DEF MAX
  <1>2. n \in Nat /\ 1 <= n /\ n < Pow2[Word]
    BY <1>1
  <1>3. \A k \in Nat : Pow2[k] \in Nat
    BY Pow2Values
  <1>4. ASSUME NEW k \in Nat, Pow2[k] <= n
        PROVE  k < Word
    <2>1. Word <= k => Pow2[Word] <= Pow2[k]
      BY <1>1, Pow2Grows
    <2>2. QED
      BY <2>1, <1>1, <1>2, <1>3, <1>4
  <1> DEFINE S == {k \in Nat : Pow2[k] <= n}
  <1>5. S \in SUBSET Nat /\ \A k \in S : k <= Word
    BY <1>1, <1>4
  <1>6. 0 \in S
    BY <1>2, Pow2Values
  <1>7. PICK m \in S : \A k \in S : k <= m
    <2> HIDE DEF S
    <2>1. QED
      BY <1>1, <1>5, <1>6, GreatestMember
  <1>8. m \in Nat /\ m < Word /\ Pow2[m] <= n
    BY <1>4, <1>7
  <1>9. n < Pow2[m + 1]
    <2>1. m + 1 \notin S
      BY <1>7, <1>8
    <2>2. QED
      BY <2>1, <1>2, <1>3, <1>8
  <1>10. PICK z : z = ilog2(n)
    OBVIOUS
  <1>11. z \in 0 .. Word /\ Pow2[z] <= n /\ n < Pow2[z + 1]
    <2>1. m \in 0 .. Word
      BY <1>1, <1>8
    <2>2. \E k \in 0 .. Word : Pow2[k] <= n /\ n < Pow2[k + 1]
      BY <2>1, <1>8, <1>9
    <2>3. QED
      BY <2>2, <1>10 DEF ilog2
  <1>12. ASSUME NEW k \in Nat, Pow2[k] <= n
         PROVE  k <= z
    <2>1. z \in Nat
      BY <1>11
    <2>2. z + 1 <= k => Pow2[z + 1] <= Pow2[k]
      BY <2>1, Pow2Grows
    <2>3. Pow2[z + 1] \in Nat /\ Pow2[k] \in Nat
      BY <2>1, <1>3
    <2>4. ~ (z + 1 <= k)
      BY <2>2, <2>3, <1>2, <1>11, <1>12
    <2>5. QED
      BY <2>1, <2>4
  <1>13. z \in 0 .. Word - 1
    BY <1>1, <1>4, <1>11
  <1>14. QED
    BY <1>10, <1>11, <1>12, <1>13

\* Not all of IPv6, whose size leaves the word.
InRange == request.tool = "from_range" /\ ~ WholeSpace(request)

\* Up to an address the range is covered by maximal CIDRs.
CoveredTo(e) ==
    /\ Asks /\ list[1] <= list[2]
    /\ e \in list[1] .. list[2] + 1
    /\ cidrs \in Seq(CidrsOf(request.v4)) /\ Apart
    /\ \A i \in DOMAIN cidrs : cidrs[i] \in Maximal(list[1] .. list[2]) /\ LastOf(cidrs[i]) < e
    /\ \A a \in list[1] .. e - 1 : Covers(a)

RangeInv ==
    InRange =>
        /\ Asks
        /\ stage \in {"call", "start"} => cidrs = <<>>
        /\ stage = "start" => list[1] <= list[2]
        /\ stage = "run" => CoveredTo(cursor)
        /\ stage = "done" /\ reply = "ok" => CoveredTo(list[2] + 1)
        /\ stage = "done" /\ reply = "FromRangeLimitExceeded" =>
             Len(cidrs) > limit /\ \E e \in list[1] .. list[2] + 1 : CoveredTo(e)

\* What a range is.
LEMMA RangeFacts ==
    ASSUME Asks, InRange
    PROVE  /\ list[1] \in Nat /\ list[2] \in Nat /\ list[2] < Pow2[width]
           /\ width \in 1 .. Word /\ width \in Nat /\ Pow2[width] \in Nat \ {0}
           /\ Pow2[width] <= Pow2[Word] /\ MAX + 1 = Pow2[Word] /\ MAX \in Nat
           /\ limit \in Nat
           /\ list[1] > 0 \/ list[2] < MAX
PROOF
  <1>1. /\ list \in [1 .. 2 -> 0 .. Pow2[width] - 1] /\ limit \in Nat
        /\ width \in 1 .. Word /\ width = bits_of(request.v4) /\ request.v4 \in BOOLEAN
        /\ width = Word <=> ~ request.v4
    BY AsksFacts DEF InRange
  <1>2. width \in Nat /\ Word \in Nat /\ width <= Word
    BY <1>1, WordNat
  <1>3. Pow2[width] \in Nat \ {0} /\ Pow2[Word] \in Nat \ {0} /\ Pow2[width] <= Pow2[Word]
    BY <1>2, Pow2Values, Pow2Grows
  <1>4. MAX + 1 = Pow2[Word] /\ MAX \in Nat
    BY <1>3 DEF MAX
  <1>5. list[1] \in Nat /\ list[2] \in Nat /\ list[2] < Pow2[width]
    BY <1>1, <1>3
  <1>6. list[1] > 0 \/ list[2] < MAX
    <2>1. CASE request.v4
      <3>4. width # Word
        BY <1>1, <2>1, Zenon
      <3>1. width < Word
        BY <1>2, <3>4
      <3>2. Pow2[width] < Pow2[Word]
        BY <1>2, <3>1, Pow2Grows
      <3>3. QED
        BY <3>2, <1>3, <1>4, <1>5
    <2>2. CASE ~ request.v4
      <3>1. list # <<0, MAX>>
        BY <2>2 DEF InRange, WholeSpace, list
      <3>2. ~ (list[1] = 0 /\ list[2] = MAX)
        BY <3>1, <1>1
      <3>3. width = Word
        BY <1>1, <2>2
      <3>4. QED
        BY <3>2, <3>3, <1>3, <1>4, <1>5
    <2>3. QED
      BY <2>1, <2>2
  <1>7. QED
    BY <1>1, <1>2, <1>3, <1>4, <1>5, <1>6

\* The block at the cursor is the greatest that is aligned and in the range.
LEMMA BlockBits ==
    ASSUME InRange, CoveredTo(cursor), cursor <= list[2]
    PROVE  /\ block_bits \in 0 .. width /\ block_bits \in Nat /\ block_bits < Word
           /\ shl_one(block_bits) = Pow2[block_bits]
           /\ cursor % Pow2[block_bits] = 0
           /\ cursor + Pow2[block_bits] - 1 <= list[2]
           /\ \A m \in 0 .. width :
                cursor % Pow2[m] = 0 /\ cursor + Pow2[m] - 1 <= list[2] => m <= block_bits
PROOF
  <1> DEFINE size == list[2] - cursor + 1
             most == IF cursor = 0 THEN width ELSE trailing_zeros(cursor)
  <1>1. /\ list[1] \in Nat /\ list[2] \in Nat /\ list[2] < Pow2[width]
        /\ width \in 1 .. Word /\ width \in Nat /\ Pow2[width] \in Nat \ {0}
        /\ Pow2[width] <= Pow2[Word] /\ MAX + 1 = Pow2[Word] /\ MAX \in Nat
        /\ list[1] > 0 \/ list[2] < MAX
        /\ Word \in Nat
    BY RangeFacts, WordNat DEF CoveredTo
  <1>2. cursor \in Nat /\ list[1] <= cursor
    BY <1>1 DEF CoveredTo
  <1>3. size \in 1 .. MAX
    BY <1>1, <1>2
  <1>4. wrap(size) = size /\ size # 0
    <2>1. size \in 0 .. MAX
      BY <1>3, <1>1
    <2>2. QED
      BY <2>1, <1>3, <1>1, WrapSmall
  <1>5. block_bits = IF most < ilog2(size) THEN most ELSE ilog2(size)
    BY <1>4 DEF block_bits
  <1>6. /\ ilog2(size) \in 0 .. Word - 1 /\ Pow2[ilog2(size)] <= size
        /\ \A k \in Nat : Pow2[k] <= size => k <= ilog2(size)
    BY <1>3, ILog2
  <1>7. /\ most \in 0 .. Word
        /\ cursor % Pow2[most] = 0
        /\ \A k \in 0 .. width : cursor % Pow2[k] = 0 => k <= most
    <2>1. CASE cursor = 0
      <3>1. most = width /\ Pow2[most] \in Nat \ {0}
        BY <1>1, <2>1
      <3>2. 0 % Pow2[most] = 0
        BY <3>1
      <3>3. QED
        BY <3>1, <3>2, <1>1, <2>1
    <2>2. CASE cursor # 0
      <3>1. 0 < cursor /\ cursor <= MAX
        BY <2>2, <1>1, <1>2
      <3>2. /\ trailing_zeros(cursor) \in 0 .. Word - 1
            /\ cursor % Pow2[trailing_zeros(cursor)] = 0
            /\ \A k \in 0 .. Word : cursor % Pow2[k] = 0 => k <= trailing_zeros(cursor)
        BY <3>1, <1>2, TrailingZeros
      <3>3. most = trailing_zeros(cursor)
        BY <2>2
      <3> HIDE DEF most
      <3>4. QED
        BY <3>2, <3>3, <1>1
    <2>3. QED
      BY <2>1, <2>2
  <1>8. size = list[2] - cursor + 1
    OBVIOUS
  <1> HIDE DEF size, most
  <1>9. PICK b : b = block_bits
    OBVIOUS
  <1>10. b \in Nat /\ b < Word /\ b <= most /\ b <= ilog2(size)
    BY <1>1, <1>5, <1>6, <1>7, <1>9
  <1>11. most \in Nat /\ ilog2(size) \in Nat
    BY <1>1, <1>6, <1>7
  <1>12. Pow2[b] \in Nat \ {0} /\ Pow2[b] <= Pow2[ilog2(size)] /\ Pow2[ilog2(size)] \in Nat
    BY <1>10, <1>11, Pow2Values, Pow2Grows
  <1>13. Pow2[b] <= size
    BY <1>3, <1>6, <1>12, <1>1
  <1>14. cursor % Pow2[b] = 0
    BY <1>2, <1>7, <1>10, <1>11, Aligned
  <1>15. cursor + Pow2[b] - 1 <= list[2]
    BY <1>1, <1>2, <1>8, <1>12, <1>13
  <1>16. b <= width
    <2>1. ~ (width < b)
      <3>1. width < b => Pow2[width] < Pow2[b]
        BY <1>1, <1>10, Pow2Grows
      <3>2. QED
        BY <3>1, <1>1, <1>2, <1>12, <1>15
    <2>2. QED
      BY <2>1, <1>1, <1>10
  <1>17. shl_one(b) = Pow2[b]
    BY <1>10, <1>1 DEF shl_one
  <1>18. ASSUME NEW m \in 0 .. width, cursor % Pow2[m] = 0, cursor + Pow2[m] - 1 <= list[2]
         PROVE  m <= b
    <2>1. m \in Nat /\ Pow2[m] \in Nat
      BY <1>1, Pow2Values
    <2>2. Pow2[m] <= size
      BY <2>1, <1>1, <1>2, <1>8, <1>18
    <2>3. m <= most /\ m <= ilog2(size)
      BY <2>1, <2>2, <1>6, <1>7, <1>18
    <2>4. QED
      BY <2>3, <1>5, <1>9
  <1>19. b \in 0 .. width
    BY <1>10, <1>16, <1>1
  <1>20. QED
    BY <1>9, <1>10, <1>14, <1>15, <1>17, <1>18, <1>19

\* The largest CIDRs of a set stay the same during a call.
LEMMA MaximalStays ==
    ASSUME request' = request
    PROVE  /\ \A c : Addresses(c)' = Addresses(c)
           /\ \A S : Within(S)' = Within(S) /\ Maximal(S)' = Maximal(S)
           /\ \A c, d : Siblings(c, d)' = Siblings(c, d)
PROOF
  <1>1. width' = width
    BY RequestStays
  <1>2. CidrsOf(request.v4)' = CidrsOf(request.v4)
    BY RequestStays
  <1>3. \A c, a : check_contains(c, a)' = check_contains(c, a)
    BY <1>1 DEF check_contains, masked
  <1>4. \A c : Addresses(c)' = Addresses(c)
    BY <1>1, <1>3 DEF Addresses
  <1>5. \A S : Within(S)' = Within(S)
    BY <1>2, <1>4 DEF Within
  <1>6. \A S : Maximal(S)' = Maximal(S)
    BY <1>4, <1>5 DEF Maximal
  <1>7. \A c, d : Siblings(c, d)' = Siblings(c, d)
    BY <1>1 DEF Siblings, Parent, masked
  <1>8. QED
    BY <1>4, <1>5, <1>6, <1>7

\* The block at the cursor is one of the largest of the range.
LEMMA BlockMaximal ==
    ASSUME InRange, CoveredTo(cursor), cursor <= list[2],
           NEW c, c = <<cursor, width - block_bits>>
    PROVE  /\ c \in CidrsOf(request.v4) /\ c \in Maximal(list[1] .. list[2])
           /\ c[1] = cursor /\ LastOf(c) = cursor + Pow2[block_bits] - 1
           /\ LastOf(c) <= list[2]
PROOF
  <1> DEFINE S == list[1] .. list[2]
  <1>1. /\ list[1] \in Nat /\ list[2] \in Nat /\ list[2] < Pow2[width]
        /\ width \in Nat /\ Pow2[width] \in Nat \ {0}
    BY RangeFacts DEF CoveredTo
  <1>2. cursor \in Nat /\ list[1] <= cursor /\ Asks
    BY <1>1 DEF CoveredTo
  <1>3. PICK b : b = block_bits
    OBVIOUS
  <1>4. /\ b \in 0 .. width /\ b \in Nat /\ cursor % Pow2[b] = 0
        /\ cursor + Pow2[b] - 1 <= list[2]
        /\ \A m \in 0 .. width :
             cursor % Pow2[m] = 0 /\ cursor + Pow2[m] - 1 <= list[2] => m <= b
    BY <1>3, BlockBits
  <1>5. c[1] = cursor /\ c[2] = width - b /\ width - c[2] = b /\ c[2] \in 0 .. width
    BY <1>1, <1>3, <1>4
  <1>6. LastOf(c) = cursor + Pow2[b] - 1 /\ Pow2[b] \in Nat \ {0}
    BY <1>4, <1>5, Pow2Values DEF LastOf
  <1>7. c \in CidrsOf(request.v4)
    <2>1. cursor \in 0 .. Pow2[width] - 1
      BY <1>1, <1>2
    <2>2. c \in (0 .. Pow2[width] - 1) \X (0 .. width)
      BY <2>1, <1>3, <1>5
    <2>3. c[1] % Pow2[width - c[2]] = 0
      BY <1>4, <1>5
    <2>4. width = bits_of(request.v4) /\ request.v4 \in BOOLEAN
      BY <1>2, AsksFacts
    <2>5. QED
      BY <2>2, <2>3, <2>4, PairsForm
  <1>8. Addresses(c) = c[1] .. LastOf(c)
    BY <1>2, <1>7, AddressesAre
  <1>9. c \in Within(S)
    <2>3. /\ LastOf(c) <= list[2] /\ LastOf(c) \in Int /\ list[2] \in Int
          /\ list[1] <= c[1] /\ c[1] \in Int /\ list[1] \in Int
      BY <1>1, <1>2, <1>4, <1>5, <1>6
    <2>1. Addresses(c) \subseteq S
      BY <2>3, <1>8
    <2>2. QED
      BY <2>1, <1>7 DEF Within
  <1>10. ASSUME NEW d \in Within(S), Addresses(c) \subseteq Addresses(d)
         PROVE  c = d
    <2>1. d \in CidrsOf(request.v4) /\ Addresses(d) \subseteq S
      BY DEF Within
    <2>2. d[1] <= c[1] /\ LastOf(c) <= LastOf(d)
      BY <2>1, <1>2, <1>7, <1>10, SubsetIs
    <2>3. /\ d[1] \in Nat /\ d[2] \in 0 .. width /\ LastOf(d) \in Nat /\ d[1] <= LastOf(d)
          /\ d[1] % Pow2[width - d[2]] = 0
          /\ LastOf(d) = d[1] + Pow2[width - d[2]] - 1
      BY <2>1, <1>2, PairFacts DEF LastOf
    <2>4. Addresses(d) = d[1] .. LastOf(d)
      BY <2>1, <1>2, AddressesAre
    <2>5. d[1] \in S /\ LastOf(d) \in S
      BY <2>1, <2>3, <2>4
    <2>6. list[1] <= d[1] /\ LastOf(d) <= list[2]
      BY <2>5
    <2>7. CASE d[1] = cursor
      <3> DEFINE m == width - d[2]
      <3>1. m \in 0 .. width /\ m \in Nat
        BY <2>3, <1>1
      <3>2. m <= b
        BY <3>1, <2>3, <2>6, <2>7, <1>4
      <3>3. Pow2[m] <= Pow2[b] /\ Pow2[m] \in Nat
        BY <3>1, <3>2, <1>4, Pow2Grows, Pow2Values
      <3>4. LastOf(d) = cursor + Pow2[m] - 1
        BY <2>3, <2>7
      <3> HIDE DEF m
      <3>5. LastOf(d) <= LastOf(c)
        BY <3>3, <3>4, <1>2, <1>6
      <3>6. c[1] <= d[1]
        BY <2>3, <2>7, <1>5
      <3>7. QED
        BY <3>5, <3>6, <2>1, <2>2, <1>2, <1>7, PairsInside
    <2>8. CASE d[1] # cursor
      <3>1. d[1] < cursor /\ d[1] \in list[1] .. cursor - 1
        BY <2>2, <2>3, <2>6, <2>8, <1>1, <1>2, <1>5
      <3>2. PICK i \in DOMAIN cidrs : cidrs[i][1] <= d[1] /\ d[1] <= LastOf(cidrs[i])
        BY <3>1 DEF CoveredTo, Covers
      <3>3. /\ cidrs[i] \in CidrsOf(request.v4) /\ cidrs[i] \in Maximal(S)
            /\ LastOf(cidrs[i]) < cursor
        BY DEF CoveredTo
      <3>4. cidrs[i][1] \in Nat /\ LastOf(cidrs[i]) \in Nat
        BY <3>3, <1>2, PairFacts
      <3>5. cidrs[i][1] <= LastOf(d)
        BY <3>2, <3>4, <2>3
      <3>6. LastOf(d) <= LastOf(cidrs[i])
        BY <3>2, <3>3, <3>5, <1>2, MaximalMeet
      <3>7. cursor <= LastOf(c)
        BY <1>2, <1>6
      <3>8. LastOf(c) \in Nat
        BY <1>2, <1>6
      <3>9. FALSE
        BY <3>3, <3>4, <3>6, <3>7, <3>8, <2>2, <2>3, <1>2
      <3>10. QED
        BY <3>9
    <2>9. QED
      BY <2>7, <2>8
  <1>11. c \in Maximal(S)
    BY <1>9, <1>10 DEF Maximal
  <1>12. QED
    BY <1>3, <1>4, <1>5, <1>6, <1>7, <1>11

\* With it the range is covered so much further.
LEMMA CoverAppended ==
    ASSUME InRange, CoveredTo(cursor), cursor <= list[2], request' = request,
           NEW c, c = <<cursor, width - block_bits>>, cidrs' = Append(cidrs, c),
           NEW e, e = cursor + Pow2[block_bits]
    PROVE  CoveredTo(e)' /\ e \in list[1] .. list[2] + 1
PROOF
  <1> DEFINE n == Len(cidrs)
  <1>1. PICK S : S = list[1] .. list[2]
    OBVIOUS
  <1>2. /\ list[1] \in Nat /\ list[2] \in Nat /\ list[1] <= cursor /\ cursor \in Nat
        /\ list[1] <= list[2]
        /\ Asks /\ cidrs \in Seq(CidrsOf(request.v4)) /\ Apart
        /\ \A i \in DOMAIN cidrs : cidrs[i] \in Maximal(S) /\ LastOf(cidrs[i]) < cursor
        /\ \A a \in list[1] .. cursor - 1 : Covers(a)
    <2>1. list[1] \in Nat /\ list[2] \in Nat
      BY RangeFacts DEF CoveredTo
    <2>2. QED
      BY <2>1, <1>1 DEF CoveredTo
  <1>3. /\ width' = width /\ list' = list /\ Asks'
        /\ CidrsOf(request.v4)' = CidrsOf(request.v4)
        /\ \A d : LastOf(d)' = LastOf(d)
        /\ \A T : Maximal(T)' = Maximal(T)
    BY <1>2, RequestStays, MaximalStays
  <1>4. /\ c \in CidrsOf(request.v4) /\ c \in Maximal(S)
        /\ c[1] = cursor /\ LastOf(c) = cursor + Pow2[block_bits] - 1
        /\ LastOf(c) <= list[2]
    BY <1>1, BlockMaximal
  <1>5. Pow2[block_bits] \in Nat \ {0}
    BY BlockBits, Pow2Values
  <1>6. e \in Nat /\ e \in list[1] .. list[2] + 1 /\ cursor < e /\ LastOf(c) = e - 1
    <2>1. /\ list[1] \in Nat /\ list[2] \in Nat /\ list[1] <= cursor /\ cursor \in Nat
          /\ LastOf(c) = cursor + Pow2[block_bits] - 1 /\ LastOf(c) <= list[2]
          /\ e = cursor + Pow2[block_bits]
      BY <1>2, <1>4
    <2>2. QED
      BY ONLY <2>1, <1>5
  <1>7. /\ cidrs' \in Seq(CidrsOf(request.v4)) /\ Len(cidrs') = n + 1 /\ n \in Nat
        /\ cidrs'[n + 1] = c /\ \A i \in 1 .. n : cidrs'[i] = cidrs[i]
        /\ DOMAIN cidrs' = 1 .. n + 1 /\ DOMAIN cidrs = 1 .. n
    BY <1>2, <1>4
  <1> HIDE DEF n
  <1>8. \A i \in 1 .. n : LastOf(cidrs[i]) < cursor /\ LastOf(cidrs[i]) \in Nat
    <2> SUFFICES ASSUME NEW i \in 1 .. n
                 PROVE  LastOf(cidrs[i]) < cursor /\ LastOf(cidrs[i]) \in Nat
      OBVIOUS
    <2>1. cidrs[i] \in CidrsOf(request.v4)
      BY <1>2, <1>7
    <2>2. QED
      BY <2>1, <1>2, <1>7, PairFacts
  <1>9. \A i \in 1 .. n + 1 : cidrs'[i] \in Maximal(S) /\ LastOf(cidrs'[i]) < e
    <2> SUFFICES ASSUME NEW i \in 1 .. n + 1
                 PROVE  cidrs'[i] \in Maximal(S) /\ LastOf(cidrs'[i]) < e
      OBVIOUS
    <2>1. CASE i \in 1 .. n
      <3>1. cidrs'[i] = cidrs[i] /\ cidrs[i] \in Maximal(S)
        BY <2>1, <1>2, <1>7
      <3>2. LastOf(cidrs[i]) < cursor /\ LastOf(cidrs[i]) \in Nat
        BY <2>1, <1>8
      <3>3. cursor \in Nat /\ e \in Nat /\ cursor < e
        BY <1>2, <1>6
      <3>4. LastOf(cidrs[i]) < e
        BY ONLY <3>2, <3>3
      <3>5. QED
        BY ONLY <3>1, <3>4
    <2>2. CASE i \notin 1 .. n
      <3>1. i = n + 1
        BY <2>2, <1>7
      <3>2. cidrs'[i] = c
        BY <3>1, <1>7
      <3>3. LastOf(c) < e
        BY <1>6
      <3>4. QED
        BY <3>2, <3>3, <1>4
    <2>3. QED
      BY <2>1, <2>2
  <1>10. \A i, j \in 1 .. n + 1 : i < j => LastOf(cidrs'[i]) < cidrs'[j][1]
    <2> SUFFICES ASSUME NEW i \in 1 .. n + 1, NEW j \in 1 .. n + 1, i < j
                 PROVE  LastOf(cidrs'[i]) < cidrs'[j][1]
      OBVIOUS
    <2>1. i \in 1 .. n
      BY <1>7
    <2>2. cidrs'[i] = cidrs[i]
      BY <2>1, <1>7
    <2>3. CASE j \in 1 .. n
      <3>1. cidrs'[j] = cidrs[j]
        BY <2>3, <1>7
      <3>2. LastOf(cidrs[i]) < cidrs[j][1]
        BY <2>1, <2>3, <1>2, <1>7 DEF Apart
      <3>3. QED
        BY <2>2, <3>1, <3>2
    <2>4. CASE j \notin 1 .. n
      <3>1. j = n + 1
        BY <2>4, <1>7
      <3>2. QED
        BY <2>1, <2>2, <3>1, <1>4, <1>7, <1>8
    <2>5. QED
      BY <2>3, <2>4
  <1>11. ASSUME NEW a \in list[1] .. e - 1
         PROVE  \E i \in 1 .. n + 1 : cidrs'[i][1] <= a /\ a <= LastOf(cidrs'[i])
    <2>1. a \in Nat /\ a <= e - 1
      BY <1>2, <1>6
    <2>2. CASE a < cursor
      <3>1. a \in list[1] .. cursor - 1
        BY <2>1, <2>2, <1>2
      <3>2. PICK i \in 1 .. n : cidrs[i][1] <= a /\ a <= LastOf(cidrs[i])
        BY <3>1, <1>2, <1>7 DEF Covers
      <3>3. i \in 1 .. n + 1 /\ cidrs'[i] = cidrs[i]
        BY <1>7
      <3>4. QED
        BY <3>2, <3>3
    <2>3. CASE ~ (a < cursor)
      <3>1. n + 1 \in 1 .. n + 1
        BY <1>7
      <3>2. cidrs'[n + 1] = c /\ c[1] <= a /\ a <= LastOf(c)
        BY <2>1, <2>3, <1>2, <1>4, <1>6, <1>7
      <3>3. QED
        BY <3>1, <3>2
    <2>4. QED
      BY <2>2, <2>3
  <1>12. Apart'
    BY <1>3, <1>7, <1>10 DEF Apart
  <1>13. \A a \in list[1] .. e - 1 : Covers(a)'
    BY <1>3, <1>7, <1>11 DEF Covers
  <1>14. cidrs' \in Seq(CidrsOf(request.v4)')
    BY <1>3, <1>7
  <1>15. (\A i \in DOMAIN cidrs :
            cidrs[i] \in Maximal(list[1] .. list[2]) /\ LastOf(cidrs[i]) < e)'
    <2>1. Maximal(list[1] .. list[2])' = Maximal(S)
      BY <1>1, <1>3
    <2>2. \A d : LastOf(d)' = LastOf(d)
      BY <1>3
    <2>3. QED
      BY <2>1, <2>2, <1>7, <1>9
  <1>16. CoveredTo(e)'
    BY <1>2, <1>3, <1>6, <1>12, <1>13, <1>14, <1>15 DEF CoveredTo
  <1>17. QED
    BY <1>6, <1>16

\* What does not touch the CIDRs keeps the range covered as far.
LEMMA CoverQuiet ==
    ASSUME UNCHANGED <<request, cidrs>>, NEW e
    PROVE  CoveredTo(e) => CoveredTo(e)'
PROOF
  <1>1. /\ list' = list /\ (Asks' <=> Asks) /\ cidrs' = cidrs
        /\ CidrsOf(request.v4)' = CidrsOf(request.v4)
        /\ \A d : LastOf(d)' = LastOf(d)
        /\ \A T : Maximal(T)' = Maximal(T)
    BY RequestStays, MaximalStays
  <1>2. Apart' <=> Apart
    BY <1>1 DEF Apart
  <1>3. \A a : Covers(a)' <=> Covers(a)
    BY <1>1 DEF Covers
  <1>4. QED
    BY <1>1, <1>2, <1>3 DEF CoveredTo

\* A call for a range begins with nothing covered.
LEMMA RangeInit == ASSUME CalcInit PROVE RangeInv
BY CallAsks DEF CalcInit, RangeInv

\* Nothing has to be covered before the first address.
LEMMA CoverNothing ==
    ASSUME Asks, InRange, cidrs = <<>>, list[1] <= list[2]
    PROVE  CoveredTo(list[1])
PROOF
  <1>1. list[1] \in Nat /\ list[2] \in Nat
    BY RangeFacts
  <1>2. list[1] \in list[1] .. list[2] + 1 /\ list[1] .. list[1] - 1 = {}
    BY <1>1
  <1>3. cidrs \in Seq(CidrsOf(request.v4)) /\ DOMAIN cidrs = {}
    OBVIOUS
  <1>4. QED
    BY <1>2, <1>3 DEF CoveredTo, Apart

\* A block is added to the cover, which may end with it.
LEMMA CoverNextStep ==
    ASSUME RangeInv, InRange, CoverNext
    PROVE  RangeInv'
PROOF
  <1>1. /\ Doing("from_range", "run") /\ cursor <= list[2] /\ Len(cidrs) <= limit
        /\ request' = request
    BY DEF CoverNext
  <1>2. CoveredTo(cursor) /\ Asks
    BY <1>1 DEF RangeInv, Doing
  <1>3. PICK c : c = <<cursor, width - block_bits>>
    OBVIOUS
  <1>4. PICK e : e = cursor + Pow2[block_bits]
    OBVIOUS
  <1>5. cidrs' = Append(cidrs, c)
    BY <1>3 DEF CoverNext
  <1>6. CoveredTo(e)' /\ e \in list[1] .. list[2] + 1
    BY <1>1, <1>2, <1>3, <1>4, <1>5, CoverAppended
  <1>7. /\ list[1] \in Nat /\ list[2] \in Nat /\ list[2] < Pow2[width]
        /\ Pow2[width] \in Nat
    BY <1>2, RangeFacts
  <1>8. shl_one(block_bits) = Pow2[block_bits]
    BY <1>1, <1>2, BlockBits
  <1>9. \/ e > Pow2[width] - 1 /\ RangeAnswer(cidrs')
        \/ cursor' = e /\ stage' = stage /\ reply' = reply
    BY <1>4, <1>8 DEF CoverNext
  <1>10. list' = list /\ limit' = limit /\ Asks' /\ width' = width
    BY <1>1, <1>2, RequestStays
  <1>11. CASE e > Pow2[width] - 1 /\ RangeAnswer(cidrs')
    <2>1. e = list[2] + 1
      BY <1>6, <1>7, <1>11
    <2>2. stage' = "done"
      BY <1>11 DEF RangeAnswer, Answer
    <2>3. \/ reply' = "FromRangeLimitExceeded" /\ Len(cidrs') > limit
          \/ reply' = "ok"
      BY <1>11 DEF RangeAnswer, Answer
    <2>4. (\E f \in list[1] .. list[2] + 1 : CoveredTo(f))'
      BY <1>6, <1>10
    <2>5. CoveredTo(list[2] + 1)'
      BY <2>1, <1>6, <1>10
    <2>6. QED
      BY <2>2, <2>3, <2>4, <2>5, <1>10 DEF RangeInv
  <1>12. CASE cursor' = e /\ stage' = stage /\ reply' = reply
    <2>1. stage' = "run"
      BY <1>1, <1>12 DEF Doing
    <2>2. CoveredTo(cursor)'
      BY <1>6, <1>12
    <2>3. QED
      BY <2>1, <2>2, <1>10 DEF RangeInv
  <1>13. QED
    BY <1>9, <1>11, <1>12

\* A step of the call keeps what it has found a cover.
LEMMA RangeStep ==
    ASSUME RangeInv, CalcNext
    PROVE  RangeInv'
PROOF
  <1>1. request' = request
    BY CallKeepsRequest
  <1>2. (InRange' <=> InRange) /\ list' = list /\ limit' = limit /\ (Asks' <=> Asks)
    BY <1>1, RequestStays DEF InRange
  <1> SUFFICES ASSUME InRange
               PROVE  RangeInv'
    BY <1>2 DEF RangeInv
  <1>3. Asks /\ request.tool = "from_range"
    BY DEF RangeInv, InRange
  <1>4. CASE Call
    <2>1. /\ UNCHANGED <<request, cidrs>> /\ stage = "call" /\ reply' = Refusal
          /\ stage' = IF Refusal = "ok" THEN "start" ELSE "done"
      BY <1>4 DEF Call
    <2>2. cidrs' = <<>>
      BY <2>1 DEF RangeInv
    <2>3. Refusal = IF list[1] > list[2] THEN "InvalidRange" ELSE "ok"
      BY <1>3 DEF Refusal
    <2>4. list[1] \in Nat /\ list[2] \in Nat
      BY <1>3, RangeFacts
    <2>5. CASE list[1] > list[2]
      <3>1. stage' = "done" /\ reply' = "InvalidRange"
        BY <2>1, <2>3, <2>5
      <3>2. QED
        BY <3>1, <1>2, <1>3 DEF RangeInv
    <2>6. CASE ~ (list[1] > list[2])
      <3>1. stage' = "start" /\ list[1] <= list[2]
        BY <2>1, <2>3, <2>4, <2>6
      <3>2. QED
        BY <2>2, <3>1, <1>2, <1>3 DEF RangeInv
    <2>7. QED
      BY <2>5, <2>6
  <1>5. CASE StartRange
    <2>1. /\ UNCHANGED <<request, cidrs>> /\ stage = "start" /\ stage' = "run"
          /\ cursor' = list[1]
      BY <1>5 DEF StartRange, Doing
    <2>2. PICK e : e = list[1]
      OBVIOUS
    <2>3. CoveredTo(e)
      BY <2>1, <2>2, <1>3, CoverNothing DEF RangeInv
    <2>4. CoveredTo(e)'
      BY <2>1, <2>3, CoverQuiet
    <2>5. CoveredTo(cursor)'
      BY <2>1, <2>2, <2>4
    <2>6. QED
      BY <2>1, <2>5, <1>2, <1>3 DEF RangeInv
  <1>6. CASE CoverNext
    BY <1>6, CoverNextStep
  <1>7. CASE RangeCovered
    <2>1. /\ UNCHANGED <<request, cidrs>> /\ stage = "run" /\ RangeAnswer(cidrs)
          /\ cursor > list[2] \/ Len(cidrs) > limit
      BY <1>7 DEF RangeCovered, Doing
    <2>2. PICK e : e = cursor
      OBVIOUS
    <2>3. CoveredTo(e)
      BY <2>1, <2>2 DEF RangeInv
    <2>4. CoveredTo(e)' /\ e \in list[1] .. list[2] + 1
      BY <2>1, <2>3, CoverQuiet DEF CoveredTo
    <2>5. list[1] \in Nat /\ list[2] \in Nat
      BY <1>3, RangeFacts
    <2>6. stage' = "done"
      BY <2>1 DEF RangeAnswer, Answer
    <2>7. CASE Len(cidrs) > limit
      <3>1. reply' = "FromRangeLimitExceeded" /\ Len(cidrs') > limit'
        BY <2>1, <2>7, <1>2 DEF RangeAnswer, Answer
      <3>2. (\E f \in list[1] .. list[2] + 1 : CoveredTo(f))'
        BY <2>4, <1>2
      <3>3. QED
        BY <2>6, <3>1, <3>2, <1>2, <1>3 DEF RangeInv
    <2>8. CASE ~ (Len(cidrs) > limit)
      <3>1. reply' = "ok" /\ e > list[2]
        BY <2>1, <2>2, <2>8 DEF RangeAnswer, Answer
      <3>2. e = list[2] + 1
        BY <3>1, <2>4, <2>5
      <3>3. CoveredTo(list[2] + 1)'
        BY <3>2, <2>4, <1>2
      <3>4. QED
        BY <2>6, <3>1, <3>3, <1>2, <1>3 DEF RangeInv
    <2>9. QED
      BY <2>7, <2>8
  <1>8. CASE StartCarving \/ Carve \/ RefuseToCarve \/ Carved \/ Normalize \/ Keep
             \/ StartMerging \/ MergeNext \/ Merged \/ Generate \/ Root \/ Branch \/ Grown
    BY <1>3, <1>8 DEF StartCarving, Carve, RefuseToCarve, Carved, Carving, Normalize, Keep,
       StartMerging, MergeNext, Merged, Generate, Root, Branch, Grown, Doing
  <1>9. QED
    BY <1>4, <1>5, <1>6, <1>7, <1>8 DEF CalcNext

\* A range that is covered is covered exactly.
LEMMA RangeCoveredExactly ==
    ASSUME RangeInv, InRange
    PROVE  ExactCover
PROOF
  <1> SUFFICES ASSUME stage = "done"
               PROVE  /\ reply = "ok" => Ordered /\ ToSet(cidrs) = Maximal(Whole)
                      /\ reply = "FromRangeLimitExceeded" => Cardinality(Maximal(Whole)) > limit
    BY DEF ExactCover
  <1>1. Asks /\ Whole = list[1] .. list[2]
    BY DEF RangeInv, InRange, Whole
  <1>2. list[1] \in Nat /\ list[2] \in Nat /\ limit \in Nat
    BY <1>1, RangeFacts
  <1>3. PICK S : S = list[1] .. list[2]
    OBVIOUS
  <1>4. ASSUME reply = "ok"
        PROVE  Ordered /\ ToSet(cidrs) = Maximal(Whole)
    <2>1. CoveredTo(list[2] + 1)
      BY <1>4 DEF RangeInv
    <2>2. (list[2] + 1) - 1 = list[2]
      BY <1>2
    <2>3. /\ cidrs \in Seq(CidrsOf(request.v4)) /\ Apart
          /\ \A i \in DOMAIN cidrs : cidrs[i] \in Maximal(S)
      BY <2>1, <1>3 DEF CoveredTo
    <2>4. \A a \in S : Covers(a)
      BY <2>1, <2>2, <1>3 DEF CoveredTo
    <2>5. QED
      BY <2>3, <2>4, <1>1, <1>3, Exactly
  <1>5. ASSUME reply = "FromRangeLimitExceeded"
        PROVE  Cardinality(Maximal(Whole)) > limit
    <2>1. PICK e \in list[1] .. list[2] + 1 : CoveredTo(e)
      BY <1>5 DEF RangeInv
    <2>2. Len(cidrs) > limit
      BY <1>5 DEF RangeInv
    <2>3. /\ cidrs \in Seq(CidrsOf(request.v4)) /\ Apart
          /\ \A i \in DOMAIN cidrs : cidrs[i] \in Maximal(S)
      BY <2>1, <1>3 DEF CoveredTo
    <2>4. IsFiniteSet(ToSet(cidrs)) /\ Cardinality(ToSet(cidrs)) = Len(cidrs)
      BY <2>3, <1>1, FoundCount
    <2>5. ToSet(cidrs) \subseteq Maximal(S)
      BY <2>3 DEF ToSet
    <2>6. IsFiniteSet(Maximal(S))
      <3>1. Maximal(S) \subseteq CidrsOf(request.v4)
        BY DEF Maximal, Within
      <3>2. QED
        BY <3>1, <1>1, CidrsFinite, FS_Subset
    <2>7. /\ Cardinality(ToSet(cidrs)) <= Cardinality(Maximal(S))
          /\ Cardinality(Maximal(S)) \in Nat
      BY <2>5, <2>6, FS_Subset, FS_CardinalityType
    <2>8. Len(cidrs) \in Nat
      BY <2>3
    <2>9. Cardinality(Maximal(S)) > limit
      BY <2>2, <2>4, <2>7, <2>8, <1>2
    <2>10. QED
      BY <2>9, <1>1, <1>3
  <1>6. QED
    BY <1>4, <1>5

-----------------------------------------------------------------------------
(* summarize_entries.                                                      *)

\* The addresses that some CIDRs have together.
Space(S) == UNION {Addresses(c) : c \in S}

\* The parent of a CIDR is that CIDR and one of its size next to it.
LEMMA ParentIs ==
    ASSUME Asks, NEW c \in CidrsOf(request.v4), c[2] > 0
    PROVE  /\ Parent(c) \in CidrsOf(request.v4) /\ Parent(c)[2] = c[2] - 1
           /\ LastOf(Parent(c)) = Parent(c)[1] + 2 * Pow2[width - c[2]] - 1
           /\ \/ c[1] = Parent(c)[1]
              \/ c[1] = Parent(c)[1] + Pow2[width - c[2]]
           /\ \A b \in CidrsOf(request.v4) :
                b[2] = c[2] /\ Parent(c)[1] <= b[1] /\ b[1] <= LastOf(Parent(c)) =>
                  Parent(b) = Parent(c)
PROOF
  <1> DEFINE k == width - c[2]
             s == Pow2[k]
             z == Pow2[k + 1]
             a == c[1]
             f == a - (a % z)
             p == <<f, c[2] - 1>>
  <1>1. /\ a \in Nat /\ c[2] \in 0 .. width /\ width \in Nat /\ k \in 0 .. width
        /\ s \in Nat \ {0} /\ a % s = 0 /\ Pow2[width] \in Nat \ {0}
        /\ a <= LastOf(c) /\ LastOf(c) \in Nat /\ LastOf(c) < Pow2[width]
    BY PairFacts
  <1>2. /\ c[2] - 1 \in 0 .. width /\ width - (c[2] - 1) = k + 1 /\ k \in Nat
        /\ a \in 0 .. Pow2[width] - 1
    BY <1>1
  <1>3. z = 2 * s
    BY <1>2, Pow2Values
  <1>4. ASSUME NEW x \in 0 .. Pow2[width] - 1
        PROVE  masked(x, c[2] - 1) = x - (x % z)
    BY <1>2, MaskedIs
  <1>5. Parent(c) = p
    BY <1>2, <1>4 DEF Parent
  <1> HIDE DEF s, a
  <1>6. z \in Nat \ {0}
    BY <1>1, <1>3
  <1> HIDE DEF z
  <1>7. f \in Nat /\ f % z = 0 /\ f <= a /\ a < f + z
    BY <1>1, <1>6, Floor
  <1> HIDE DEF f
  <1>8. a = f \/ a = f + s
    <2>1. f % s = 0
      <3>1. k + 1 \in Nat /\ k <= k + 1
        BY <1>2
      <3>2. QED
        BY <3>1, <1>2, <1>7, Aligned DEF s, z
    <2>2. s % s = 0 /\ (f + s) % s = 0
      <3>1. s % s = 0
        BY <1>1
      <3>2. QED
        BY <3>1, <2>1, <1>1, <1>7, MultiplesSum
    <2>3. f < a => f + s <= a
      BY <2>1, <1>1, <1>7, NextMultiple
    <2>4. f + s < a => (f + s) + s <= a
      <3>1. f + s \in Nat
        BY <1>1, <1>7
      <3>2. QED
        BY <2>2, <3>1, <1>1, NextMultiple
    <2>5. QED
      BY <2>3, <2>4, <1>1, <1>3, <1>7
  <1>9. p[1] = f /\ p[2] = c[2] - 1 /\ LastOf(p) = f + z - 1
    BY <1>2 DEF LastOf, z
  <1>10. p \in CidrsOf(request.v4)
    <2>1. width = bits_of(request.v4) /\ request.v4 \in BOOLEAN
      BY AsksFacts
    <2>2. f \in 0 .. Pow2[width] - 1
      BY <1>2, <1>7, <1>1
    <2>3. p \in (0 .. Pow2[width] - 1) \X (0 .. width)
      BY <2>2, <1>2
    <2>4. p[1] % Pow2[width - p[2]] = 0
      BY <1>2, <1>7, <1>9 DEF z
    <2> HIDE DEF p
    <2>5. QED
      BY <2>1, <2>3, <2>4, PairsForm
  <1>11. ASSUME NEW b \in CidrsOf(request.v4), b[2] = c[2], f <= b[1], b[1] <= f + z - 1
         PROVE  Parent(b) = p
    <2>1. b[1] \in Nat /\ b[1] <= LastOf(b) /\ LastOf(b) \in Nat /\ LastOf(b) < Pow2[width]
      BY PairFacts
    <2>2. b[1] \in 0 .. Pow2[width] - 1
      BY <2>1, <1>1
    <2>3. b[1] < f + z
      BY <2>1, <1>6, <1>7, <1>11
    <2>4. b[1] - (b[1] % z) = f
      BY <2>1, <2>3, <1>6, <1>7, <1>11, Floor
    <2>5. masked(b[1], b[2] - 1) = f
      BY <2>2, <2>4, <1>4, <1>11
    <2>6. QED
      BY <2>5, <1>11 DEF Parent
  <1>12. LastOf(p) = f + 2 * s - 1
    BY <1>3, <1>9
  <1> HIDE DEF p
  <1>13. QED
    BY <1>5, <1>8, <1>9, <1>10, <1>11, <1>12 DEF s, a

\* Siblings that do not overlap are the two halves of their parent.
LEMMA SiblingsJoin ==
    ASSUME Asks, NEW c \in CidrsOf(request.v4), NEW d \in CidrsOf(request.v4),
           Siblings(c, d), LastOf(c) < d[1]
    PROVE  /\ Parent(c) \in CidrsOf(request.v4)
           /\ Addresses(Parent(c)) = Addresses(c) \cup Addresses(d)
PROOF
  <1>1. PICK p : p = Parent(c)
    OBVIOUS
  <1>2. PICK s : s = Pow2[width - c[2]]
    OBVIOUS
  <1>3. c[2] = d[2] /\ c[2] > 0 /\ Parent(d) = p
    BY <1>1 DEF Siblings
  <1>4. /\ p \in CidrsOf(request.v4) /\ LastOf(p) = p[1] + 2 * s - 1
        /\ c[1] = p[1] \/ c[1] = p[1] + s
        /\ d[1] = p[1] \/ d[1] = p[1] + s
    BY <1>1, <1>2, <1>3, ParentIs
  <1>5. /\ c[1] \in Nat /\ LastOf(c) = c[1] + s - 1 /\ s \in Nat \ {0}
        /\ d[1] \in Nat /\ LastOf(d) = d[1] + s - 1 /\ p[1] \in Nat
    BY <1>2, <1>3, <1>4, PairFacts DEF LastOf
  <1>6. c[1] = p[1] /\ d[1] = p[1] + s
    BY <1>4, <1>5
  <1>7. /\ Addresses(c) = c[1] .. LastOf(c) /\ Addresses(d) = d[1] .. LastOf(d)
        /\ Addresses(p) = p[1] .. LastOf(p)
    BY <1>4, AddressesAre
  <1>8. p[1] .. p[1] + 2 * s - 1 = (p[1] .. p[1] + s - 1) \cup (p[1] + s .. p[1] + s + s - 1)
    BY <1>5
  <1>9. Addresses(p) = Addresses(c) \cup Addresses(d)
    BY <1>4, <1>5, <1>6, <1>7, <1>8
  <1>10. QED
    BY <1>1, <1>4, <1>9

\* Of CIDRs in order, one that begins where another ends is the next.
LEMMA NextDoor ==
    ASSUME Asks, cidrs \in Seq(CidrsOf(request.v4)), Apart,
           NEW u \in DOMAIN cidrs, NEW v \in DOMAIN cidrs,
           LastOf(cidrs[u]) + 1 = cidrs[v][1]
    PROVE  u + 1 \in DOMAIN cidrs /\ v = u + 1
PROOF
  <1>1. DOMAIN cidrs = 1 .. Len(cidrs) /\ Len(cidrs) \in Nat /\ u \in Nat /\ v \in Nat
    OBVIOUS
  <1>2. \A i \in DOMAIN cidrs : /\ cidrs[i][1] \in Nat /\ LastOf(cidrs[i]) \in Nat
                                /\ cidrs[i][1] <= LastOf(cidrs[i])
    <2> SUFFICES ASSUME NEW i \in DOMAIN cidrs
                 PROVE  /\ cidrs[i][1] \in Nat /\ LastOf(cidrs[i]) \in Nat
                        /\ cidrs[i][1] <= LastOf(cidrs[i])
      OBVIOUS
    <2>1. cidrs[i] \in CidrsOf(request.v4)
      OBVIOUS
    <2>2. QED
      BY <2>1, PairFacts
  <1>3. ~ (v < u)
    <2>1. v < u => LastOf(cidrs[v]) < cidrs[u][1]
      BY DEF Apart
    <2>2. /\ cidrs[u][1] \in Nat /\ LastOf(cidrs[u]) \in Nat /\ cidrs[v][1] \in Nat
          /\ LastOf(cidrs[v]) \in Nat /\ cidrs[u][1] <= LastOf(cidrs[u])
          /\ cidrs[v][1] <= LastOf(cidrs[v])
      BY <1>2
    <2>3. QED
      BY <2>1, <2>2
  <1>4. v # u
    <2>1. cidrs[u][1] \in Nat /\ LastOf(cidrs[u]) \in Nat /\ cidrs[u][1] <= LastOf(cidrs[u])
      BY <1>2
    <2>2. QED
      BY <2>1
  <1>5. u < v /\ u + 1 \in DOMAIN cidrs
    BY <1>1, <1>3, <1>4
  <1>6. ~ (u + 1 < v)
    <2>1. LastOf(cidrs[u]) < cidrs[u + 1][1]
      <3>1. u < u + 1
        BY <1>1
      <3>2. QED
        BY <3>1, <1>5 DEF Apart
    <2>2. u + 1 < v => LastOf(cidrs[u + 1]) < cidrs[v][1]
      BY <1>5 DEF Apart
    <2>3. /\ cidrs[u + 1][1] \in Nat /\ LastOf(cidrs[u + 1]) \in Nat
          /\ cidrs[u + 1][1] <= LastOf(cidrs[u + 1]) /\ LastOf(cidrs[u]) \in Nat
          /\ cidrs[v][1] \in Nat
      BY <1>2, <1>5
    <2>4. QED
      BY <2>1, <2>2, <2>3
  <1>7. QED
    BY <1>1, <1>5, <1>6

\* CIDRs in order of which no two neighbours are siblings are the largest ones
\* of the addresses they have together.
LEMMA NoSiblingsMaximal ==
    ASSUME Asks, cidrs \in Seq(CidrsOf(request.v4)), Apart,
           NEW S, S = Space(ToSet(cidrs)),
           \A i \in DOMAIN cidrs : i + 1 \in DOMAIN cidrs => ~ Siblings(cidrs[i], cidrs[i + 1]),
           NEW i \in DOMAIN cidrs
    PROVE  cidrs[i] \in Maximal(S)
PROOF
  <1> DEFINE D == DOMAIN cidrs
  <1>1. D = 1 .. Len(cidrs) /\ Len(cidrs) \in Nat
    OBVIOUS
  <1>2. ASSUME NEW j \in D
        PROVE  /\ cidrs[j] \in CidrsOf(request.v4) /\ cidrs[j][1] \in Nat
               /\ cidrs[j][2] \in 0 .. width /\ LastOf(cidrs[j]) \in Nat
               /\ cidrs[j][1] <= LastOf(cidrs[j])
               /\ Addresses(cidrs[j]) = cidrs[j][1] .. LastOf(cidrs[j])
    <2>1. cidrs[j] \in CidrsOf(request.v4)
      OBVIOUS
    <2>2. QED
      BY <2>1, PairFacts, AddressesAre
  <1>3. S = UNION {Addresses(cidrs[j]) : j \in D}
    BY DEF Space, ToSet
  <1>4. ASSUME NEW a \in S
        PROVE  \E j \in D : cidrs[j][1] <= a /\ a <= LastOf(cidrs[j])
    <2>1. PICK j \in D : a \in Addresses(cidrs[j])
      BY <1>3
    <2>2. QED
      BY <2>1, <1>2
  <1>5. ASSUME NEW u \in D, NEW v \in D,
               cidrs[u][1] <= LastOf(cidrs[v]), cidrs[v][1] <= LastOf(cidrs[u])
        PROVE  u = v
    <2>1. u < v => LastOf(cidrs[u]) < cidrs[v][1]
      BY DEF Apart
    <2>2. v < u => LastOf(cidrs[v]) < cidrs[u][1]
      BY DEF Apart
    <2>3. /\ cidrs[u][1] \in Nat /\ LastOf(cidrs[u]) \in Nat
          /\ cidrs[v][1] \in Nat /\ LastOf(cidrs[v]) \in Nat
      BY <1>2
    <2>4. u \in Nat /\ v \in Nat
      BY <1>1
    <2>5. QED
      BY <2>1, <2>2, <2>3, <2>4, <1>5
  <1>6. cidrs[i] \in Within(S)
    <2>1. Addresses(cidrs[i]) \subseteq S
      BY <1>3
    <2>2. QED
      BY <2>1, <1>2 DEF Within
  <1>7. ASSUME NEW d \in Within(S), Addresses(cidrs[i]) \subseteq Addresses(d), cidrs[i] # d
        PROVE  FALSE
    <2>1. /\ d \in CidrsOf(request.v4) /\ Addresses(d) \subseteq S
          /\ d[1] \in Nat /\ d[2] \in 0 .. width /\ LastOf(d) \in Nat
          /\ Addresses(d) = d[1] .. LastOf(d)
      BY PairFacts, AddressesAre DEF Within
    <2>2. d[1] <= cidrs[i][1] /\ LastOf(cidrs[i]) <= LastOf(d)
      BY <2>1, <1>2, <1>7, SubsetIs
    <2>3. d[2] < cidrs[i][2]
      <3>1. d[2] <= cidrs[i][2] /\ d[2] # cidrs[i][2]
        BY <2>1, <2>2, <1>2, <1>7, PairsInside
      <3>2. width \in Int
        BY AsksFacts, WordNat
      <3>3. QED
        BY <3>1, <3>2, <2>1, <1>2
    <2> DEFINE Meets(j) == cidrs[j][1] <= LastOf(d) /\ d[1] <= LastOf(cidrs[j])
    <2>4. ASSUME NEW j \in D, Meets(j)
          PROVE  /\ d[1] <= cidrs[j][1] /\ LastOf(cidrs[j]) <= LastOf(d)
                 /\ d[2] < cidrs[j][2]
      <3>1. d[2] \in Int /\ cidrs[j][2] \in Int /\ cidrs[i][2] \in Int
        <4>1. width \in Int
          BY AsksFacts, WordNat
        <4>2. QED
          BY <4>1, <2>1, <1>2
      <3>2. ASSUME cidrs[j][2] <= d[2]
            PROVE  FALSE
        <4>1. cidrs[j][1] <= d[1] /\ LastOf(d) <= LastOf(cidrs[j])
          BY <3>2, <2>1, <2>4, <1>2, PairsNest
        <4>2. /\ cidrs[j][1] \in Nat /\ LastOf(cidrs[j]) \in Nat
              /\ cidrs[i][1] \in Nat /\ LastOf(cidrs[i]) \in Nat
              /\ cidrs[i][1] <= LastOf(cidrs[i])
          BY <1>2
        <4>3. cidrs[i][1] <= LastOf(cidrs[j]) /\ cidrs[j][1] <= LastOf(cidrs[i])
          BY <4>1, <4>2, <2>1, <2>2
        <4>4. i = j
          BY <4>3, <1>5
        <4>5. QED
          BY <3>1, <3>2, <4>4, <2>3
      <3>3. d[2] < cidrs[j][2]
        BY <3>1, <3>2
      <3>4. d[2] <= cidrs[j][2]
        BY <3>1, <3>3
      <3>5. QED
        BY <3>3, <3>4, <2>1, <2>4, <1>2, PairsNest
    <2>5. Meets(i)
      BY <2>1, <2>2, <1>2
    <2> DEFINE Q == {cidrs[j][2] : j \in {k \in D : Meets(k)}}
    <2>6. PICK j \in D : Meets(j) /\ \A k \in D : Meets(k) => cidrs[k][2] <= cidrs[j][2]
      <3>1. width \in Nat
        BY AsksFacts, WordNat
      <3>2. Q \in SUBSET Nat /\ \A q \in Q : q <= width
        BY <3>1, <1>2
      <3>3. Q # {}
        BY <2>5
      <3> HIDE DEF Q
      <3>4. PICK q \in Q : \A r \in Q : r <= q
        BY <3>1, <3>2, <3>3, GreatestMember
      <3>5. QED
        BY <3>4 DEF Q
    <2> HIDE DEF Q
    <2>7. PICK c : c = cidrs[j]
      OBVIOUS
    <2>8. /\ c \in CidrsOf(request.v4) /\ d[2] < c[2] /\ c[2] > 0 /\ c[2] \in Nat
          /\ d[1] <= c[1] /\ LastOf(c) <= LastOf(d) /\ c[1] <= LastOf(c)
          /\ c[1] \in Nat /\ LastOf(c) \in Nat /\ d[2] \in Nat
      <3>1. width \in Nat
        BY AsksFacts, WordNat
      <3>2. c[2] \in Nat /\ d[2] \in Nat
        BY <3>1, <2>1, <2>7, <1>2
      <3>3. /\ d[2] < c[2] /\ d[1] <= c[1] /\ LastOf(c) <= LastOf(d)
        BY <2>4, <2>6, <2>7
      <3>4. c[2] > 0
        BY <3>2, <3>3
      <3>5. QED
        BY <3>2, <3>3, <3>4, <2>7, <1>2
    <2>9. PICK s : s = Pow2[width - c[2]]
      OBVIOUS
    <2>10. PICK p : p = Parent(c)
      OBVIOUS
    <2>11. /\ p \in CidrsOf(request.v4) /\ p[2] = c[2] - 1
           /\ LastOf(p) = p[1] + 2 * s - 1
           /\ c[1] = p[1] \/ c[1] = p[1] + s
           /\ \A b \in CidrsOf(request.v4) :
                b[2] = c[2] /\ p[1] <= b[1] /\ b[1] <= LastOf(p) => Parent(b) = p
      BY <2>8, <2>9, <2>10, ParentIs
    <2>12. /\ s \in Nat \ {0} /\ LastOf(c) = c[1] + s - 1 /\ p[1] \in Nat
           /\ c[1] % s = 0
      BY <2>8, <2>9, <2>11, PairFacts DEF LastOf
    <2>22. /\ s \in Nat \ {0} /\ p[1] \in Nat /\ c[1] \in Nat /\ d[1] \in Nat
           /\ LastOf(d) \in Nat /\ LastOf(p) = p[1] + 2 * s - 1 /\ LastOf(c) = c[1] + s - 1
           /\ c[1] = p[1] \/ c[1] = p[1] + s
           /\ d[1] <= c[1] /\ LastOf(c) <= LastOf(d)
      BY <2>1, <2>8, <2>11, <2>12
    <2>13. d[1] <= p[1] /\ LastOf(p) <= LastOf(d)
      <3>1. d[2] <= p[2]
        BY <2>8, <2>11
      <3>2. p[1] <= LastOf(d) /\ d[1] <= LastOf(p)
        BY ONLY <2>22
      <3>3. QED
        BY <3>1, <3>2, <2>1, <2>11, PairsNest
    <2>14. PICK t : t = IF c[1] = p[1] THEN p[1] + s ELSE p[1]
      OBVIOUS
    <2>15. /\ t \in Nat /\ p[1] <= t /\ t + s - 1 <= LastOf(p)
           /\ \/ c[1] = p[1] /\ t = p[1] + s
              \/ c[1] = p[1] + s /\ t = p[1]
      <3>1. CASE c[1] = p[1]
        <4>1. t = p[1] + s
          BY <3>1, <2>14
        <4>2. QED
          BY ONLY <3>1, <4>1, <2>22
      <3>2. CASE c[1] # p[1]
        <4>1. t = p[1] /\ c[1] = p[1] + s
          BY <3>2, <2>14, <2>22
        <4>2. QED
          BY ONLY <4>1, <2>22
      <3>3. QED
        BY <3>1, <3>2
    <2>23. d[1] <= t /\ t + s - 1 <= LastOf(d) /\ t <= LastOf(d) /\ t <= LastOf(p)
      BY ONLY <2>13, <2>15, <2>22
    <2>16. t \in S
      <3>1. t \in d[1] .. LastOf(d)
        BY <2>15, <2>22, <2>23
      <3>2. QED
        BY <3>1, <2>1
    <2>17. PICK m \in D : cidrs[m][1] <= t /\ t <= LastOf(cidrs[m])
      BY <2>16, <1>4
    <2>18. PICK b : b = cidrs[m]
      OBVIOUS
    <2>19. /\ b \in CidrsOf(request.v4) /\ b[1] \in Nat /\ LastOf(b) \in Nat
           /\ b[1] <= t /\ t <= LastOf(b) /\ b[1] <= LastOf(b)
      BY <2>17, <2>18, <1>2
    <2>20. b[2] \in Nat /\ b[2] <= c[2]
      <3>1. b[1] <= LastOf(d) /\ d[1] <= LastOf(b)
        BY ONLY <2>15, <2>19, <2>22, <2>23
      <3>2. b[2] <= c[2]
        BY <3>1, <2>6, <2>7, <2>18
      <3>3. width \in Nat /\ b[2] \in 0 .. width
        BY <2>18, <1>2, AsksFacts, WordNat
      <3>4. QED
        BY <3>2, <3>3
    <2>24. ~ (b[2] < c[2])
      <3> SUFFICES ASSUME b[2] < c[2]
                   PROVE  FALSE
        OBVIOUS
      <3>1. b[2] <= p[2]
        BY <2>8, <2>11, <2>20
      <3>2. p[1] <= LastOf(b) /\ b[1] <= LastOf(p)
        BY ONLY <2>15, <2>19, <2>22, <2>23
      <3>3. b[1] <= p[1] /\ LastOf(p) <= LastOf(b)
        BY <3>1, <3>2, <2>11, <2>19, PairsNest
      <3>4. b[1] <= LastOf(c) /\ c[1] <= LastOf(b)
        BY ONLY <3>3, <2>19, <2>22
      <3>5. j = m
        BY <3>4, <2>7, <2>18, <1>5
      <3>6. QED
        BY <3>5, <2>7, <2>8, <2>18
    <2>25. b[2] = c[2]
      BY <2>8, <2>20, <2>24
    <2>26. LastOf(b) = b[1] + s - 1 /\ b[1] % s = 0
      BY <2>9, <2>19, <2>25, PairFacts DEF LastOf
    <2>27. b[1] = t
      <3>1. t % s = 0
        <4>1. c[1] % s = 0 /\ s % s = 0
          BY <2>12
        <4>2. c[1] = p[1] => t = c[1] + s
          BY <2>15, <2>22
        <4>3. c[1] # p[1] => t = c[1] - s /\ s <= c[1]
          BY ONLY <2>15, <2>22
        <4>4. (c[1] + s) % s = 0 /\ (s <= c[1] => (c[1] - s) % s = 0)
          <5>1. c[1] \in Nat /\ s \in Nat \ {0} /\ s \in Nat
            BY <2>22
          <5>2. (c[1] + s) % s = 0
            BY ONLY <4>1, <5>1, MultiplesSum
          <5>3. s <= c[1] => (c[1] - s) % s = 0
            BY ONLY <4>1, <5>1, MultiplesSum
          <5>4. QED
            BY <5>2, <5>3
        <4>5. QED
          BY <4>2, <4>3, <4>4
      <3>2. b[1] < t => b[1] + s <= t
        BY <3>1, <2>12, <2>15, <2>19, <2>26, NextMultiple
      <3>3. QED
        BY ONLY <3>2, <2>15, <2>19, <2>22, <2>26
    <2>28. Parent(b) = p
      BY <2>11, <2>15, <2>19, <2>23, <2>25, <2>27
    <2>29. CASE c[1] = p[1] /\ t = p[1] + s
      <3>1. LastOf(c) + 1 = b[1]
        BY ONLY <2>22, <2>27, <2>29
      <3>2. j + 1 \in D /\ m = j + 1
        BY <3>1, <2>7, <2>18, NextDoor
      <3>3. Siblings(cidrs[j], cidrs[j + 1])
        BY <3>2, <2>7, <2>8, <2>10, <2>18, <2>25, <2>28 DEF Siblings
      <3>4. QED
        BY <3>2, <3>3
    <2>30. CASE c[1] = p[1] + s /\ t = p[1]
      <3>1. LastOf(b) + 1 = c[1]
        BY ONLY <2>22, <2>26, <2>27, <2>30
      <3>2. m + 1 \in D /\ j = m + 1
        BY <3>1, <2>7, <2>18, NextDoor
      <3>3. Siblings(cidrs[m], cidrs[m + 1])
        BY <3>2, <2>7, <2>8, <2>10, <2>18, <2>25, <2>28 DEF Siblings
      <3>4. QED
        BY <3>2, <3>3
    <2>21. QED
      BY <2>15, <2>29, <2>30
  <1>8. QED
    BY <1>6, <1>7 DEF Maximal

\* The entries kept, and how they lie.
Kept ==
    /\ Asks /\ rest \in Seq(CidrsOf(request.v4))
    /\ \A i, j \in DOMAIN rest : i < j => LastOf(rest[i]) < rest[j][1]

\* Entries are looked at in their order, and none of the addresses is lost.
Keeping ==
    /\ Kept /\ pending \subseteq CidrsOf(request.v4)
    /\ Space(pending) \cup Space(ToSet(rest)) = Whole
    /\ rest # <<>> => \A c \in pending : SortsBefore(Last(rest), c)

\* Nor when siblings are merged; and when none was merged so far, what has been
\* passed is unchanged and has no siblings side by side.
Merging ==
    /\ Kept /\ Space(ToSet(rest)) = Whole
    /\ cursor \in 1 .. Len(rest) + 1
    /\ cidrs \in Seq(CidrsOf(request.v4)) /\ Len(cidrs) <= cursor - 1
    /\ Space(ToSet(cidrs)) = UNION {Addresses(rest[i]) : i \in 1 .. cursor - 1}
    /\ Len(cidrs) = cursor - 1 =>
         \A i \in 1 .. cursor - 1 :
            cidrs[i] = rest[i] /\ (i < Len(rest) => ~ Siblings(rest[i], rest[i + 1]))

SumInv ==
    request.tool = "summarize" =>
        /\ Asks
        /\ stage \in {"call", "start"} => rest = <<>>
        /\ stage = "keep" => Keeping
        /\ stage = "merge" => Merging
        /\ stage = "done" => reply # "FromRangeLimitExceeded"
        /\ stage = "done" /\ reply = "ok" => Ordered /\ ToSet(cidrs) = Maximal(Whole)

\* One more CIDR at the end of a list is one more in its set.
LEMMA OneMore ==
    ASSUME NEW T, NEW s \in Seq(T), NEW c \in T
    PROVE  /\ Append(s, c) \in Seq(T) /\ ToSet(Append(s, c)) = ToSet(s) \cup {c}
           /\ Space(ToSet(Append(s, c))) = Space(ToSet(s)) \cup Addresses(c)
           /\ Len(Append(s, c)) = Len(s) + 1
           /\ \A i \in 1 .. Len(s) : Append(s, c)[i] = s[i]
           /\ Append(s, c)[Len(s) + 1] = c
PROOF
  <1> DEFINE n == Len(s)
             t == Append(s, c)
  <1>1. /\ n \in Nat /\ t \in Seq(T) /\ Len(t) = n + 1 /\ t[n + 1] = c
        /\ \A i \in 1 .. n : t[i] = s[i]
        /\ DOMAIN s = 1 .. n /\ DOMAIN t = 1 .. n + 1
    OBVIOUS
  <1> HIDE DEF n, t
  <1>2. ToSet(t) = {t[i] : i \in 1 .. n + 1} /\ ToSet(s) = {s[i] : i \in 1 .. n}
    BY <1>1 DEF ToSet
  <1>3. ToSet(t) = ToSet(s) \cup {c}
    <2>1. ASSUME NEW x \in ToSet(t)
          PROVE  x \in ToSet(s) \cup {c}
      <3>1. PICK i \in 1 .. n + 1 : x = t[i]
        BY <1>2
      <3>2. i \in 1 .. n \/ i = n + 1
        BY <1>1
      <3>3. QED
        BY <3>1, <3>2, <1>1, <1>2
    <2>2. ASSUME NEW x \in ToSet(s) \cup {c}
          PROVE  x \in ToSet(t)
      <3>1. CASE x = c
        <4>1. n + 1 \in 1 .. n + 1
          BY <1>1
        <4>2. QED
          BY <3>1, <4>1, <1>1, <1>2
      <3>2. CASE x \in ToSet(s)
        <4>1. PICK i \in 1 .. n : x = s[i]
          BY <3>2, <1>2
        <4>2. i \in 1 .. n + 1
          BY <1>1
        <4>3. QED
          BY <4>1, <4>2, <1>1, <1>2
      <3>3. QED
        BY <3>1, <3>2
    <2>3. QED
      BY <2>1, <2>2
  <1>4. Space(ToSet(t)) = Space(ToSet(s)) \cup Addresses(c)
    BY <1>3 DEF Space
  <1>5. QED
    BY <1>1, <1>3, <1>4 DEF n, t

\* A network is the CIDR that it is of.
LEMMA NetworkIs ==
    ASSUME Asks, NEW c \in CidrsOf(request.v4)
    PROVE  Network(c) = c
PROOF
  <1>1. /\ c = <<c[1], c[2]>> /\ c[1] \in Nat /\ c[2] \in 0 .. width
        /\ c[1] % Pow2[width - c[2]] = 0 /\ c[1] <= LastOf(c) /\ LastOf(c) \in Nat
        /\ LastOf(c) < Pow2[width] /\ Pow2[width] \in Nat
    BY PairFacts
  <1>2. c[1] \in 0 .. Pow2[width] - 1
    BY <1>1
  <1>3. masked(c[1], c[2]) = c[1] - (c[1] % Pow2[width - c[2]])
    BY <1>1, <1>2, MaskedIs
  <1>4. masked(c[1], c[2]) = c[1]
    BY <1>1, <1>3
  <1>5. QED
    BY <1>1, <1>4 DEF Network

\* What stays the same in a call to summarize.
LEMMA SumStays ==
    ASSUME request' = request
    PROVE  /\ \A S : Space(S)' = Space(S)
           /\ request.tool = "summarize" => Whole' = Whole
           /\ UNCHANGED rest => (Kept => Kept')
           /\ \A c : Parent(c)' = Parent(c)
PROOF
  <1>1. \A c : Addresses(c)' = Addresses(c)
    BY MaximalStays
  <1>2. /\ list' = list /\ (Asks' <=> Asks) /\ width' = width
        /\ CidrsOf(request.v4)' = CidrsOf(request.v4) /\ \A d : LastOf(d)' = LastOf(d)
    BY RequestStays
  <1>3. \A S : Space(S)' = Space(S)
    BY <1>1 DEF Space
  <1>4. request.tool = "summarize" => Whole' = Whole
    BY <1>1, <1>2 DEF Whole
  <1>5. UNCHANGED rest => (Kept => Kept')
    BY <1>2 DEF Kept
  <1>6. \A c : Parent(c)' = Parent(c)
    BY <1>2 DEF Parent, masked
  <1>7. QED
    BY <1>3, <1>4, <1>5, <1>6

\* The entries are taken as they are given, each once.
LEMMA NormalizeStep ==
    ASSUME SumInv, request.tool = "summarize", Normalize
    PROVE  SumInv'
PROOF
  <1>1. /\ request' = request /\ rest' = rest /\ stage' = "keep" /\ stage = "start"
        /\ pending' = {Network(c) : c \in ToSet(list)}
    BY DEF Normalize, Doing
  <1>2. Asks /\ rest = <<>>
    BY <1>1 DEF SumInv
  <1>3. list \in Seq(CidrsOf(request.v4))
    BY <1>2, AsksFacts
  <1>4. ToSet(list) \subseteq CidrsOf(request.v4)
    BY <1>3 DEF ToSet
  <1>5. pending' = ToSet(list)
    <2>1. \A c \in ToSet(list) : Network(c) = c
      BY <1>2, <1>4, NetworkIs
    <2>2. QED
      BY <2>1, <1>1
  <1>6. Kept
    <2>1. rest \in Seq(CidrsOf(request.v4)) /\ DOMAIN rest = {}
      BY <1>2
    <2>2. QED
      BY <2>1, <1>2 DEF Kept
  <1>7. /\ Asks' /\ CidrsOf(request.v4)' = CidrsOf(request.v4) /\ Kept'
        /\ \A S : Space(S)' = Space(S)
        /\ Whole' = Whole
    BY <1>1, <1>2, <1>6, RequestStays, SumStays
  <1>8. Whole = Space(ToSet(list))
    BY DEF Whole, Space
  <1>9. Space(ToSet(rest)) = {}
    BY <1>2 DEF Space, ToSet
  <1>10. Space(pending') \cup Space(ToSet(rest')) = Whole
    BY <1>1, <1>5, <1>8, <1>9
  <1>11. Keeping'
    BY <1>1, <1>2, <1>4, <1>5, <1>7, <1>10 DEF Keeping
  <1>12. QED
    BY <1>1, <1>7, <1>11 DEF SumInv

\* What an entry kept says of those behind it.
LEMMA RestFacts ==
    ASSUME Kept, NEW i \in DOMAIN rest
    PROVE  /\ rest[i] \in CidrsOf(request.v4) /\ rest[i][1] \in Nat /\ LastOf(rest[i]) \in Nat
           /\ rest[i][1] <= LastOf(rest[i]) /\ rest[i][2] \in Nat
           /\ LastOf(rest[i]) < Pow2[width]
           /\ Addresses(rest[i]) = rest[i][1] .. LastOf(rest[i])
PROOF
  <1>1. Asks /\ rest[i] \in CidrsOf(request.v4)
    BY DEF Kept
  <1>2. width \in Nat
    BY <1>1, AsksFacts, WordNat
  <1>3. QED
    BY <1>1, <1>2, PairFacts, AddressesAre

\* An entry that the last one kept does not hold begins behind it.
LEMMA NotContained ==
    ASSUME Keeping, NEW c \in pending, ~ Contained(c)
    PROVE  \A i \in DOMAIN rest : LastOf(rest[i]) < c[1]
PROOF
  <1> SUFFICES ASSUME NEW i \in DOMAIN rest
               PROVE  LastOf(rest[i]) < c[1]
    OBVIOUS
  <1> DEFINE n == Len(rest)
  <1>1. Kept /\ Asks /\ c \in CidrsOf(request.v4)
    BY DEF Keeping, Kept
  <1>2. /\ n \in DOMAIN rest /\ i \in Nat /\ n \in Nat /\ i <= n /\ rest # <<>>
    <2>1. rest \in Seq(CidrsOf(request.v4))
      BY <1>1 DEF Kept
    <2>2. QED
      BY <2>1
  <1>3. PICK l : l = rest[n]
    OBVIOUS
  <1>4. /\ l \in CidrsOf(request.v4) /\ l[1] \in Nat /\ LastOf(l) \in Nat
        /\ l[1] <= LastOf(l) /\ l[2] \in Nat
        /\ LastOf(rest[i]) \in Nat
        /\ i < n => LastOf(rest[i]) < l[1]
    BY <1>1, <1>2, <1>3, RestFacts DEF Kept
  <1>5. /\ c[1] \in Nat /\ c[2] \in 0 .. width /\ LastOf(c) \in Nat /\ c[1] <= LastOf(c)
        /\ LastOf(c) < Pow2[width] /\ Pow2[width] \in Nat /\ width \in Nat
    BY <1>1, PairFacts
  <1>6. Last(rest) = l
    BY <1>3 DEF Last
  <1>7. l[1] < c[1] \/ (l[1] = c[1] /\ l[2] <= c[2])
    BY <1>2, <1>6 DEF Keeping, SortsBefore
  <1>8. ~ (c[2] >= l[2] /\ check_contains(l, c[1]))
    BY <1>2, <1>6 DEF Contained
  <1>9. LastOf(l) < c[1]
    <2> SUFFICES ASSUME c[1] <= LastOf(l)
                 PROVE  FALSE
      BY <1>4, <1>5
    <2>1. check_contains(l, c[1])
      <3>1. c[1] \in 0 .. Pow2[width] - 1 /\ l[1] <= c[1]
        BY <1>4, <1>5, <1>7
      <3>2. QED
        BY <3>1, <1>1, <1>4, Checks
    <2>2. c[2] < l[2] /\ c[2] <= l[2] /\ c[2] \in Nat
      BY <2>1, <1>4, <1>5, <1>8
    <2>3. l[1] <= LastOf(c)
      BY <1>4, <1>5, <1>7
    <2>4. c[1] <= l[1]
      BY <2>2, <2>3, <1>1, <1>4, PairsNest
    <2>5. QED
      BY <2>2, <2>4, <1>4, <1>5, <1>7
  <1>10. CASE i < n
    BY <1>4, <1>5, <1>9, <1>10
  <1>11. CASE ~ (i < n)
    <2>1. i = n
      BY <1>2, <1>11
    <2>2. QED
      BY <2>1, <1>3, <1>9
  <1>12. QED
    BY <1>10, <1>11

\* One that it does hold adds nothing.
LEMMA ContainedAdds ==
    ASSUME Keeping, NEW c \in pending, Contained(c)
    PROVE  Addresses(c) \subseteq Space(ToSet(rest))
PROOF
  <1>1. Kept /\ Asks /\ c \in CidrsOf(request.v4) /\ rest \in Seq(CidrsOf(request.v4))
    BY DEF Keeping, Kept
  <1>2. PICK l : l = Last(rest)
    OBVIOUS
  <1>3. rest # <<>> /\ c[2] >= l[2] /\ check_contains(l, c[1])
    BY <1>2 DEF Contained
  <1>4. l \in ToSet(rest) /\ l \in CidrsOf(request.v4)
    <2>1. Len(rest) \in DOMAIN rest /\ l = rest[Len(rest)]
      BY <1>1, <1>2, <1>3 DEF Last
    <2>2. QED
      BY <2>1, <1>1 DEF ToSet
  <1>5. /\ c[1] \in Nat /\ LastOf(c) \in Nat /\ c[1] <= LastOf(c) /\ c[2] \in 0 .. width
        /\ LastOf(c) < Pow2[width] /\ Pow2[width] \in Nat /\ width \in Nat
        /\ l[1] \in Nat /\ LastOf(l) \in Nat /\ l[2] \in 0 .. width
    BY <1>1, <1>4, PairFacts
  <1>6. c[1] \in 0 .. Pow2[width] - 1
    BY <1>5
  <1>7. l[1] <= c[1] /\ c[1] <= LastOf(l)
    BY <1>1, <1>3, <1>4, <1>6, Checks
  <1>8. l[2] <= c[2] /\ l[1] <= LastOf(c)
    BY <1>3, <1>5, <1>7
  <1>9. l[1] <= c[1] /\ LastOf(c) <= LastOf(l)
    BY <1>1, <1>4, <1>7, <1>8, PairsNest
  <1>10. Addresses(c) \subseteq Addresses(l)
    BY <1>1, <1>4, <1>9, SubsetIs
  <1>11. QED
    BY <1>4, <1>10 DEF Space

\* An entry is kept, or left out for the one that holds it.
LEMMA KeepStep ==
    ASSUME SumInv, request.tool = "summarize", Keep
    PROVE  SumInv'
PROOF
  <1>1. /\ request' = request /\ stage = "keep" /\ stage' = stage
    BY DEF Keep, Doing
  <1>2. PICK c \in pending :
           /\ \A d \in pending : SortsBefore(c, d)
           /\ pending' = pending \ {c}
           /\ rest' = IF Contained(c) THEN rest ELSE Append(rest, c)
    BY DEF Keep
  <1>3. Keeping /\ Kept /\ Asks /\ rest \in Seq(CidrsOf(request.v4))
    BY <1>1 DEF SumInv, Keeping, Kept
  <1>4. c \in CidrsOf(request.v4) /\ pending \subseteq CidrsOf(request.v4)
    BY <1>3 DEF Keeping
  <1>5. Space(pending) \cup Space(ToSet(rest)) = Whole
    BY <1>3 DEF Keeping
  <1>6. /\ Asks' /\ CidrsOf(request.v4)' = CidrsOf(request.v4)
        /\ \A S : Space(S)' = Space(S)
        /\ \A d : LastOf(d)' = LastOf(d)
        /\ Whole' = Whole
        /\ UNCHANGED rest => Kept'
    BY <1>1, <1>3, RequestStays, SumStays
  <1>7. Space(pending) = Space(pending') \cup Addresses(c)
    BY <1>2 DEF Space
  <1>8. pending' \subseteq CidrsOf(request.v4)
    BY <1>2, <1>4
  <1>9. CASE Contained(c)
    <2>1. rest' = rest
      BY <1>2, <1>9
    <2>2. Addresses(c) \subseteq Space(ToSet(rest))
      BY <1>3, <1>9, ContainedAdds
    <2>3. Space(pending') \cup Space(ToSet(rest')) = Whole
      BY <2>1, <2>2, <1>5, <1>7
    <2>4. rest' # <<>> => \A d \in pending' : SortsBefore(Last(rest'), d)
      BY <2>1, <1>2, <1>3 DEF Keeping
    <2>5. Keeping'
      BY <2>1, <2>3, <2>4, <1>6, <1>8 DEF Keeping
    <2>6. QED
      BY <2>5, <1>1, <1>6 DEF SumInv
  <1>10. CASE ~ Contained(c)
    <2> DEFINE n == Len(rest)
    <2>1. rest' = Append(rest, c)
      BY <1>2, <1>10
    <2>2. \A i \in DOMAIN rest : LastOf(rest[i]) < c[1]
      BY <1>3, <1>10, NotContained
    <2>3. /\ rest' \in Seq(CidrsOf(request.v4)) /\ Len(rest') = n + 1 /\ n \in Nat
          /\ Space(ToSet(rest')) = Space(ToSet(rest)) \cup Addresses(c)
          /\ \A i \in 1 .. n : rest'[i] = rest[i]
          /\ rest'[n + 1] = c
      BY <2>1, <1>3, <1>4, OneMore
    <2>4. DOMAIN rest = 1 .. n /\ DOMAIN rest' = 1 .. n + 1
      BY <2>3, <1>3
    <2> HIDE DEF n
    <2>5. \A i, j \in 1 .. n + 1 : i < j => LastOf(rest'[i]) < rest'[j][1]
      <3> SUFFICES ASSUME NEW i \in 1 .. n + 1, NEW j \in 1 .. n + 1, i < j
                   PROVE  LastOf(rest'[i]) < rest'[j][1]
        OBVIOUS
      <3>1. i \in 1 .. n
        BY <2>3
      <3>2. rest'[i] = rest[i]
        BY <3>1, <2>3
      <3>3. CASE j \in 1 .. n
        <4>1. rest'[j] = rest[j]
          BY <3>3, <2>3
        <4>2. LastOf(rest[i]) < rest[j][1]
          BY <3>1, <3>3, <2>4, <1>3 DEF Kept
        <4>3. QED
          BY <3>2, <4>1, <4>2
      <3>4. CASE j \notin 1 .. n
        <4>1. j = n + 1
          BY <3>4, <2>3
        <4>2. rest'[j] = c /\ LastOf(rest[i]) < c[1]
          BY <3>1, <4>1, <2>2, <2>3, <2>4
        <4>3. QED
          BY <3>2, <4>2
      <3>5. QED
        BY <3>3, <3>4
    <2>6. Kept'
      BY <2>3, <2>4, <2>5, <1>6 DEF Kept
    <2>7. Last(rest') = c
      BY <2>3 DEF Last
    <2>8. \A d \in pending' : SortsBefore(Last(rest'), d)
      BY <2>7, <1>2
    <2>9. Space(pending') \cup Space(ToSet(rest')) = Whole
      BY <2>3, <1>5, <1>7
    <2>10. Keeping'
      BY <2>6, <2>8, <2>9, <1>6, <1>8 DEF Keeping
    <2>11. QED
      BY <2>10, <1>1, <1>6 DEF SumInv
  <1>11. QED
    BY <1>9, <1>10

\* When all have been looked at, those kept have all the addresses.
LEMMA StartMergingStep ==
    ASSUME SumInv, request.tool = "summarize", StartMerging
    PROVE  SumInv'
PROOF
  <1>1. /\ request' = request /\ rest' = rest /\ stage = "keep" /\ stage' = "merge"
        /\ pending = {} /\ cursor' = 1 /\ cidrs' = <<>>
    BY DEF StartMerging, Doing
  <1>2. Keeping /\ Kept /\ Asks /\ rest \in Seq(CidrsOf(request.v4))
    BY <1>1 DEF SumInv, Keeping, Kept
  <1>3. Space(ToSet(rest)) = Whole
    BY <1>1, <1>2 DEF Keeping, Space
  <1>4. /\ Asks' /\ CidrsOf(request.v4)' = CidrsOf(request.v4)
        /\ \A S : Space(S)' = Space(S)
        /\ Whole' = Whole /\ Kept'
    BY <1>1, <1>2, RequestStays, SumStays
  <1>5. Space(ToSet(cidrs')) = {}
    BY <1>1 DEF Space, ToSet
  <1>6. 1 .. cursor' - 1 = {} /\ cursor' \in 1 .. Len(rest') + 1
    BY <1>1, <1>2
  <1>7. UNION {Addresses(rest[i])' : i \in 1 .. cursor' - 1} = {}
    BY <1>6
  <1>8. cidrs' \in Seq(CidrsOf(request.v4)) /\ Len(cidrs') <= cursor' - 1
    BY <1>1
  <1>9. Space(ToSet(cidrs))' = UNION {Addresses(rest[i])' : i \in 1 .. cursor' - 1}
    BY <1>4, <1>5, <1>7
  <1>10. Space(ToSet(rest))' = Whole'
    BY <1>1, <1>3, <1>4
  <1>11. Merging'
    BY <1>4, <1>6, <1>8, <1>9, <1>10 DEF Merging
  <1>12. QED
    BY <1>1, <1>4, <1>11 DEF SumInv

\* Two siblings become one, or an entry stays as it is.
LEMMA MergeNextStep ==
    ASSUME SumInv, request.tool = "summarize", MergeNext
    PROVE  SumInv'
PROOF
  <1>1. /\ request' = request /\ rest' = rest /\ stage = "merge" /\ stage' = "merge"
        /\ cursor <= Len(rest)
    BY DEF MergeNext, Doing
  <1>2. Merging /\ Kept /\ Asks /\ rest \in Seq(CidrsOf(request.v4))
    BY <1>1 DEF SumInv, Merging, Kept
  <1> DEFINE n == Len(rest)
             passed(m) == UNION {Addresses(rest[i]) : i \in 1 .. m}
  <1>3. /\ Space(ToSet(rest)) = Whole
        /\ cidrs \in Seq(CidrsOf(request.v4)) /\ Len(cidrs) <= cursor - 1
        /\ Space(ToSet(cidrs)) = passed(cursor - 1)
        /\ Len(cidrs) = cursor - 1 =>
             \A i \in 1 .. cursor - 1 :
                cidrs[i] = rest[i] /\ (i < Len(rest) => ~ Siblings(rest[i], rest[i + 1]))
    BY <1>2 DEF Merging
  <1>4. cursor \in Nat /\ 1 <= cursor /\ cursor \in 1 .. n /\ n \in Nat /\ DOMAIN rest = 1 .. n
    BY <1>1, <1>2 DEF Merging
  <1>5. /\ Asks' /\ CidrsOf(request.v4)' = CidrsOf(request.v4)
        /\ \A S : Space(S)' = Space(S)
        /\ \A c : Addresses(c)' = Addresses(c)
        /\ \A c, d : Siblings(c, d)' = Siblings(c, d)
        /\ Whole' = Whole /\ Kept'
    BY <1>1, <1>2, RequestStays, SumStays, MaximalStays
  <1>6. PICK k \in Nat : k = cursor
    BY <1>4
  <1>7. PICK c : c = rest[k]
    OBVIOUS
  <1>8. c \in CidrsOf(request.v4)
    BY <1>2, <1>4, <1>6, <1>7
  <1>9. Len(cidrs) \in Nat
    BY <1>3
  <1>10. ASSUME NEW m \in Nat, NEW e \in CidrsOf(request.v4), m >= k, m <= n,
                cidrs' = Append(cidrs, e), cursor' = m + 1,
                passed(m) = passed(k - 1) \cup Addresses(e),
                m = k => /\ e = c
                         /\ k < n => ~ Siblings(rest[k], rest[k + 1])
         PROVE  Merging'
    <2> HIDE DEF passed
    <2>1. /\ cidrs' \in Seq(CidrsOf(request.v4)) /\ Len(cidrs') = Len(cidrs) + 1
          /\ Space(ToSet(cidrs')) = Space(ToSet(cidrs)) \cup Addresses(e)
          /\ \A i \in 1 .. Len(cidrs) : cidrs'[i] = cidrs[i]
          /\ cidrs'[Len(cidrs) + 1] = e
      BY <1>3, <1>10, OneMore
    <2>2. Space(ToSet(cidrs')) = passed(m)
      BY <2>1, <1>3, <1>6, <1>10
    <2>3. cursor' - 1 = m /\ cursor' \in 1 .. Len(rest') + 1
      BY <1>1, <1>4, <1>6, <1>10
    <2>4. Len(cidrs') <= m
      BY <2>1, <1>3, <1>6, <1>9, <1>10
    <2>5. ASSUME Len(cidrs') = m, NEW i \in 1 .. m
          PROVE  cidrs'[i] = rest[i] /\ (i < n => ~ Siblings(rest[i], rest[i + 1]))
      <3>1. m = k /\ Len(cidrs) = k - 1
        BY <2>1, <2>5, <1>3, <1>6, <1>9, <1>10
      <3>2. CASE i = k
        <4>1. cidrs'[i] = c
          BY <2>1, <3>1, <3>2, <1>9, <1>10
        <4>2. QED
          BY <3>1, <3>2, <4>1, <1>7, <1>10
      <3>3. CASE i # k
        <4>1. i \in 1 .. k - 1
          BY <3>1, <3>3
        <4>2. cidrs'[i] = cidrs[i]
          BY <2>1, <3>1, <4>1
        <4>3. QED
          BY <3>1, <4>1, <4>2, <1>3, <1>6
      <3>4. QED
        BY <3>2, <3>3
    <2>6. Space(ToSet(cidrs))' = UNION {Addresses(rest[i])' : i \in 1 .. cursor' - 1}
      <3>1. Space(ToSet(cidrs))' = Space(ToSet(cidrs'))
        BY <1>5
      <3>2. passed(m) = UNION {Addresses(rest[i])' : i \in 1 .. m}
        BY <1>1, <1>5 DEF passed
      <3>3. QED
        BY <2>2, <2>3, <3>1, <3>2
    <2>7. (Len(cidrs) = cursor - 1 =>
             \A i \in 1 .. cursor - 1 :
                cidrs[i] = rest[i] /\ (i < Len(rest) => ~ Siblings(rest[i], rest[i + 1])))'
      BY <2>3, <2>5, <1>1, <1>5
    <2>8. Space(ToSet(rest))' = Whole'
      BY <1>1, <1>3, <1>5
    <2>9. Len(cidrs') <= cursor' - 1
      BY <2>3, <2>4
    <2>10. QED
      BY <2>1, <2>3, <2>6, <2>7, <2>8, <2>9, <1>5 DEF Merging
  <1>11. CASE cursor < Len(rest) /\ Siblings(rest[cursor], rest[cursor + 1])
    <2>1. cidrs' = Append(cidrs, Parent(c)) /\ cursor' = cursor + 2
      BY <1>6, <1>7, <1>11 DEF MergeNext
    <2>2. PICK d : d = rest[k + 1]
      OBVIOUS
    <2>3. k + 1 \in 1 .. n /\ d \in CidrsOf(request.v4) /\ Siblings(c, d) /\ LastOf(c) < d[1]
      <3>1. k + 1 \in 1 .. n /\ k < k + 1
        BY <1>4, <1>6, <1>11
      <3>2. LastOf(rest[k]) < rest[k + 1][1]
        BY <3>1, <1>2, <1>4, <1>6 DEF Kept
      <3>3. QED
        BY <2>2, <3>1, <3>2, <1>2, <1>6, <1>7, <1>11
    <2>4. PICK e : e = Parent(c)
      OBVIOUS
    <2>5. e \in CidrsOf(request.v4) /\ Addresses(e) = Addresses(c) \cup Addresses(d)
      BY <2>3, <2>4, <1>2, <1>8, SiblingsJoin
    <2>6. passed(k + 1) = passed(k - 1) \cup Addresses(e)
      <3>1. 1 .. k + 1 = (1 .. k - 1) \cup {k, k + 1}
        BY <1>4, <1>6
      <3>2. QED
        BY <2>2, <2>5, <3>1, <1>7
    <2> HIDE DEF passed
    <2>7. k + 1 \in Nat /\ k + 1 >= k /\ k + 1 <= n /\ cursor' = (k + 1) + 1 /\ k + 1 # k
      BY <2>1, <2>3, <1>4, <1>6
    <2>8. Merging'
      BY <2>1, <2>4, <2>5, <2>6, <2>7, <1>10
    <2>9. QED
      BY <2>8, <1>1, <1>5 DEF SumInv
  <1>12. CASE ~ (cursor < Len(rest) /\ Siblings(rest[cursor], rest[cursor + 1]))
    <2>1. cidrs' = Append(cidrs, c) /\ cursor' = k + 1
      BY <1>6, <1>7, <1>12 DEF MergeNext
    <2>2. passed(k) = passed(k - 1) \cup Addresses(c)
      <3>1. 1 .. k = (1 .. k - 1) \cup {k}
        BY <1>4, <1>6
      <3>2. QED
        BY <3>1, <1>7
    <2> HIDE DEF passed
    <2>3. k >= k /\ k <= n /\ (k < n => ~ Siblings(rest[k], rest[k + 1]))
      BY <1>4, <1>6, <1>12
    <2>4. Merging'
      BY <2>1, <2>2, <2>3, <1>8, <1>10
    <2>5. QED
      BY <2>4, <1>1, <1>5 DEF SumInv
  <1>13. QED
    BY <1>11, <1>12

\* A pass that merged nothing has found the summary; what one has merged is
\* looked through again.
LEMMA MergedStep ==
    ASSUME SumInv, request.tool = "summarize", Merged
    PROVE  SumInv'
PROOF
  <1>1. /\ request' = request /\ stage = "merge" /\ cursor > Len(rest) /\ cidrs' = cidrs
        /\ cursor' = cursor
    BY DEF Merged, Doing
  <1>2. Merging /\ Kept /\ Asks /\ rest \in Seq(CidrsOf(request.v4))
    BY <1>1 DEF SumInv, Merging, Kept
  <1> DEFINE n == Len(rest)
  <1>3. cursor - 1 = n /\ n \in Nat /\ DOMAIN rest = 1 .. n
    BY <1>1, <1>2 DEF Merging
  <1>4. /\ cidrs \in Seq(CidrsOf(request.v4))
        /\ Space(ToSet(cidrs)) = UNION {Addresses(rest[i]) : i \in 1 .. n}
        /\ Len(cidrs) = n =>
             \A i \in 1 .. n :
                cidrs[i] = rest[i] /\ (i < n => ~ Siblings(rest[i], rest[i + 1]))
    BY <1>2, <1>3 DEF Merging
  <1>5. Space(ToSet(cidrs)) = Whole
    <2>1. Space(ToSet(rest)) = UNION {Addresses(rest[i]) : i \in 1 .. n}
      BY <1>3 DEF Space, ToSet
    <2>2. QED
      BY <2>1, <1>2, <1>4 DEF Merging
  <1>6. /\ Asks' /\ CidrsOf(request.v4)' = CidrsOf(request.v4)
        /\ \A S : Space(S)' = Space(S)
        /\ \A S : Maximal(S)' = Maximal(S)
        /\ Whole' = Whole
    BY <1>1, <1>2, RequestStays, SumStays, MaximalStays
  <1>7. CASE Len(cidrs) = Len(rest)
    <2>1. stage' = "done" /\ reply' = "ok"
      BY <1>7 DEF Merged, Answer
    <2>2. DOMAIN cidrs = 1 .. n
      BY <1>4, <1>7
    <2>3. Apart
      <3> SUFFICES ASSUME NEW i \in DOMAIN cidrs, NEW j \in DOMAIN cidrs, i < j
                   PROVE  LastOf(cidrs[i]) < cidrs[j][1]
        BY DEF Apart
      <3>1. cidrs[i] = rest[i] /\ cidrs[j] = rest[j]
        BY <2>2, <1>4, <1>7
      <3>2. LastOf(rest[i]) < rest[j][1]
        BY <2>2, <1>2, <1>3 DEF Kept
      <3>3. QED
        BY <3>1, <3>2
    <2>4. ASSUME NEW i \in DOMAIN cidrs, i + 1 \in DOMAIN cidrs
          PROVE  ~ Siblings(cidrs[i], cidrs[i + 1])
      <3>1. i < n /\ i \in 1 .. n
        BY <2>2, <2>4, <1>3
      <3>2. cidrs[i] = rest[i] /\ cidrs[i + 1] = rest[i + 1] /\ ~ Siblings(rest[i], rest[i + 1])
        BY <2>2, <2>4, <3>1, <1>4, <1>7
      <3>3. QED
        BY <3>2
    <2>5. PICK S : S = Whole
      OBVIOUS
    <2>6. \A i \in DOMAIN cidrs : cidrs[i] \in Maximal(S)
      <3> SUFFICES ASSUME NEW i \in DOMAIN cidrs
                   PROVE  cidrs[i] \in Maximal(S)
        OBVIOUS
      <3>1. S = Space(ToSet(cidrs))
        BY <2>5, <1>5
      <3>2. QED
        BY <2>3, <2>4, <3>1, <1>2, <1>4, NoSiblingsMaximal
    <2>7. \A a \in S : Covers(a)
      <3> SUFFICES ASSUME NEW a \in S
                   PROVE  Covers(a)
        OBVIOUS
      <3>1. PICK i \in 1 .. n : a \in Addresses(rest[i])
        BY <2>5, <1>4, <1>5
      <3>2. i \in DOMAIN cidrs /\ cidrs[i] = rest[i]
        BY <2>2, <1>4, <1>7
      <3>3. Addresses(rest[i]) = rest[i][1] .. LastOf(rest[i])
        BY <1>2, <1>3, RestFacts
      <3>4. rest[i][1] \in Nat /\ LastOf(rest[i]) \in Nat
        BY <1>2, <1>3, RestFacts
      <3>5. rest[i][1] <= a /\ a <= LastOf(rest[i])
        BY <3>1, <3>3, <3>4
      <3>6. QED
        BY <3>2, <3>5 DEF Covers
    <2>8. Ordered /\ ToSet(cidrs) = Maximal(S)
      BY <2>3, <2>6, <2>7, <1>2, <1>4, Exactly
    <2>9. Ordered' /\ ToSet(cidrs') = Maximal(Whole)'
      <3>1. Ordered'
        BY <2>8, <1>1 DEF Ordered
      <3>2. Maximal(Whole)' = Maximal(S)
        BY <2>5, <1>6
      <3>3. QED
        BY <2>8, <3>1, <3>2, <1>1
    <2>10. QED
      BY <2>1, <2>9, <1>6 DEF SumInv
  <1>8. CASE Len(cidrs) # Len(rest)
    <2>1. pending' = ToSet(cidrs) /\ rest' = <<>> /\ stage' = "keep"
      BY <1>8 DEF Merged
    <2>2. Kept'
      <3>1. rest' \in Seq(CidrsOf(request.v4)) /\ DOMAIN rest' = {}
        BY <2>1
      <3>2. QED
        BY <3>1, <1>6 DEF Kept
    <2>3. pending' \subseteq CidrsOf(request.v4)
      BY <2>1, <1>4 DEF ToSet
    <2>4. Space(ToSet(rest'))  = {}
      BY <2>1 DEF Space, ToSet
    <2>5. Space(pending') \cup Space(ToSet(rest')) = Whole
      BY <2>1, <2>4, <1>5
    <2>6. Keeping'
      BY <2>1, <2>2, <2>3, <2>5, <1>6 DEF Keeping
    <2>7. QED
      BY <2>1, <2>6, <1>6 DEF SumInv
  <1>9. QED
    BY <1>7, <1>8

\* A summary begins with nothing kept.
LEMMA SumInit == ASSUME CalcInit PROVE SumInv
BY CallAsks DEF CalcInit, SumInv

\* What the call itself decides of a summary.
LEMMA SumCallStep ==
    ASSUME SumInv, request.tool = "summarize", Call
    PROVE  SumInv'
PROOF
  <1>1. /\ UNCHANGED <<request, rest>> /\ stage = "call" /\ reply' = Refusal
        /\ stage' = IF Refusal = "ok" THEN "start" ELSE "done"
    BY DEF Call
  <1>2. Refusal \in {"EmptyCidrList", "SummarizeInputLimitExceeded", "ok"}
    BY DEF Refusal
  <1>3. Asks' /\ rest' = <<>>
    BY <1>1, RequestStays DEF SumInv
  <1>4. \/ stage' = "start"
        \/ stage' = "done" /\ reply' \in {"EmptyCidrList", "SummarizeInputLimitExceeded"}
    BY <1>1, <1>2
  <1>5. QED
    BY <1>3, <1>4 DEF SumInv

\* A step of the call loses no address of what is summarized.
LEMMA SumStep ==
    ASSUME SumInv, CalcNext
    PROVE  SumInv'
PROOF
  <1>1. request' = request
    BY CallKeepsRequest
  <1> SUFFICES ASSUME request.tool = "summarize"
               PROVE  SumInv'
    BY <1>1 DEF SumInv
  <1>2. CASE Call
    BY <1>2, SumCallStep
  <1>3. CASE Normalize
    BY <1>3, NormalizeStep
  <1>4. CASE Keep
    BY <1>4, KeepStep
  <1>5. CASE StartMerging
    BY <1>5, StartMergingStep
  <1>6. CASE MergeNext
    BY <1>6, MergeNextStep
  <1>7. CASE Merged
    BY <1>7, MergedStep
  <1>8. CASE StartCarving \/ Carve \/ RefuseToCarve \/ Carved \/ StartRange \/ CoverNext
             \/ RangeCovered \/ Generate \/ Root \/ Branch \/ Grown
    BY <1>8 DEF StartCarving, Carve, RefuseToCarve, Carved, Carving, StartRange, CoverNext,
       RangeCovered, Generate, Root, Branch, Grown, Doing
  <1>9. QED
    BY <1>2, <1>3, <1>4, <1>5, <1>6, <1>7, <1>8 DEF CalcNext

\* A range and a summary stay what they are while nothing happens.
LEMMA CoverStutters ==
    ASSUME UNCHANGED calcVars
    PROVE  (RangeInv => RangeInv') /\ (SumInv => SumInv')
PROOF
  <1>1. UNCHANGED <<request, pending, rest, cursor, cidrs, reply, stage>>
    BY DEF calcVars
  <1>2. /\ list' = list /\ limit' = limit /\ (Asks' <=> Asks)
        /\ CidrsOf(request.v4)' = CidrsOf(request.v4)
        /\ \A c : Addresses(c)' = Addresses(c)
        /\ \A S : Maximal(S)' = Maximal(S)
        /\ \A c, d : Siblings(c, d)' = Siblings(c, d)
        /\ \A S : Space(S)' = Space(S)
        /\ request.tool = "summarize" => Whole' = Whole
        /\ Kept => Kept'
    BY <1>1, RequestStays, MaximalStays, SumStays
  <1>3. RangeInv => RangeInv'
    <2>1. \A e : CoveredTo(e) => CoveredTo(e)'
      BY <1>1, CoverQuiet
    <2>2. PICK e : e = cursor
      OBVIOUS
    <2>3. PICK l : l = list[2] + 1
      OBVIOUS
    <2>4. CoveredTo(cursor) => CoveredTo(cursor)'
      BY <2>1, <2>2, <1>1
    <2>5. CoveredTo(list[2] + 1) => CoveredTo(list[2] + 1)'
      BY <2>1, <2>3, <1>2
    <2>6. InRange' <=> InRange
      BY <1>1 DEF InRange, WholeSpace
    <2>7. (\E f \in list[1] .. list[2] + 1 : CoveredTo(f)) =>
             (\E f \in list[1] .. list[2] + 1 : CoveredTo(f))'
      BY <2>1, <1>2
    <2>8. QED
      BY <2>4, <2>5, <2>6, <2>7, <1>1, <1>2 DEF RangeInv
  <1>4. ASSUME SumInv
        PROVE  SumInv'
    <2> SUFFICES ASSUME request.tool = "summarize"
                 PROVE  SumInv'
      BY <1>1 DEF SumInv
    <2>1. Keeping => Keeping'
      BY <1>1, <1>2 DEF Keeping
    <2>2. Merging => Merging'
      BY <1>1, <1>2 DEF Merging
    <2>3. Ordered => Ordered'
      BY <1>1 DEF Ordered
    <2>4. Maximal(Whole)' = Maximal(Whole)
      BY <1>2
    <2>5. QED
      BY <2>1, <2>2, <2>3, <2>4, <1>1, <1>2, <1>4 DEF SumInv
  <1>5. QED
    BY <1>3, <1>4

\* What a range or a list of CIDRs comes to: its largest CIDRs, each once and
\* in order, and a range is refused only if those are more than the limit.
\* ExactCover says nothing of the range of all of IPv6, whose size leaves the
\* word.
THEOREM ExactlyCovered == CalcSpec => []ExactCover
PROOF
  <1> DEFINE Inv == RangeInv /\ SumInv
  <1>1. CalcInit => Inv
    BY RangeInit, SumInit DEF CalcInit
  <1>2. Inv /\ [CalcNext]_calcVars => Inv'
    <2> SUFFICES ASSUME Inv, [CalcNext]_calcVars
                 PROVE  Inv'
      OBVIOUS
    <2>1. RangeInv' /\ SumInv'
      BY RangeStep, SumStep, CoverStutters
    <2>2. QED
      BY <2>1
  <1>3. Inv => ExactCover
    <2> SUFFICES ASSUME Inv, ~ WholeSpace(request)
                 PROVE  ExactCover
      BY DEF ExactCover
    <2>1. CASE request.tool = "from_range"
      BY <2>1, RangeCoveredExactly DEF InRange
    <2>2. CASE request.tool = "summarize"
      BY <2>2 DEF SumInv, ExactCover
    <2>3. CASE request.tool \notin {"from_range", "summarize"}
      BY <2>3 DEF ExactCover
    <2>4. QED
      BY <2>1, <2>2, <2>3
  <1>4. QED
    BY <1>1, <1>2, <1>3, PTL DEF CalcSpec

-----------------------------------------------------------------------------
(* generate_ipv4_subnets and generate_ipv6_subnets.                        *)

\* What a request for a split holds.
LEMMA SplitAsks ==
    ASSUME Asks
    PROVE  /\ request.tool = "generate" =>
                /\ supernet \in CidrsOf(request.v4) /\ list \in Seq(0 .. width + 1)
                /\ DOMAIN list = {1}
                /\ limit = NULL \/ limit \in Nat
           /\ request.tool = "hierarchy" =>
                supernet \in CidrsOf(request.v4) /\ list \in Seq(0 .. width + 1)
PROOF
  <1>1. PICK v4 \in BOOLEAN : request \in Requests(v4)
    BY DEF Asks
  <1>2. request.v4 = v4
    BY <1>1 DEF Requests
  <1>3. width = bits_of(v4)
    BY <1>2 DEF width
  <1>4. \A m \in Int : \A S : Lists(S, m) \subseteq Seq(S)
    BY DEF Lists
  <1>5. ASSUME request.tool = "generate"
        PROVE  /\ supernet \in CidrsOf(request.v4) /\ list \in Seq(0 .. width + 1)
               /\ DOMAIN list = {1}
               /\ limit = NULL \/ limit \in Nat
    <2>1. /\ supernet \in CidrsOf(v4) /\ list \in [1 .. 1 -> 0 .. bits_of(v4) + 1]
          /\ limit \in (0 .. Pow2[Half] - 1) \cup {NULL}
      BY <1>1, <1>5 DEF Requests, list, limit, supernet
    <2>2. list \in Seq(0 .. bits_of(v4) + 1) /\ DOMAIN list = {1}
      <3>1. 1 \in Nat /\ 1 .. 1 = {1}
        OBVIOUS
      <3>2. DOMAIN list = {1}
        BY <2>1, <3>1
      <3>3. \A k \in Nat : \A S : [1 .. k -> S] \subseteq Seq(S)
        OBVIOUS
      <3>4. list \in Seq(0 .. bits_of(v4) + 1)
        BY <2>1, <3>1, <3>3
      <3>5. QED
        BY <3>2, <3>4
    <2>3. Pow2[Half] \in Nat
      BY HalfAssumption, Pow2Values
    <2>4. QED
      BY <2>1, <2>2, <2>3, <1>2, <1>3
  <1>6. ASSUME request.tool = "hierarchy"
        PROVE  supernet \in CidrsOf(request.v4) /\ list \in Seq(0 .. width + 1)
    <2>1. supernet \in CidrsOf(v4) /\ list \in Lists(0 .. bits_of(v4) + 1, MaxList)
      BY <1>1, <1>6 DEF Requests, list, supernet
    <2>2. list \in Seq(0 .. bits_of(v4) + 1)
      BY <2>1, <1>4, ListAssumption
    <2>3. QED
      BY <2>1, <2>2, <1>2, <1>3
  <1>7. QED
    BY <1>5, <1>6

\* The children of a CIDR lie in it one behind the other, and fill it when
\* there are as many as count_subnets says.
LEMMA ChildrenAre ==
    ASSUME Asks, NEW c \in CidrsOf(request.v4), NEW p \in c[2] + 1 .. width,
           NEW n \in 0 .. count_subnets(c, p), NEW d, d = Children(c, p, n)
    PROVE  /\ d \in Seq(CidrsOf(request.v4)) /\ Len(d) = n /\ DOMAIN d = 1 .. n
           /\ \A i \in 1 .. n :
                /\ d[i] \in CidrsOf(request.v4) /\ d[i][2] = p
                /\ c[1] <= d[i][1] /\ LastOf(d[i]) <= LastOf(c)
           /\ \A i, j \in 1 .. n : i < j => LastOf(d[i]) < d[j][1]
           /\ n = count_subnets(c, p) =>
                \A a \in c[1] .. LastOf(c) : \E i \in 1 .. n : d[i][1] <= a /\ a <= LastOf(d[i])
PROOF
  <1>1. /\ c[1] \in Nat /\ c[2] \in Nat /\ width \in Nat
        /\ c[1] % Pow2[width - c[2]] = 0
        /\ LastOf(c) \in Nat /\ LastOf(c) < Pow2[width] /\ Pow2[width] \in Nat
    BY PairFacts
  <1>2. width \in 1 .. Word /\ Word \in Nat /\ request.v4 \in BOOLEAN
        /\ width = bits_of(request.v4)
    BY AsksFacts, WordNat
  <1>3. /\ p \in Nat /\ p - c[2] \in Nat /\ width - p \in Nat /\ width - p \in 0 .. Word - 1
        /\ (width - p) + (p - c[2]) = width - c[2] /\ p \in 0 .. width
        /\ width - p <= width - c[2] /\ width - c[2] \in Nat
    BY <1>1, <1>2
  <1>4. PICK s \in Nat \ {0} : s = Pow2[width - p]
    BY <1>3, Pow2Values
  <1>5. PICK N \in Nat \ {0} : N = Pow2[p - c[2]]
    BY <1>3, Pow2Values
  <1>6. Pow2[width - c[2]] = N * s
    BY <1>3, <1>4, <1>5, Pow2Sum
  <1>7. n \in 0 .. N /\ n \in Nat
    BY <1>5 DEF count_subnets
  <1>8. shl_one(width - p) = s
    <2>1. (width - p) % Word = width - p
      BY <1>2, <1>3, WordNat
    <2>2. QED
      BY <2>1, <1>4 DEF shl_one
  <1>9. PICK b \in Nat : b = c[1]
    BY <1>1
  <1>10. PICK l \in Nat : l = LastOf(c)
    BY <1>1
  <1>11. l = b + N * s - 1
    BY <1>6, <1>9, <1>10 DEF LastOf
  <1>12. b % s = 0
    BY <1>1, <1>3, <1>4, <1>9, Aligned
  <1>13. d = [i \in 1 .. n |-> <<b + (i - 1) * s, p>>]
    BY <1>8, <1>9 DEF Children
  <1>14. \A i, j \in Nat : i <= j => i * s <= j * s
    <2> SUFFICES ASSUME NEW i \in Nat, NEW j \in Nat, i <= j
                 PROVE  i * s <= j * s
      OBVIOUS
    <2>1. j - i \in Nat /\ i + (j - i) = j
      OBVIOUS
    <2>2. (i + (j - i)) * s = i * s + (j - i) * s
      BY <2>1, Distributes
    <2>3. (j - i) * s \in Nat /\ i * s \in Nat
      BY <2>1
    <2>4. QED
      BY ONLY <2>1, <2>2, <2>3
  <1>15. ASSUME NEW i \in 1 .. n
         PROVE  /\ d[i] = <<b + (i - 1) * s, p>> /\ d[i] \in CidrsOf(request.v4)
                /\ d[i][1] = b + (i - 1) * s /\ d[i][2] = p
                /\ LastOf(d[i]) = b + i * s - 1 /\ b <= d[i][1] /\ LastOf(d[i]) <= l
                /\ d[i][1] \in Nat
    <2>1. i - 1 \in Nat /\ i \in Nat /\ i <= N /\ (i - 1) + 1 = i
      BY <1>7
    <2>2. (i - 1) * s \in Nat /\ i * s \in Nat /\ N * s \in Nat
      BY <2>1
    <2>3. i * s = (i - 1) * s + s
      <3>1. ((i - 1) + 1) * s = (i - 1) * s + 1 * s
        BY <2>1, Distributes
      <3>2. QED
        BY <3>1, <2>1
    <2>4. i * s <= N * s
      BY <2>1, <1>14
    <2>5. d[i] = <<b + (i - 1) * s, p>>
      BY <1>13
    <2>6. d[i][1] = b + (i - 1) * s /\ d[i][2] = p
      BY <2>5
    <2>7. LastOf(d[i]) = b + i * s - 1
      <3>1. LastOf(d[i]) = d[i][1] + s - 1
        BY <2>6, <1>4 DEF LastOf
      <3>2. QED
        BY <3>1, <2>2, <2>3, <2>6
    <2>8. b <= d[i][1] /\ LastOf(d[i]) <= l /\ d[i][1] \in Nat /\ d[i][1] <= l
      BY <2>2, <2>3, <2>4, <2>6, <2>7, <1>11
    <2>9. d[i][1] % s = 0
      <3>1. PICK m \in Nat : m = (i - 1) * s
        BY <2>2
      <3>2. m % s = 0
        BY <2>1, <3>1, Multiples
      <3>3. (b + m) % s = 0
        BY <3>2, <1>12, MultiplesSum
      <3>4. QED
        BY <2>6, <3>1, <3>3
    <2>10. d[i][1] \in 0 .. Pow2[width] - 1
      BY <2>8, <1>1, <1>10
    <2>11. d[i] \in (0 .. Pow2[width] - 1) \X (0 .. width)
      BY <2>5, <2>6, <2>10, <1>3
    <2>12. d[i] \in CidrsOf(request.v4)
      BY <2>6, <2>9, <2>11, <1>2, <1>4, PairsForm
    <2>13. QED
      BY <2>5, <2>6, <2>7, <2>8, <2>12
  <1>16. d \in Seq(CidrsOf(request.v4)) /\ Len(d) = n /\ DOMAIN d = 1 .. n
    <2>1. d \in [1 .. n -> CidrsOf(request.v4)]
      BY <1>13, <1>15
    <2>2. QED
      BY <2>1, <1>7
  <1>17. ASSUME NEW i \in 1 .. n, NEW j \in 1 .. n, i < j
         PROVE  LastOf(d[i]) < d[j][1]
    <2>1. LastOf(d[i]) = b + i * s - 1 /\ d[j][1] = b + (j - 1) * s
      BY <1>15
    <2>2. i <= j - 1 /\ i \in Nat /\ j - 1 \in Nat
      BY <1>17
    <2>3. i * s <= (j - 1) * s /\ i * s \in Nat /\ (j - 1) * s \in Nat
      BY <2>2, <1>14
    <2>4. QED
      BY <2>1, <2>3
  <1>18. ASSUME n = count_subnets(c, p), NEW a \in c[1] .. LastOf(c)
         PROVE  \E i \in 1 .. n : d[i][1] <= a /\ a <= LastOf(d[i])
    <2>1. n = N
      BY <1>5, <1>18 DEF count_subnets
    <2>2. PICK x \in Nat : a = b + x
      <3>1. a - b \in Nat /\ a = b + (a - b)
        BY <1>9, <1>10
      <3>2. QED
        BY <3>1
    <2>3. x < N * s
      <3>1. a <= l /\ a \in Nat
        BY <1>9, <1>10
      <3>2. N * s \in Nat
        OBVIOUS
      <3>3. QED
        BY <3>1, <3>2, <2>2, <1>11
    <2>4. /\ x - (x % s) \in Nat /\ (x - (x % s)) % s = 0
          /\ x - (x % s) <= x /\ x < (x - (x % s)) + s
      BY Floor
    <2>5. PICK q \in Nat : x - (x % s) = q * s
      BY <2>4, Multiples
    <2>6. q * s <= x /\ x < q * s + s /\ q * s \in Nat
      BY <2>4, <2>5
    <2>7. q < N
      <3>1. N * s \in Nat
        OBVIOUS
      <3>2. ~ (N <= q)
        BY <3>1, <2>3, <2>6, <1>14
      <3>3. QED
        BY <3>2
    <2>8. q + 1 \in 1 .. n /\ (q + 1) - 1 = q
      BY <2>1, <2>7
    <2>9. (q + 1) * s = q * s + s
      <3>1. (q + 1) * s = q * s + 1 * s
        BY Distributes
      <3>2. QED
        BY <3>1
    <2>10. d[q + 1][1] = b + q * s /\ LastOf(d[q + 1]) = b + (q + 1) * s - 1
      BY <2>8, <1>15
    <2>11. d[q + 1][1] <= a /\ a <= LastOf(d[q + 1])
      BY <2>2, <2>6, <2>9, <2>10
    <2>12. QED
      BY <2>8, <2>11
  <1>19. QED
    BY <1>9, <1>10, <1>15, <1>16, <1>17, <1>18

\* The next step of a CIDR.
LEMMA NextIs ==
    ASSUME NEW c, NEW p \in Deeper(c), Deeper(c) \subseteq Nat, \A q \in Deeper(c) : p <= q
    PROVE  NextStep(c) = p
PROOF
  <1>1. NextStep(c) \in Deeper(c) /\ \A r \in Deeper(c) : NextStep(c) <= r
    <2>1. \E q \in Deeper(c) : \A r \in Deeper(c) : q <= r
      OBVIOUS
    <2>2. QED
      BY <2>1 DEF NextStep
  <1>2. NextStep(c) <= p /\ p <= NextStep(c) /\ p \in Nat /\ NextStep(c) \in Nat
    BY <1>1
  <1>3. QED
    BY <1>2

\* CIDRs of the next prefix that do not overlap and in which every address of a
\* CIDR lies partition it.
LEMMA PartitionIs ==
    ASSUME Asks, cidrs \in Seq(CidrsOf(request.v4)), NEW c \in CidrsOf(request.v4),
           NEW p \in Nat, p = NextStep(c), c[2] <= p,
           \A a \in c[1] .. LastOf(c) : \E i \in DOMAIN cidrs :
              cidrs[i][2] = p /\ cidrs[i][1] <= a /\ a <= LastOf(cidrs[i]),
           \A i, j \in DOMAIN cidrs :
              i < j /\ cidrs[i][2] = p /\ cidrs[j][2] = p => LastOf(cidrs[i]) < cidrs[j][1]
    PROVE  /\ Partitioned(c)
           /\ \A i \in ChildrenOf(c) : c[1] <= cidrs[i][1] /\ LastOf(cidrs[i]) <= LastOf(c)
PROOF
  <1>1. ASSUME NEW i \in DOMAIN cidrs
        PROVE  /\ cidrs[i] \in CidrsOf(request.v4)
               /\ cidrs[i][1] \in Nat /\ LastOf(cidrs[i]) \in Nat
               /\ cidrs[i][1] <= LastOf(cidrs[i])
               /\ cidrs[i][1] \in 0 .. Pow2[width] - 1
               /\ Addresses(cidrs[i]) = cidrs[i][1] .. LastOf(cidrs[i])
    <2>1. cidrs[i] \in CidrsOf(request.v4)
      OBVIOUS
    <2>2. /\ cidrs[i][1] \in Nat /\ LastOf(cidrs[i]) \in Nat
          /\ cidrs[i][1] <= LastOf(cidrs[i]) /\ LastOf(cidrs[i]) < Pow2[width]
          /\ Pow2[width] \in Nat
      BY <2>1, PairFacts
    <2>3. QED
      BY <2>1, <2>2, AddressesAre
  <1>2. c[1] \in Nat /\ LastOf(c) \in Nat /\ c[1] <= LastOf(c) /\ Addresses(c) = c[1] .. LastOf(c)
    BY PairFacts, AddressesAre
  <1>3. ASSUME NEW i \in ChildrenOf(c)
        PROVE  /\ i \in DOMAIN cidrs /\ cidrs[i][2] = p
               /\ c[1] <= cidrs[i][1] /\ LastOf(cidrs[i]) <= LastOf(c)
    <2>1. i \in DOMAIN cidrs /\ cidrs[i][2] = p /\ check_contains(c, cidrs[i][1])
      BY DEF ChildrenOf
    <2>2. c[1] <= cidrs[i][1] /\ cidrs[i][1] <= LastOf(c)
      BY <2>1, <1>1, Checks
    <2>3. c[1] <= LastOf(cidrs[i])
      BY <2>1, <2>2, <1>1, <1>2
    <2>4. c[1] <= cidrs[i][1] /\ LastOf(cidrs[i]) <= LastOf(c)
      BY <2>1, <2>2, <2>3, <1>1, PairsNest
    <2>5. QED
      BY <2>1, <2>4
  <1>4. ASSUME NEW a \in c[1] .. LastOf(c)
        PROVE  \E i \in ChildrenOf(c) : a \in Addresses(cidrs[i])
    <2>1. PICK i \in DOMAIN cidrs : cidrs[i][2] = p /\ cidrs[i][1] <= a /\ a <= LastOf(cidrs[i])
      OBVIOUS
    <2>2. a \in Nat /\ c[1] <= a /\ a <= LastOf(c)
      BY <1>2
    <2>3. c[1] <= LastOf(cidrs[i]) /\ cidrs[i][1] <= LastOf(c)
      BY <2>1, <2>2, <1>1, <1>2
    <2>4. c[1] <= cidrs[i][1]
      BY <2>1, <2>3, <1>1, PairsNest
    <2>5. check_contains(c, cidrs[i][1])
      BY <2>3, <2>4, <1>1, Checks
    <2>6. i \in ChildrenOf(c)
      BY <2>1, <2>5 DEF ChildrenOf
    <2>7. a \in Addresses(cidrs[i])
      BY <2>1, <2>2, <1>1
    <2>8. QED
      BY <2>6, <2>7
  <1>5. UNION {Addresses(cidrs[i]) : i \in ChildrenOf(c)} = Addresses(c)
    <2>1. ASSUME NEW i \in ChildrenOf(c)
          PROVE  Addresses(cidrs[i]) \subseteq Addresses(c)
      <3>1. i \in DOMAIN cidrs /\ c[1] <= cidrs[i][1] /\ LastOf(cidrs[i]) <= LastOf(c)
        BY <1>3
      <3>2. QED
        BY <3>1, <1>1, <1>2
    <2>2. \A a \in Addresses(c) : \E i \in ChildrenOf(c) : a \in Addresses(cidrs[i])
      BY <1>2, <1>4
    <2>3. QED
      BY <2>1, <2>2
  <1>6. ASSUME NEW i \in ChildrenOf(c), NEW j \in ChildrenOf(c), i < j
        PROVE  Addresses(cidrs[i]) \cap Addresses(cidrs[j]) = {}
    <2>1. i \in DOMAIN cidrs /\ j \in DOMAIN cidrs /\ LastOf(cidrs[i]) < cidrs[j][1]
      BY <1>3, <1>6
    <2>2. QED
      BY <2>1, <1>1
  <1>7. ASSUME NEW i \in ChildrenOf(c), NEW j \in ChildrenOf(c), i # j
        PROVE  Addresses(cidrs[i]) \cap Addresses(cidrs[j]) = {}
    <2>1. i \in DOMAIN cidrs /\ j \in DOMAIN cidrs /\ DOMAIN cidrs = 1 .. Len(cidrs)
      BY <1>3
    <2>2. i < j \/ j < i
      BY <2>1, <1>7
    <2>3. CASE i < j
      BY <2>3, <1>6
    <2>4. CASE j < i
      BY <2>4, <1>6
    <2>5. QED
      BY <2>2, <2>3, <2>4
  <1>8. QED
    BY <1>3, <1>5, <1>7 DEF Partitioned

\* The arguments of a split that is not refused.
Splits ==
    /\ Asks /\ list[1] \in supernet[2] + 1 .. width
    /\ wanted <= available(supernet, list[1]) /\ wanted <= MAX_GENERATED_SUBNETS

\* What it gives.
Given == Children(supernet, list[1], wanted)

GenerateInv ==
    request.tool = "generate" =>
        /\ Asks
        /\ stage = "start" => Splits
        /\ stage = "done" /\ reply = "ok" =>
             Splits /\ cidrs = Given

\* What is available is never more than count_subnets says, and is less only
\* where it is more than is ever generated.
LEMMA AvailableIs ==
    ASSUME NEW c, NEW p \in Nat, c[2] \in Nat, c[2] <= p
    PROVE  /\ available(c, p) \in Nat \ {0} /\ count_subnets(c, p) \in Nat \ {0}
           /\ available(c, p) <= count_subnets(c, p)
           /\ \/ available(c, p) = count_subnets(c, p)
              \/ available(c, p) = Pow2[Half] - 1 /\ available(c, p) > MAX_GENERATED_SUBNETS
PROOF
  <1>1. PICK m \in Nat : m = p - c[2]
    OBVIOUS
  <1>2. /\ Half \in Nat /\ Pow2[Half] \in Nat \ {0} /\ Pow2[m] \in Nat \ {0}
        /\ MAX_GENERATED_SUBNETS \in Nat /\ MAX_GENERATED_SUBNETS < Pow2[Half] - 1
    BY <1>1, HalfAssumption, Pow2Values
  <1>3. Half <= m => Pow2[Half] <= Pow2[m]
    BY <1>1, <1>2, Pow2Grows
  <1>4. count_subnets(c, p) = Pow2[m]
    BY <1>1 DEF count_subnets
  <1>5. available(c, p) = IF m >= Half THEN Pow2[Half] - 1 ELSE Pow2[m]
    BY <1>1, <1>4 DEF available
  <1>6. QED
    BY <1>1, <1>2, <1>3, <1>4, <1>5

\* A split that is not refused.
LEMMA SplitFacts ==
    ASSUME Splits, request.tool = "generate"
    PROVE  /\ supernet \in CidrsOf(request.v4) /\ list[1] \in supernet[2] + 1 .. width
           /\ wanted \in 0 .. count_subnets(supernet, list[1])
           /\ limit = NULL => wanted = count_subnets(supernet, list[1])
           /\ limit # NULL => wanted = limit
PROOF
  <1>1. /\ Asks /\ list[1] \in supernet[2] + 1 .. width
        /\ wanted <= available(supernet, list[1]) /\ wanted <= MAX_GENERATED_SUBNETS
    BY DEF Splits
  <1>2. supernet \in CidrsOf(request.v4) /\ (limit = NULL \/ limit \in Nat)
    BY <1>1, SplitAsks
  <1>3. supernet[2] \in Nat /\ width \in Nat
    BY <1>1, <1>2, PairFacts
  <1>4. list[1] \in Nat /\ supernet[2] <= list[1]
    BY <1>1, <1>3
  <1>5. PICK m : m = list[1]
    OBVIOUS
  <1>6. /\ available(supernet, m) \in Nat /\ count_subnets(supernet, m) \in Nat
        /\ available(supernet, m) <= count_subnets(supernet, m)
        /\ \/ available(supernet, m) = count_subnets(supernet, m)
           \/ available(supernet, m) > MAX_GENERATED_SUBNETS
    BY <1>3, <1>4, <1>5, AvailableIs
  <1>7. MAX_GENERATED_SUBNETS \in Nat
    BY HalfAssumption
  <1>8. limit = NULL => wanted = count_subnets(supernet, m)
    BY <1>1, <1>5, <1>6, <1>7 DEF wanted
  <1>9. limit # NULL => wanted = limit
    BY DEF wanted
  <1>10. wanted \in Nat
    BY <1>2, <1>6, <1>8, <1>9
  <1>11. wanted \in 0 .. count_subnets(supernet, m)
    BY <1>1, <1>5, <1>6, <1>10
  <1>12. QED
    BY <1>1, <1>2, <1>5, <1>8, <1>9, <1>11

\* What is asked for stays the same during a call.
LEMMA SplitStays ==
    ASSUME request' = request
    PROVE  /\ Splits' <=> Splits
           /\ Given' = Given
PROOF
  <1>1. /\ width' = width /\ list' = list /\ supernet' = supernet /\ limit' = limit
        /\ (Asks' <=> Asks)
    BY RequestStays
  <1>2. wanted' = wanted
    BY <1>1 DEF wanted
  <1>3. QED
    BY <1>1, <1>2 DEF Splits, Given, Children

\* The steps of a split.
LEMMA GenerateStep ==
    ASSUME GenerateInv, CalcNext
    PROVE  GenerateInv'
PROOF
  <1>1. request' = request
    BY CallKeepsRequest
  <1> SUFFICES ASSUME request.tool = "generate"
               PROVE  GenerateInv'
    BY <1>1 DEF GenerateInv
  <1>2. (Asks' <=> Asks) /\ (Splits' <=> Splits)
    BY <1>1, RequestStays, SplitStays
  <1>3. Asks /\ Asks'
    BY <1>2 DEF GenerateInv
  <1>4. CASE Call
    <2>1. reply' = Refusal /\ stage' = IF Refusal = "ok" THEN "start" ELSE "done"
      BY <1>4 DEF Call
    <2>2. Refusal = GenerateRefusal
      BY DEF Refusal
    <2>3. CASE Refusal = "ok"
      <3>1. /\ ~ (list[1] <= supernet[2]) /\ ~ (list[1] > width)
            /\ ~ (wanted > available(supernet, list[1]))
            /\ ~ (wanted > MAX_GENERATED_SUBNETS)
        BY <2>2, <2>3 DEF GenerateRefusal
      <3>2. /\ supernet \in CidrsOf(request.v4) /\ list \in Seq(0 .. width + 1)
            /\ DOMAIN list = {1} /\ (limit = NULL \/ limit \in Nat)
        BY <1>3, SplitAsks
      <3>3. supernet[2] \in Nat /\ width \in Nat
        BY <1>3, <3>2, PairFacts
      <3>4. list[1] \in 0 .. width + 1
        <4>1. PICK S : S = 0 .. width + 1
          OBVIOUS
        <4>2. PICK q : q = list
          OBVIOUS
        <4>3. q \in Seq(S) /\ 1 \in DOMAIN q
          BY <3>2, <4>1, <4>2
        <4>4. q[1] \in S
          BY ONLY <4>3
        <4>5. QED
          BY ONLY <4>1, <4>2, <4>4
      <3>5. list[1] \in supernet[2] + 1 .. width /\ list[1] \in Nat /\ supernet[2] <= list[1]
        BY <3>1, <3>3, <3>4
      <3>6. PICK m : m = list[1]
        OBVIOUS
      <3>7. available(supernet, m) \in Nat
        BY <3>3, <3>5, <3>6, AvailableIs
      <3>8. wanted \in Nat
        BY <3>2, <3>6, <3>7 DEF wanted
      <3>9. Splits
        BY <3>1, <3>5, <3>6, <3>7, <3>8, <1>3, HalfAssumption DEF Splits
      <3>10. QED
        BY <2>1, <2>3, <3>9, <1>2, <1>3 DEF GenerateInv
    <2>4. CASE Refusal # "ok"
      BY <2>1, <2>4, <1>3 DEF GenerateInv
    <2>5. QED
      BY <2>3, <2>4
  <1>5. CASE Generate
    <2>1. stage = "start" /\ stage' = "done" /\ cidrs' = Given
      BY <1>5 DEF Generate, Doing, Answer, Given
    <2>2. cidrs' = Given'
      BY <2>1, <1>1, SplitStays
    <2>3. QED
      BY <2>1, <2>2, <1>2, <1>3 DEF GenerateInv
  <1>6. CASE StartCarving \/ Carve \/ RefuseToCarve \/ Carved \/ Normalize \/ Keep
             \/ StartMerging \/ MergeNext \/ Merged \/ StartRange \/ CoverNext \/ RangeCovered
             \/ Root \/ Branch \/ Grown
    BY <1>6 DEF StartCarving, Carve, RefuseToCarve, Carved, Carving, Normalize, Keep,
       StartMerging, MergeNext, Merged, StartRange, CoverNext, RangeCovered, Root, Branch,
       Grown, Doing
  <1>7. QED
    BY <1>4, <1>5, <1>6 DEF CalcNext

\* What a split gives.
LEMMA GenerateDone ==
    ASSUME GenerateInv, request.tool = "generate"
    PROVE  SplitsPartition
PROOF
  <1> SUFFICES ASSUME stage = "done", reply = "ok"
               PROVE  /\ limit = NULL => /\ Partitioned(supernet)
                                         /\ Len(cidrs) = count_subnets(supernet, list[1])
                      /\ limit # NULL => Len(cidrs) = limit /\ ChildrenOf(supernet) = DOMAIN cidrs
    BY DEF SplitsPartition, Answered
  <1>1. Asks /\ Splits /\ cidrs = Children(supernet, list[1], wanted)
    BY DEF GenerateInv, Given
  <1>2. /\ supernet \in CidrsOf(request.v4) /\ list[1] \in supernet[2] + 1 .. width
        /\ wanted \in 0 .. count_subnets(supernet, list[1])
        /\ limit = NULL => wanted = count_subnets(supernet, list[1])
        /\ limit # NULL => wanted = limit
    BY <1>1, SplitFacts
  <1>3. PICK p : p = list[1]
    OBVIOUS
  <1>4. PICK c : c = supernet
    OBVIOUS
  <1>5. PICK n : n = wanted
    OBVIOUS
  <1>6. c \in CidrsOf(request.v4) /\ p \in c[2] + 1 .. width /\ n \in 0 .. count_subnets(c, p)
    BY <1>2, <1>3, <1>4, <1>5
  <1>7. cidrs = Children(c, p, n)
    BY <1>1, <1>3, <1>4, <1>5
  <1>8. /\ cidrs \in Seq(CidrsOf(request.v4)) /\ Len(cidrs) = n /\ DOMAIN cidrs = 1 .. n
        /\ \A i \in 1 .. n :
             /\ cidrs[i] \in CidrsOf(request.v4) /\ cidrs[i][2] = p
             /\ c[1] <= cidrs[i][1] /\ LastOf(cidrs[i]) <= LastOf(c)
        /\ \A i, j \in 1 .. n : i < j => LastOf(cidrs[i]) < cidrs[j][1]
        /\ n = count_subnets(c, p) => \A a \in c[1] .. LastOf(c) :
             \E i \in 1 .. n : cidrs[i][1] <= a /\ a <= LastOf(cidrs[i])
    BY <1>1, <1>6, <1>7, ChildrenAre
  <1>9. c[2] \in Nat /\ width \in Nat /\ c[1] \in Nat /\ LastOf(c) \in Nat
    BY <1>1, <1>6, PairFacts
  <1>10. p \in Nat /\ c[2] < p
    BY <1>6, <1>9
  <1>11. NextStep(c) = p
    <2>1. list \in Seq(0 .. width + 1) /\ DOMAIN list = {1}
      BY <1>1, SplitAsks
    <2>2. ToSet(list) = {p}
      BY <2>1, <1>3 DEF ToSet
    <2>3. Deeper(c) = {p}
      BY <2>2, <1>10 DEF Deeper
    <2>4. QED
      BY <2>3, <1>10, NextIs
  <1>12. ASSUME n = count_subnets(c, p)
         PROVE  Partitioned(c)
    <2>1. \A a \in c[1] .. LastOf(c) : \E i \in DOMAIN cidrs :
             cidrs[i][2] = p /\ cidrs[i][1] <= a /\ a <= LastOf(cidrs[i])
      BY <1>8, <1>12
    <2>2. \A i, j \in DOMAIN cidrs :
             i < j /\ cidrs[i][2] = p /\ cidrs[j][2] = p => LastOf(cidrs[i]) < cidrs[j][1]
      BY <1>8
    <2>3. c[2] <= p
      BY <1>9, <1>10
    <2>4. QED
      BY <2>1, <2>2, <2>3, <1>1, <1>6, <1>8, <1>10, <1>11, PartitionIs
  <1>13. ASSUME NEW i \in DOMAIN cidrs
         PROVE  i \in ChildrenOf(c)
    <2>1. /\ cidrs[i] \in CidrsOf(request.v4) /\ cidrs[i][2] = p
          /\ c[1] <= cidrs[i][1] /\ LastOf(cidrs[i]) <= LastOf(c)
      BY <1>8
    <2>2. /\ cidrs[i][1] \in Nat /\ LastOf(cidrs[i]) \in Nat
          /\ cidrs[i][1] <= LastOf(cidrs[i]) /\ LastOf(cidrs[i]) < Pow2[width]
          /\ Pow2[width] \in Nat
      BY <2>1, <1>1, PairFacts
    <2>3. cidrs[i][1] \in 0 .. Pow2[width] - 1 /\ cidrs[i][1] <= LastOf(c)
      BY <2>1, <2>2, <1>9
    <2>4. check_contains(c, cidrs[i][1])
      BY <2>1, <2>3, <1>1, <1>6, Checks
    <2>5. QED
      BY <2>1, <2>4, <1>11 DEF ChildrenOf
  <1>14. ChildrenOf(c) = DOMAIN cidrs
    BY <1>13 DEF ChildrenOf
  <1>15. QED
    BY <1>2, <1>3, <1>4, <1>5, <1>8, <1>12, <1>14

-----------------------------------------------------------------------------
(* build_ipv4_tree and build_ipv6_tree.                                    *)

\* `validated' says of each step what validate_step makes of the one before.
LEMMA ValidatedIs ==
    ASSUME Len(list) \in Nat
    PROVE  /\ validated[0] = [reply |-> "ok", prev |-> supernet[2], level |-> 1, total |-> 0]
           /\ \A k \in 1 .. Len(list) : validated[k] = validate_step(validated[k - 1], list[k])
PROOF
  <1> DEFINE N == Len(list)
             none == [reply |-> "ok", prev |-> supernet[2], level |-> 1, total |-> 0]
             step(acc, k) == validate_step(acc, list[k])
             Is(g, n) == g = [k \in 0 .. n |-> IF k = 0 THEN none ELSE step(g[k - 1], k)]
             S == {n \in Nat : \E g : Is(g, n)}
  <1> HIDE DEF N, none, step
  <1>1. 0 \in S
    <2>1. PICK g : g = [k \in 0 .. 0 |-> none]
      OBVIOUS
    <2>2. ASSUME NEW k \in 0 .. 0
          PROVE  g[k] = IF k = 0 THEN none ELSE step(g[k - 1], k)
      BY <2>1
    <2>3. g = [k \in 0 .. 0 |-> g[k]]
      BY <2>1
    <2>4. Is(g, 0)
      BY <2>2, <2>3, Zenon
    <2>5. QED
      BY <2>4
  <1>2. ASSUME NEW n \in Nat, n \in S
        PROVE  n + 1 \in S
    <2>1. PICK g : Is(g, n)
      BY <1>2
    <2>2. \A k \in 0 .. n : g[k] = IF k = 0 THEN none ELSE step(g[k - 1], k)
      <3>1. g = [k \in 0 .. n |-> IF k = 0 THEN none ELSE step(g[k - 1], k)]
        BY <2>1
      <3> HIDE DEF Is
      <3>2. TAKE k \in 0 .. n
      <3>3. QED
        BY <3>1, Zenon
    <2> HIDE DEF Is, S
    <2>3. PICK h : h = [k \in 0 .. n + 1 |-> IF k = n + 1 THEN step(g[n], n + 1) ELSE g[k]]
      OBVIOUS
    <2>4. ASSUME NEW k \in 0 .. n + 1
          PROVE  h[k] = IF k = 0 THEN none ELSE step(h[k - 1], k)
      <3>1. CASE k = n + 1
        <4>1. h[k] = step(g[n], n + 1) /\ k # 0 /\ k - 1 = n /\ n \in 0 .. n + 1 /\ n # n + 1
          BY <3>1, <2>3
        <4>2. h[n] = g[n]
          BY <4>1, <2>3
        <4>3. QED
          BY <4>1, <4>2, <3>1
      <3>2. CASE k # n + 1
        <4>1. k \in 0 .. n
          BY <3>2
        <4>2. h[k] = g[k]
          BY <3>2, <2>3
        <4>3. CASE k = 0
          BY <4>1, <4>2, <4>3, <2>2
        <4>4. CASE k # 0
          <5>1. k - 1 \in 0 .. n + 1 /\ k - 1 # n + 1
            BY <4>1, <4>4
          <5>2. h[k - 1] = g[k - 1]
            BY <5>1, <2>3
          <5>3. g[k] = step(g[k - 1], k)
            BY <4>1, <4>4, <2>2
          <5>4. QED
            BY <4>2, <4>4, <5>2, <5>3
        <4>5. QED
          BY <4>3, <4>4
      <3>3. QED
        BY <3>1, <3>2
    <2>5. h = [k \in 0 .. n + 1 |-> h[k]]
      BY <2>3
    <2>6. h = [k \in 0 .. n + 1 |-> IF k = 0 THEN none ELSE step(h[k - 1], k)]
      BY <2>4, <2>5, Zenon
    <2>7. QED
      BY <2>6 DEF Is, S
  <1>3. N \in S
    <2> HIDE DEF S
    <2>1. Nat \subseteq S
      BY <1>1, <1>2, Induction
    <2>2. QED
      BY <2>1 DEF N
  <1>4. \E g : g = [k \in 0 .. N |-> IF k = 0 THEN none ELSE step(g[k - 1], k)]
    BY <1>3
  <1>5. validated = [k \in 0 .. N |-> IF k = 0 THEN none ELSE step(validated[k - 1], k)]
    BY <1>4, Zenon DEF validated, N, none, step
  <1>6. ASSUME NEW k \in 0 .. N
        PROVE  validated[k] = IF k = 0 THEN none ELSE step(validated[k - 1], k)
    BY <1>5, Zenon
  <1>7. N \in Nat /\ 0 \in 0 .. N
    BY DEF N
  <1>8. validated[0] = none
    BY <1>6, <1>7
  <1>9. ASSUME NEW k \in 1 .. N
        PROVE  validated[k] = step(validated[k - 1], k)
    <2>1. k \in 0 .. N /\ k # 0
      BY <1>7
    <2>2. QED
      BY <2>1, <1>6
  <1>10. QED
    BY <1>8, <1>9 DEF N, none, step

\* What validate_steps keeps of the steps it has passed.
Passed == [reply : {"ok"}, prev : Nat, level : Nat \ {0}, total : Nat]

\* A valid step is deeper than the one before, and multiplies the nodes of its
\* level: nothing saturates, for that would be refused.
LEMMA StepAdds ==
    ASSUME NEW acc \in Passed, NEW s \in Nat,
           validate_step(acc, s).reply = "ok"
    PROVE  /\ s <= width /\ acc.prev < s
           /\ validate_step(acc, s) =
                [reply |-> "ok", prev |-> s, level |-> acc.level * Pow2[s - acc.prev],
                 total |-> acc.total + acc.level * Pow2[s - acc.prev]]
           /\ validate_step(acc, s) \in Passed
PROOF
  <1>1. /\ acc = [reply |-> acc.reply, prev |-> acc.prev, level |-> acc.level, total |-> acc.total]
        /\ acc.reply = "ok"
        /\ acc.prev \in Nat /\ acc.level \in Nat \ {0} /\ acc.total \in Nat
    BY DEF Passed
  <1>2. ~ (s > width)
    <2>1. [acc EXCEPT !.reply = "InvalidPrefixLength"].reply = "InvalidPrefixLength"
      BY <1>1
    <2>2. QED
      BY <2>1, <1>1 DEF validate_step
  <1>3. ~ (s <= acc.prev)
    <2>1. PICK e : e = IF acc.total = 0 THEN "InvalidSubnetSplit" ELSE "InvalidInput"
      OBVIOUS
    <2>2. [acc EXCEPT !.reply = e].reply = e /\ e # "ok"
      BY <2>1, <1>1
    <2>3. ASSUME s <= acc.prev
          PROVE  validate_step(acc, s) = [acc EXCEPT !.reply = e]
      BY <2>1, <2>3, <1>1, <1>2 DEF validate_step
    <2>4. QED
      BY <2>2, <2>3
  <1>4. validate_step(acc, s) = Fanout(acc, s)
    BY <1>1, <1>2, <1>3 DEF validate_step
  <1>5. PICK c : c = <<0, acc.prev>>
    OBVIOUS
  <1>6. PICK a : a = available(c, s)
    OBVIOUS
  <1>7. PICK f : f = Pow2[s - acc.prev]
    OBVIOUS
  <1>8. PICK u : u = u64(acc.level * a)
    OBVIOUS
  <1>9. PICK t : t = u64(acc.total + u)
    OBVIOUS
  <1>10. Fanout(acc, s) =
           [reply |-> IF t > MAX_GENERATED_SUBNETS THEN "SubnetLimitExceeded" ELSE "ok",
            prev |-> s, level |-> u, total |-> t]
    BY <1>5, <1>6, <1>8, <1>9 DEF Fanout
  <1>11. ~ (t > MAX_GENERATED_SUBNETS)
    BY <1>4, <1>10
  <1>12. PICK top \in Nat : top = Pow2[Half] - 1 /\ MAX_GENERATED_SUBNETS < top
    <2>1. Pow2[Half] \in Nat \ {0}
      BY HalfAssumption, Pow2Values
    <2>2. Pow2[Half] - 1 \in Nat
      BY <2>1
    <2>3. QED
      BY <2>2, HalfAssumption
  <1>13. \A n \in Nat : u64(n) = IF n > top THEN top ELSE n
    BY <1>12 DEF u64
  <1>14. c[2] = acc.prev /\ c[2] \in Nat /\ c[2] <= s
    BY <1>1, <1>3, <1>5
  <1>15. count_subnets(c, s) = f
    BY <1>7, <1>14 DEF count_subnets
  <1>16. /\ a \in Nat \ {0} /\ f \in Nat \ {0}
         /\ a = f \/ a = top
    BY <1>6, <1>12, <1>14, <1>15, AvailableIs
  <1>17. PICK m \in Nat : m = acc.level * a
    BY <1>1, <1>16
  <1>18. m >= a
    <2>1. PICK l \in Nat \ {0} : l = acc.level
      BY <1>1
    <2>2. l = 1 + (l - 1) /\ l - 1 \in Nat
      OBVIOUS
    <2>3. l * a = 1 * a + (l - 1) * a
      BY <2>2, <1>16, Distributes
    <2>4. (l - 1) * a \in Nat
      BY <2>2, <1>16
    <2>5. QED
      BY <2>1, <2>3, <2>4, <1>16, <1>17
  <1>19. u = IF m > top THEN top ELSE m
    BY <1>8, <1>13, <1>17
  <1>20. u \in Nat
    BY <1>19
  <1>21. PICK n \in Nat : n = acc.total
    BY <1>1
  <1>22. t = IF n + u > top THEN top ELSE n + u
    <2>1. n + u \in Nat
      BY <1>20
    <2>2. QED
      BY <2>1, <1>9, <1>13, <1>21
  <1>23. MAX_GENERATED_SUBNETS \in Nat
    BY HalfAssumption
  <1>24. t = n + u /\ u < top
    BY <1>11, <1>12, <1>20, <1>22, <1>23
  <1>25. u = m /\ a # top
    BY <1>18, <1>19, <1>24, <1>16
  <1>26. u = acc.level * f /\ u # 0
    BY <1>16, <1>17, <1>18, <1>25
  <1>27. s <= width /\ acc.prev < s
    <2>1. width \in Nat
      BY WordNat DEF width, bits_of
    <2>2. QED
      BY <2>1, <1>1, <1>2, <1>3
  <1>28. validate_step(acc, s) = [reply |-> "ok", prev |-> s, level |-> u, total |-> n + u]
    BY <1>4, <1>10, <1>11, <1>24
  <1>29. validate_step(acc, s) \in Passed
    BY <1>20, <1>26, <1>28 DEF Passed
  <1>30. QED
    BY <1>7, <1>21, <1>26, <1>27, <1>28, <1>29

\* The prefix of a level of the tree; the places of its first node, less one,
\* and of its last; and the children that each of its nodes gets.
StepAt(k) == IF k = 0 THEN supernet[2] ELSE list[k]
LevelEnd(k) == validated[k].total + 1
LevelStart(k) == LevelEnd(k) - validated[k].level
Fan(k) == Pow2[list[k + 1] - StepAt(k)]

\* The arguments of a tree that is not refused.
Valid == request.tool = "hierarchy" /\ Asks /\ list # <<>> /\ validate_steps.reply = "ok"

\* What a tree is asked for.
LEMMA ValidFacts ==
    ASSUME Valid
    PROVE  /\ supernet \in CidrsOf(request.v4) /\ supernet[2] \in Nat
           /\ Len(list) \in Nat \ {0} /\ list \in Seq(Nat)
           /\ width \in Nat
PROOF
  <1>1. supernet \in CidrsOf(request.v4) /\ list \in Seq(0 .. width + 1) /\ list # <<>>
    BY SplitAsks DEF Valid
  <1>2. supernet[2] \in Nat /\ width \in Nat
    BY <1>1, PairFacts DEF Valid
  <1>3. PICK S : S = 0 .. width + 1
    OBVIOUS
  <1>4. S \subseteq Nat
    BY <1>2, <1>3
  <1>5. list \in Seq(Nat) /\ Len(list) \in Nat \ {0}
    <2>1. PICK q : q = list
      OBVIOUS
    <2>2. q \in Seq(S) /\ q # <<>>
      BY <2>1, <1>1, <1>3
    <2>3. q \in Seq(Nat) /\ Len(q) \in Nat \ {0}
      <3>1. Len(q) \in Nat /\ q \in [1 .. Len(q) -> S] /\ Len(q) # 0
        BY ONLY <2>2
      <3>2. q \in [1 .. Len(q) -> Nat]
        BY ONLY <3>1, <1>4
      <3>3. QED
        BY ONLY <3>1, <3>2
    <2>4. QED
      BY <2>1, <2>3
  <1>6. QED
    BY <1>1, <1>2, <1>5

\* What the steps of a tree add to it.
LEMMA LevelFacts ==
    ASSUME Valid
    PROVE  /\ LevelEnd(0) = 1 /\ LevelStart(0) = 0
           /\ \A k \in 0 .. Len(list) :
                LevelEnd(k) \in Nat /\ validated[k].level \in Nat \ {0} /\ StepAt(k) \in Nat
           /\ \A k \in 0 .. Len(list) - 1 :
                /\ list[k + 1] \in StepAt(k) + 1 .. width /\ StepAt(k + 1) = list[k + 1]
                /\ Fan(k) \in Nat \ {0}
                /\ LevelStart(k + 1) = LevelEnd(k)
                /\ LevelEnd(k + 1) = LevelEnd(k) + (LevelEnd(k) - LevelStart(k)) * Fan(k)
PROOF
  <1> DEFINE N == Len(list)
  <1>1. /\ N \in Nat \ {0} /\ list \in Seq(Nat) /\ DOMAIN list = 1 .. N /\ supernet[2] \in Nat
        /\ width \in Nat
    BY ValidFacts
  <1>2. /\ validated[0] = [reply |-> "ok", prev |-> supernet[2], level |-> 1, total |-> 0]
        /\ \A k \in 1 .. N : validated[k] = validate_step(validated[k - 1], list[k])
    BY <1>1, ValidatedIs
  <1>3. \A k \in 1 .. N : list[k] \in Nat
    BY <1>1
  <1>4. validated[N].reply = "ok"
    BY DEF Valid, validate_steps
  <1> HIDE DEF N
  <1>5. \A k \in 0 .. N : validated[k].reply = "ok"
    <2> DEFINE T == {n \in Nat : n <= N => validated[N - n].reply = "ok"}
    <2>1. 0 \in T
      BY <1>1, <1>4
    <2>2. ASSUME NEW n \in Nat, n \in T
          PROVE  n + 1 \in T
      <3> SUFFICES ASSUME n + 1 <= N
                   PROVE  validated[N - (n + 1)].reply = "ok"
        OBVIOUS
      <3>1. PICK k \in 1 .. N : k = N - n
        BY <1>1
      <3>2. k - 1 = N - (n + 1) /\ n <= N
        BY <3>1, <1>1
      <3>3. validated[k].reply = "ok"
        BY <3>1, <3>2, <2>2
      <3>4. validated[k] = validate_step(validated[k - 1], list[k])
        BY <1>2
      <3>5. validated[k - 1].reply # "ok" => validated[k] = validated[k - 1]
        BY <3>4 DEF validate_step
      <3>6. QED
        BY <3>2, <3>3, <3>5
    <2>3. Nat \subseteq T
      <3> HIDE DEF T
      <3>1. QED
        BY <2>1, <2>2, Induction
    <2>4. ASSUME NEW k \in 0 .. N
          PROVE  validated[k].reply = "ok"
      <3>1. N - k \in Nat /\ N - k <= N /\ N - (N - k) = k
        BY <1>1
      <3>2. QED
        BY <3>1, <2>3
    <2>5. QED
      BY <2>4
  <1>6. ASSUME NEW k \in 0 .. N - 1, validated[k] \in Passed, validated[k].prev = StepAt(k)
        PROVE  /\ validated[k + 1] \in Passed /\ validated[k + 1].prev = StepAt(k + 1)
               /\ list[k + 1] \in StepAt(k) + 1 .. width /\ StepAt(k + 1) = list[k + 1]
               /\ Fan(k) \in Nat \ {0}
               /\ validated[k + 1].level = validated[k].level * Fan(k)
               /\ validated[k + 1].total = validated[k].total + validated[k].level * Fan(k)
    <2>1. k \in 0 .. N /\ k + 1 \in 1 .. N /\ k + 1 \in 0 .. N /\ (k + 1) - 1 = k /\ k + 1 # 0
      BY <1>1
    <2>2. PICK acc \in Passed : acc = validated[k]
      BY <1>6
    <2>3. PICK s \in Nat : s = list[k + 1]
      BY <2>1, <1>3
    <2>4. validated[k + 1] = validate_step(acc, s)
      BY <2>1, <2>2, <2>3, <1>2
    <2>5. validate_step(acc, s).reply = "ok"
      BY <2>1, <2>4, <1>5
    <2>6. /\ s <= width /\ acc.prev < s
          /\ validate_step(acc, s) =
               [reply |-> "ok", prev |-> s, level |-> acc.level * Pow2[s - acc.prev],
                total |-> acc.total + acc.level * Pow2[s - acc.prev]]
          /\ validate_step(acc, s) \in Passed
      BY <2>5, StepAdds
    <2>7. acc.prev = StepAt(k) /\ acc.prev \in Nat
      BY <2>2, <1>6 DEF Passed
    <2>8. Fan(k) = Pow2[s - acc.prev]
      BY <2>3, <2>7 DEF Fan
    <2>9. StepAt(k + 1) = list[k + 1]
      BY <2>1 DEF StepAt
    <2>10. s - acc.prev \in Nat
      BY <2>6, <2>7
    <2>11. Fan(k) \in Nat \ {0}
      BY <2>8, <2>10, Pow2Values
    <2>12. list[k + 1] \in StepAt(k) + 1 .. width
      BY <2>3, <2>6, <2>7, <1>1
    <2>13. QED
      BY <2>2, <2>3, <2>4, <2>6, <2>8, <2>9, <2>11, <2>12
  <1>7. \A k \in 0 .. N : validated[k] \in Passed /\ validated[k].prev = StepAt(k)
    <2> DEFINE T == {n \in Nat : n <= N => validated[n] \in Passed /\ validated[n].prev = StepAt(n)}
    <2>1. 0 \in T
      <3>1. validated[0] \in Passed /\ validated[0].prev = supernet[2]
        <4>1. PICK b \in Nat : b = supernet[2]
          BY <1>1
        <4>2. PICK r : r = [reply |-> "ok", prev |-> b, level |-> 1, total |-> 0]
          OBVIOUS
        <4>3. r \in Passed /\ r.prev = b
          BY <4>2 DEF Passed
        <4>4. QED
          BY <4>1, <4>2, <4>3, <1>2
      <3>2. StepAt(0) = supernet[2]
        BY DEF StepAt
      <3>3. QED
        BY <3>1, <3>2
    <2>2. ASSUME NEW n \in Nat, n \in T
          PROVE  n + 1 \in T
      <3> SUFFICES ASSUME n + 1 <= N
                   PROVE  validated[n + 1] \in Passed /\ validated[n + 1].prev = StepAt(n + 1)
        OBVIOUS
      <3>1. n \in 0 .. N - 1 /\ n <= N
        BY <1>1
      <3>2. QED
        BY <3>1, <2>2, <1>6
    <2>3. Nat \subseteq T
      <3> HIDE DEF T
      <3>1. QED
        BY <2>1, <2>2, Induction
    <2>4. QED
      BY <2>3, <1>1
  <1>8. ASSUME NEW k \in 0 .. N
        PROVE  /\ LevelEnd(k) \in Nat /\ validated[k].level \in Nat \ {0} /\ StepAt(k) \in Nat
               /\ validated[k].total \in Nat
    <2>1. validated[k] \in Passed /\ validated[k].prev = StepAt(k)
      BY <1>7
    <2>2. QED
      BY <2>1 DEF Passed, LevelEnd
  <1>9. LevelEnd(0) = 1 /\ LevelStart(0) = 0
    <2>1. validated[0].total = 0 /\ validated[0].level = 1
      BY <1>2
    <2>2. QED
      BY <2>1 DEF LevelEnd, LevelStart
  <1>10. ASSUME NEW k \in 0 .. N - 1
         PROVE  /\ list[k + 1] \in StepAt(k) + 1 .. width /\ StepAt(k + 1) = list[k + 1]
                /\ Fan(k) \in Nat \ {0}
                /\ LevelStart(k + 1) = LevelEnd(k)
                /\ LevelEnd(k + 1) = LevelEnd(k) + (LevelEnd(k) - LevelStart(k)) * Fan(k)
    <2>1. k \in 0 .. N
      BY <1>1
    <2>2. /\ list[k + 1] \in StepAt(k) + 1 .. width /\ StepAt(k + 1) = list[k + 1]
          /\ Fan(k) \in Nat \ {0}
          /\ validated[k + 1].level = validated[k].level * Fan(k)
          /\ validated[k + 1].total = validated[k].total + validated[k].level * Fan(k)
      BY <2>1, <1>6, <1>7
    <2>3. PICK l \in Nat : l = validated[k].level
      BY <2>1, <1>8
    <2>4. PICK t \in Nat : t = validated[k].total
      BY <2>1, <1>8
    <2>5. PICK f \in Nat : f = Fan(k)
      BY <2>2
    <2>6. PICK m \in Nat : m = l * f
      OBVIOUS
    <2>7. /\ LevelEnd(k) = t + 1 /\ LevelEnd(k + 1) = (t + m) + 1
          /\ LevelStart(k) = (t + 1) - l /\ LevelStart(k + 1) = ((t + m) + 1) - m
      BY <2>2, <2>3, <2>4, <2>5, <2>6 DEF LevelEnd, LevelStart
    <2>8. LevelEnd(k) - LevelStart(k) = l
      BY <2>7
    <2>9. LevelStart(k + 1) = LevelEnd(k) /\ LevelEnd(k + 1) = LevelEnd(k) + m
      BY <2>7
    <2>10. QED
      BY <2>2, <2>5, <2>6, <2>8, <2>9
  <1>11. QED
    BY <1>8, <1>9, <1>10 DEF N

\* The steps stay what they are during a call.
LEMMA StepsStay ==
    ASSUME request' = request
    PROVE  /\ validated' = validated
           /\ Valid' <=> Valid
           /\ \A k : /\ StepAt(k)' = StepAt(k) /\ LevelEnd(k)' = LevelEnd(k)
                     /\ LevelStart(k)' = LevelStart(k) /\ Fan(k)' = Fan(k)
           /\ \A c : Deeper(c)' = Deeper(c) /\ NextStep(c)' = NextStep(c)
PROOF
  <1>1. width' = width /\ list' = list /\ supernet' = supernet /\ (Asks' <=> Asks)
    BY RequestStays
  <1>2. validated' = validated
    BY <1>1 DEF validated, validate_step, Fanout
  <1>3. Valid' <=> Valid
    BY <1>1, <1>2 DEF Valid, validate_steps
  <1>4. \A k : StepAt(k)' = StepAt(k)
    BY <1>1 DEF StepAt
  <1>5. \A k : LevelEnd(k)' = LevelEnd(k) /\ LevelStart(k)' = LevelStart(k)
    BY <1>2 DEF LevelEnd, LevelStart
  <1>6. \A k : Fan(k)' = Fan(k)
    BY <1>1, <1>4 DEF Fan
  <1>7. \A c : Deeper(c)' = Deeper(c) /\ NextStep(c)' = NextStep(c)
    BY <1>1 DEF Deeper, NextStep
  <1>8. QED
    BY <1>2, <1>3, <1>4, <1>5, <1>6, <1>7

\* The steps go down.
LEMMA StepsGoDown ==
    ASSUME Valid
    PROVE  /\ \A j, k \in 0 .. Len(list) : j < k => StepAt(j) < StepAt(k)
           /\ \A k \in 0 .. Len(list) : LevelStart(k) \in Nat /\ LevelStart(k) < LevelEnd(k)
           /\ \A k \in 0 .. Len(list) : StepAt(k) <= width
PROOF
  <1> DEFINE N == Len(list)
  <1>1. N \in Nat \ {0}
    BY ValidFacts
  <1>2. /\ LevelStart(0) = 0
        /\ \A k \in 0 .. N :
             LevelEnd(k) \in Nat /\ validated[k].level \in Nat \ {0} /\ StepAt(k) \in Nat
        /\ \A k \in 0 .. N - 1 :
             /\ list[k + 1] \in StepAt(k) + 1 .. width /\ StepAt(k + 1) = list[k + 1]
             /\ LevelStart(k + 1) = LevelEnd(k)
    BY LevelFacts
  <1> HIDE DEF N
  <1>3. ASSUME NEW k \in 0 .. N
        PROVE  LevelStart(k) \in Nat /\ LevelStart(k) < LevelEnd(k)
    <2>1. LevelStart(k) \in Nat
      <3>1. CASE k = 0
        BY <3>1, <1>2
      <3>2. CASE k # 0
        <4>1. k - 1 \in 0 .. N - 1 /\ (k - 1) + 1 = k /\ k - 1 \in 0 .. N
          BY <3>2, <1>1
        <4>2. LevelStart(k) = LevelEnd(k - 1) /\ LevelEnd(k - 1) \in Nat
          BY <4>1, <1>2
        <4>3. QED
          BY <4>2
      <3>3. QED
        BY <3>1, <3>2
    <2>2. LevelStart(k) = LevelEnd(k) - validated[k].level
      BY DEF LevelStart
    <2>3. QED
      BY <2>1, <2>2, <1>2
  <1>4. ASSUME NEW k \in 0 .. N - 1
        PROVE  StepAt(k) < StepAt(k + 1) /\ StepAt(k + 1) <= width
    <2>1. StepAt(k) \in Nat /\ list[k + 1] \in StepAt(k) + 1 .. width /\ StepAt(k + 1) = list[k + 1]
      BY <1>1, <1>2
    <2>2. width \in Nat
      BY ValidFacts
    <2>3. QED
      BY <2>1, <2>2
  <1>5. ASSUME NEW j \in 0 .. N
        PROVE  \A n \in Nat : j + n <= N => StepAt(j) <= StepAt(j + n)
    <2> DEFINE T == {n \in Nat : j + n <= N => StepAt(j) <= StepAt(j + n)}
    <2>1. 0 \in T
      <3>1. StepAt(j) \in Nat /\ j + 0 = j
        BY <1>2
      <3>2. QED
        BY <3>1
    <2>2. ASSUME NEW n \in Nat, n \in T
          PROVE  n + 1 \in T
      <3> SUFFICES ASSUME j + (n + 1) <= N
                   PROVE  StepAt(j) <= StepAt(j + (n + 1))
        OBVIOUS
      <3>1. PICK k \in 0 .. N - 1 : k = j + n
        BY <1>1
      <3>2. k + 1 = j + (n + 1) /\ k <= N /\ k + 1 \in 0 .. N /\ k \in 0 .. N
        BY <3>1, <1>1
      <3>3. StepAt(j) <= StepAt(k) /\ StepAt(k) < StepAt(k + 1)
        BY <3>1, <3>2, <2>2, <1>4
      <3>4. StepAt(j) \in Nat /\ StepAt(k) \in Nat /\ StepAt(k + 1) \in Nat
        BY <3>2, <1>2
      <3>5. StepAt(j) <= StepAt(k + 1)
        BY <3>3, <3>4
      <3>6. QED
        BY <3>2, <3>5
    <2>3. Nat \subseteq T
      <3> HIDE DEF T
      <3>1. QED
        BY <2>1, <2>2, Induction
    <2>4. QED
      BY <2>3
  <1>6. ASSUME NEW j \in 0 .. N, NEW k \in 0 .. N, j < k
        PROVE  StepAt(j) < StepAt(k)
    <2>1. PICK i \in 0 .. N : i = j + 1
      BY <1>1, <1>6
    <2>2. k - i \in Nat /\ i + (k - i) = k /\ i + (k - i) <= N
      BY <2>1, <1>1, <1>6
    <2>3. StepAt(i) <= StepAt(i + (k - i))
      BY <2>2, <1>5
    <2>4. StepAt(i) <= StepAt(k)
      BY <2>2, <2>3
    <2>5. j \in 0 .. N - 1
      BY <1>1, <1>6
    <2>6. StepAt(j) < StepAt(i)
      BY <2>1, <2>5, <1>4
    <2>7. StepAt(j) \in Nat /\ StepAt(i) \in Nat /\ StepAt(k) \in Nat
      BY <1>2
    <2>8. QED
      BY <2>4, <2>6, <2>7
  <1>7. ASSUME NEW k \in 0 .. N
        PROVE  StepAt(k) <= width
    <2>1. CASE k = 0
      <3>1. supernet \in CidrsOf(request.v4) /\ Asks
        BY ValidFacts DEF Valid
      <3>2. supernet[2] \in 0 .. width /\ width \in Nat
        BY <3>1, PairFacts
      <3>3. QED
        BY <2>1, <3>2 DEF StepAt
    <2>2. CASE k # 0
      <3>1. k - 1 \in 0 .. N - 1 /\ (k - 1) + 1 = k
        BY <2>2, <1>1
      <3>2. QED
        BY <3>1, <1>4
    <2>3. QED
      BY <2>1, <2>2
  <1>8. QED
    BY <1>3, <1>6, <1>7 DEF N

\* A node of a level has the step behind it next, and one of the last none.
LEMMA NextOfLevel ==
    ASSUME Valid, NEW k \in 0 .. Len(list), NEW c, c[2] = StepAt(k)
    PROVE  /\ k < Len(list) => NextStep(c) = list[k + 1]
           /\ k = Len(list) => Deeper(c) = {}
           /\ Deeper(c) \subseteq Nat
PROOF
  <1> DEFINE N == Len(list)
  <1>1. N \in Nat \ {0} /\ list \in Seq(Nat) /\ DOMAIN list = 1 .. N
    BY ValidFacts
  <1>2. \A j \in 0 .. N : StepAt(j) \in Nat
    BY LevelFacts
  <1>3. \A i, j \in 0 .. N : i < j => StepAt(i) < StepAt(j)
    BY StepsGoDown
  <1>4. ToSet(list) = {list[j] : j \in 1 .. N}
    BY <1>1 DEF ToSet
  <1> HIDE DEF N
  <1>5. \A j \in 1 .. N : StepAt(j) = list[j] /\ j \in 0 .. N
    BY <1>1 DEF StepAt
  <1>6. k \in 0 .. N
    BY DEF N
  <1>7. ASSUME NEW q \in Deeper(c)
        PROVE  \E j \in 1 .. N : j > k /\ q = StepAt(j)
    <2>1. q \in ToSet(list) /\ q > StepAt(k)
      BY DEF Deeper
    <2>2. PICK j \in 1 .. N : q = list[j]
      BY <2>1, <1>4
    <2>3. q = StepAt(j) /\ j \in 0 .. N /\ StepAt(j) \in Nat /\ StepAt(k) \in Nat
      BY <2>2, <1>2, <1>5, <1>6
    <2>4. ~ (j < k) /\ j # k
      <3>1. j < k => StepAt(j) < StepAt(k)
        BY <2>3, <1>3, <1>6
      <3>2. QED
        BY <3>1, <2>1, <2>3
    <2>5. j > k
      BY <2>4, <1>1, <1>6
    <2>6. QED
      BY <2>3, <2>5
  <1>8. Deeper(c) \subseteq Nat
    <2>1. ASSUME NEW q \in Deeper(c)
          PROVE  q \in Nat
      <3>1. PICK j \in 1 .. N : q = StepAt(j)
        BY <1>7
      <3>2. QED
        BY <3>1, <1>2, <1>5
    <2>2. QED
      BY <2>1
  <1>9. ASSUME k = N
        PROVE  Deeper(c) = {}
    BY <1>1, <1>7, <1>9
  <1>10. ASSUME k < N
         PROVE  NextStep(c) = list[k + 1]
    <2>1. PICK n \in 1 .. N : n = k + 1
      BY <1>1, <1>6, <1>10
    <2>2. k < n /\ n \in 0 .. N /\ StepAt(n) = list[n]
      BY <2>1, <1>1, <1>5, <1>6
    <2>3. StepAt(k) < StepAt(n) /\ StepAt(k) \in Nat /\ StepAt(n) \in Nat
      BY <2>2, <1>2, <1>3, <1>6
    <2>4. StepAt(n) \in Deeper(c)
      BY <2>2, <2>3, <1>4 DEF Deeper
    <2>5. ASSUME NEW q \in Deeper(c)
          PROVE  StepAt(n) <= q
      <3>1. PICK j \in 1 .. N : j > k /\ q = StepAt(j)
        BY <1>7
      <3>2. j = n \/ n < j
        BY <3>1, <2>1, <1>1, <1>6
      <3>3. j \in 0 .. N /\ StepAt(j) \in Nat
        BY <1>2, <1>5
      <3>4. n < j => StepAt(n) < StepAt(j)
        BY <2>2, <3>3, <1>3
      <3>5. QED
        BY <3>1, <3>2, <3>3, <3>4, <2>3
    <2>6. NextStep(c) = StepAt(n)
      BY <2>4, <2>5, <1>8, NextIs
    <2>7. QED
      BY <2>1, <2>2, <2>6
  <1>11. QED
    BY <1>8, <1>9, <1>10 DEF N

\* Each address of a node lies in a node of the next step.
Filled(i) ==
    \A a \in cidrs[i][1] .. LastOf(cidrs[i]) : \E j \in DOMAIN cidrs :
        cidrs[j][2] = NextStep(cidrs[i]) /\ cidrs[j][1] <= a /\ a <= LastOf(cidrs[j])

\* The tree down to the k-th step, of whose nodes those up to the x-th have
\* their children: level by level, those of a level in the order of their
\* addresses, and the children before what is still to be split.
Tree(k, x) ==
    /\ x \in LevelStart(k) .. LevelEnd(k)
    /\ cidrs \in Seq(CidrsOf(request.v4))
    /\ Len(cidrs) = LevelEnd(k) + (IF x = LevelStart(k) THEN 0 ELSE (x - LevelStart(k)) * Fan(k))
    /\ \A i \in DOMAIN cidrs :
         /\ i <= LevelEnd(k) => cidrs[i][2] <= StepAt(k)
         /\ LevelStart(k) < i /\ i <= LevelEnd(k) => cidrs[i][2] = StepAt(k)
         /\ LevelEnd(k) < i => cidrs[i][2] = StepAt(k + 1)
    /\ \A i, j \in DOMAIN cidrs :
         i < j /\ cidrs[i][2] = cidrs[j][2] => LastOf(cidrs[i]) < cidrs[j][1]
    /\ \A i, j \in DOMAIN cidrs :
         x < i /\ i <= LevelEnd(k) /\ LevelEnd(k) < j => LastOf(cidrs[j]) < cidrs[i][1]
    /\ \A i \in DOMAIN cidrs : i <= x => Filled(i)

\* A level of which each node has its children is the start of the next.
LEMMA NextLevel ==
    ASSUME Valid, NEW k \in 0 .. Len(list) - 1, NEW x, x = LevelEnd(k), Tree(k, x)
    PROVE  Tree(k + 1, x)
PROOF
  <1>1. Len(list) \in Nat
    BY ValidFacts
  <1>2. PICK l \in 1 .. Len(list) : l = k + 1
    BY <1>1
  <1>3. k \in 0 .. Len(list) /\ l \in 0 .. Len(list) /\ k < l
    BY <1>1, <1>2
  <1>4. /\ LevelEnd(k) \in Nat /\ LevelStart(k) \in Nat /\ LevelStart(k) < LevelEnd(k)
        /\ LevelEnd(l) \in Nat /\ LevelStart(l) \in Nat /\ LevelStart(l) < LevelEnd(l)
        /\ StepAt(k) \in Nat /\ StepAt(l) \in Nat /\ StepAt(k) < StepAt(l)
    BY <1>3, LevelFacts, StepsGoDown
  <1>5. /\ LevelStart(l) = x
        /\ LevelEnd(l) = LevelEnd(k) + (LevelEnd(k) - LevelStart(k)) * Fan(k)
    BY <1>2, LevelFacts
  <1>6. cidrs \in Seq(CidrsOf(request.v4)) /\ DOMAIN cidrs = 1 .. Len(cidrs)
    BY DEF Tree
  <1>7. Len(cidrs) = LevelEnd(l)
    <2>1. x # LevelStart(k)
      BY <1>4
    <2>2. QED
      BY <2>1, <1>5 DEF Tree
  <1>8. x \in LevelStart(l) .. LevelEnd(l)
    BY <1>4, <1>5
  <1>9. Len(cidrs) = LevelEnd(l) + (IF x = LevelStart(l) THEN 0 ELSE (x - LevelStart(l)) * Fan(l))
    BY <1>4, <1>5, <1>7
  <1>10. ASSUME NEW i \in DOMAIN cidrs
         PROVE  /\ i <= LevelEnd(l) => cidrs[i][2] <= StepAt(l)
                /\ LevelStart(l) < i /\ i <= LevelEnd(l) => cidrs[i][2] = StepAt(l)
                /\ LevelEnd(l) < i => cidrs[i][2] = StepAt(l + 1)
                /\ i <= LevelEnd(l)
    <2>1. /\ i <= LevelEnd(k) => cidrs[i][2] <= StepAt(k)
          /\ LevelEnd(k) < i => cidrs[i][2] = StepAt(l)
      BY <1>2 DEF Tree
    <2>2. i \in Nat /\ i <= LevelEnd(l)
      BY <1>6, <1>7
    <2>3. cidrs[i][2] \in Nat
      <3>1. cidrs[i] \in CidrsOf(request.v4) /\ Asks
        BY <1>6 DEF Valid
      <3>2. QED
        BY <3>1, PairFacts
    <2>4. QED
      BY <2>1, <2>2, <2>3, <1>4, <1>5
  <1>11. \A i, j \in DOMAIN cidrs :
            i < j /\ cidrs[i][2] = cidrs[j][2] => LastOf(cidrs[i]) < cidrs[j][1]
    BY DEF Tree
  <1>12. \A i, j \in DOMAIN cidrs :
            x < i /\ i <= LevelEnd(l) /\ LevelEnd(l) < j => LastOf(cidrs[j]) < cidrs[i][1]
    <2>1. \A j \in DOMAIN cidrs : ~ (LevelEnd(l) < j)
      BY <1>4, <1>6, <1>10
    <2>2. QED
      BY <2>1
  <1>13. \A i \in DOMAIN cidrs : i <= x => Filled(i)
    BY DEF Tree
  <1>14. Tree(l, x)
    BY <1>6, <1>8, <1>9, <1>10, <1>11, <1>12, <1>13 DEF Tree
  <1>15. QED
    BY <1>2, <1>14

\* A sequence behind another.
LEMMA Joined ==
    ASSUME NEW S, NEW a \in Seq(S), NEW b \in Seq(S), NEW e, e = a \o b
    PROVE  /\ e \in Seq(S) /\ Len(e) = Len(a) + Len(b) /\ DOMAIN e = 1 .. Len(a) + Len(b)
           /\ \A i \in 1 .. Len(a) : e[i] = a[i]
           /\ \A i \in Len(a) + 1 .. Len(a) + Len(b) : e[i] = b[i - Len(a)]
PROOF
  <1>1. Len(a) \in Nat /\ Len(b) \in Nat
    OBVIOUS
  <1>2. e \in Seq(S) /\ Len(e) = Len(a) + Len(b)
    OBVIOUS
  <1>3. DOMAIN e = 1 .. Len(a) + Len(b)
    BY <1>2
  <1>4. \A i \in 1 .. Len(a) : e[i] = a[i]
    OBVIOUS
  <1>5. \A i \in Len(a) + 1 .. Len(a) + Len(b) : e[i] = b[i - Len(a)]
    OBVIOUS
  <1>6. QED
    BY <1>2, <1>3, <1>4, <1>5

\* All the children of a node have all its addresses.
LEMMA AllChildren ==
    ASSUME Asks, NEW c \in CidrsOf(request.v4), NEW p \in c[2] + 1 .. width,
           NEW d, d = Children(c, p, count_subnets(c, p))
    PROVE  /\ d \in Seq(CidrsOf(request.v4)) /\ Len(d) = count_subnets(c, p)
           /\ DOMAIN d = 1 .. count_subnets(c, p)
           /\ \A i \in 1 .. count_subnets(c, p) :
                /\ d[i] \in CidrsOf(request.v4) /\ d[i][2] = p
                /\ c[1] <= d[i][1] /\ LastOf(d[i]) <= LastOf(c)
           /\ \A i, j \in 1 .. count_subnets(c, p) : i < j => LastOf(d[i]) < d[j][1]
           /\ \A a \in c[1] .. LastOf(c) : \E i \in 1 .. count_subnets(c, p) :
                d[i][1] <= a /\ a <= LastOf(d[i])
PROOF
  <1>1. PICK n : n = count_subnets(c, p)
    OBVIOUS
  <1>2. n \in Nat
    BY <1>1, PairFacts, AvailableIs
  <1>3. n \in 0 .. n /\ n \in 0 .. count_subnets(c, p)
    BY <1>1, <1>2
  <1>4. d = Children(c, p, n)
    BY <1>1
  <1>5. /\ d \in Seq(CidrsOf(request.v4)) /\ Len(d) = n /\ DOMAIN d = 1 .. n
        /\ \A i \in 1 .. n :
             /\ d[i] \in CidrsOf(request.v4) /\ d[i][2] = p
             /\ c[1] <= d[i][1] /\ LastOf(d[i]) <= LastOf(c)
        /\ \A i, j \in 1 .. n : i < j => LastOf(d[i]) < d[j][1]
        /\ n = count_subnets(c, p) =>
             \A a \in c[1] .. LastOf(c) : \E i \in 1 .. n : d[i][1] <= a /\ a <= LastOf(d[i])
    BY ONLY Asks, <1>3, <1>4, ChildrenAre
  <1>6. QED
    BY ONLY <1>1, <1>5

\* The next node gets its children.
LEMMA TreeGrows ==
    ASSUME Valid, NEW k \in 0 .. Len(list) - 1, NEW x, Tree(k, x), x < LevelEnd(k),
           NEW c, c = cidrs[x + 1], NEW p, p = list[k + 1],
           request' = request, cidrs' = cidrs \o Children(c, p, count_subnets(c, p))
    PROVE  /\ Tree(k, x + 1)'
           /\ cidrs[x + 1][2] = StepAt(k)
           /\ x + 1 < LevelEnd(k) => cidrs'[x + 2][2] = StepAt(k)
           /\ x + 1 = LevelEnd(k) => cidrs'[x + 2][2] # StepAt(k)
PROOF
  <1>1. Len(list) \in Nat /\ Asks /\ k \in 0 .. Len(list)
    BY ValidFacts DEF Valid
  <1>2. PICK m \in Nat : m = LevelEnd(k)
    BY <1>1, LevelFacts
  <1>3. PICK s \in Nat : s = LevelStart(k) /\ s < m
    BY <1>1, <1>2, StepsGoDown
  <1>4. PICK f \in Nat \ {0} : f = Fan(k)
    BY LevelFacts
  <1>5. /\ StepAt(k) \in Nat /\ p \in StepAt(k) + 1 .. width /\ StepAt(k + 1) = p
        /\ StepAt(k) <= width /\ width \in Nat
    BY <1>1, LevelFacts, StepsGoDown, ValidFacts
  <1>6. PICK n \in Nat : n = Len(cidrs)
    BY DEF Tree
  <1>7. /\ x \in s .. m /\ x \in Nat /\ x < m /\ cidrs \in Seq(CidrsOf(request.v4))
        /\ DOMAIN cidrs = 1 .. n
        /\ n = m + (IF x = s THEN 0 ELSE (x - s) * f)
    BY <1>2, <1>3, <1>4, <1>6 DEF Tree
  <1>8. m <= n
    <2>1. PICK w \in Nat : w = x - s
      BY <1>3, <1>7
    <2>2. w * f \in Nat
      OBVIOUS
    <2>3. QED
      BY <2>1, <2>2, <1>7
  <1>9. /\ x + 1 \in 1 .. m /\ x + 1 \in DOMAIN cidrs /\ s < x + 1
    BY <1>3, <1>7, <1>8
  <1>10. c[2] = StepAt(k) /\ c \in CidrsOf(request.v4)
    <2>1. cidrs[x + 1][2] = StepAt(k)
      BY <1>2, <1>3, <1>9 DEF Tree
    <2>2. QED
      BY <2>1, <1>7, <1>9
  <1>11. p \in c[2] + 1 .. width
    BY <1>5, <1>10
  <1>12. count_subnets(c, p) = f
    BY <1>4, <1>10 DEF count_subnets, Fan
  <1>13. PICK d : d = Children(c, p, f)
    OBVIOUS
  <1>14. /\ d \in Seq(CidrsOf(request.v4)) /\ Len(d) = f /\ DOMAIN d = 1 .. f
         /\ \A i \in 1 .. f :
              /\ d[i] \in CidrsOf(request.v4) /\ d[i][2] = p
              /\ c[1] <= d[i][1] /\ LastOf(d[i]) <= LastOf(c)
         /\ \A i, j \in 1 .. f : i < j => LastOf(d[i]) < d[j][1]
         /\ \A a \in c[1] .. LastOf(c) : \E i \in 1 .. f : d[i][1] <= a /\ a <= LastOf(d[i])
    <2>1. Asks /\ c \in CidrsOf(request.v4) /\ d = Children(c, p, count_subnets(c, p))
      BY <1>1, <1>10, <1>12, <1>13
    <2>2. /\ d \in Seq(CidrsOf(request.v4)) /\ Len(d) = count_subnets(c, p)
          /\ DOMAIN d = 1 .. count_subnets(c, p)
          /\ \A i \in 1 .. count_subnets(c, p) :
               /\ d[i] \in CidrsOf(request.v4) /\ d[i][2] = p
               /\ c[1] <= d[i][1] /\ LastOf(d[i]) <= LastOf(c)
          /\ \A i, j \in 1 .. count_subnets(c, p) : i < j => LastOf(d[i]) < d[j][1]
          /\ \A a \in c[1] .. LastOf(c) : \E i \in 1 .. count_subnets(c, p) :
               d[i][1] <= a /\ a <= LastOf(d[i])
      BY ONLY <2>1, <1>11, AllChildren
    <2>3. QED
      BY ONLY <2>2, <1>12
  <1>15. PICK e : e = cidrs \o d
    OBVIOUS
  <1>16. cidrs' = e
    BY <1>12, <1>13, <1>15
  <1>17. /\ e \in Seq(CidrsOf(request.v4)) /\ Len(e) = n + f /\ DOMAIN e = 1 .. n + f
         /\ \A i \in 1 .. n : e[i] = cidrs[i]
         /\ \A i \in n + 1 .. n + f : e[i] = d[i - n]
    <2>1. PICK S : S = CidrsOf(request.v4)
      OBVIOUS
    <2>2. /\ cidrs \in Seq(S) /\ d \in Seq(S) /\ Len(cidrs) = n /\ Len(d) = f
          /\ n \in Nat /\ f \in Nat
      BY <2>1, <1>4, <1>6, <1>7, <1>14
    <2>3. PICK q \in Seq(S) : q = cidrs
      BY <2>2
    <2>4. /\ e \in Seq(S) /\ Len(e) = Len(q) + Len(d) /\ DOMAIN e = 1 .. Len(q) + Len(d)
          /\ \A i \in 1 .. Len(q) : e[i] = q[i]
          /\ \A i \in Len(q) + 1 .. Len(q) + Len(d) : e[i] = d[i - Len(q)]
      <3>1. e = q \o d /\ d \in Seq(S)
        BY <2>2, <2>3, <1>15
      <3>2. QED
        BY ONLY <3>1, Joined
    <2>5. Len(q) = n /\ Len(d) = f
      BY <2>2, <2>3
    <2>6. QED
      BY <2>1, <2>3, <2>4, <2>5
  <1>18. Len(e) = m + (IF x + 1 = s THEN 0 ELSE ((x + 1) - s) * f)
    <2>1. PICK w \in Nat : w = x - s
      BY <1>3, <1>7
    <2>2. (w + 1) * f = w * f + f /\ w * f \in Nat
      <3>1. (w + 1) * f = w * f + 1 * f
        BY Distributes
      <3>2. QED
        BY <3>1
    <2>3. (x + 1) - s = w + 1 /\ x + 1 # s
      <3>1. x \in Nat /\ s \in Nat /\ w \in Nat /\ w = x - s
        BY <2>1, <1>3, <1>7
      <3>2. QED
        BY ONLY <3>1
    <2>4. n = m + w * f
      <3>1. CASE x = s
        <4>1. w = 0 /\ 0 * f = 0
          BY <3>1, <2>1, <1>3
        <4>2. QED
          BY <3>1, <4>1, <1>7
      <3>2. CASE x # s
        BY <3>2, <2>1, <1>7
      <3>3. QED
        BY <3>1, <3>2
    <2>5. QED
      BY <2>2, <2>3, <2>4, <1>17
  <1>19. PICK y \in Nat : y = x + 1
    BY <1>7
  <1>20. y \in 1 .. m /\ y \in 1 .. n /\ s < y /\ e[y] = c /\ cidrs[y] = c
    BY <1>8, <1>9, <1>17, <1>19
  <1>21. ASSUME NEW i \in 1 .. n + f
         PROVE  /\ i \in Nat /\ e[i] \in CidrsOf(request.v4)
                /\ e[i][1] \in Nat /\ LastOf(e[i]) \in Nat /\ e[i][1] <= LastOf(e[i])
                /\ i \in 1 .. n => e[i] = cidrs[i]
                /\ i \notin 1 .. n => i - n \in 1 .. f /\ e[i] = d[i - n] /\ m < i
                /\ i <= m => e[i][2] <= StepAt(k)
                /\ s < i /\ i <= m => e[i][2] = StepAt(k)
                /\ m < i => e[i][2] = p
                /\ i \notin 1 .. n => c[1] <= e[i][1] /\ LastOf(e[i]) <= LastOf(c)
    <2>1. i \in Nat /\ e[i] \in CidrsOf(request.v4)
      BY <1>17
    <2>2. e[i][1] \in Nat /\ LastOf(e[i]) \in Nat /\ e[i][1] <= LastOf(e[i])
      BY <2>1, <1>1, PairFacts
    <2>3. i \in 1 .. n => e[i] = cidrs[i]
      BY <1>17
    <2>4. i \notin 1 .. n => i - n \in 1 .. f /\ e[i] = d[i - n] /\ m < i
      <3>1. i \notin 1 .. n => i \in n + 1 .. n + f
        BY <1>6
      <3>2. QED
        BY <3>1, <1>8, <1>17
    <2>5. CASE i \in 1 .. n
      <3>1. /\ i <= m => cidrs[i][2] <= StepAt(k)
            /\ s < i /\ i <= m => cidrs[i][2] = StepAt(k)
            /\ m < i => cidrs[i][2] = p
        BY <2>5, <1>2, <1>3, <1>5, <1>7 DEF Tree
      <3>2. QED
        BY <2>1, <2>2, <2>3, <2>4, <2>5, <3>1
    <2>6. CASE i \notin 1 .. n
      <3>1. e[i][2] = p /\ c[1] <= e[i][1] /\ LastOf(e[i]) <= LastOf(c) /\ m < i
        BY <2>4, <2>6, <1>14
      <3>2. ~ (i <= m)
        BY <3>1, <2>1
      <3>3. QED
        BY <2>1, <2>2, <2>4, <2>6, <3>1, <3>2
    <2>7. QED
      BY <2>5, <2>6
  <1>22. c[1] \in Nat /\ LastOf(c) \in Nat /\ c[1] <= LastOf(c)
    BY <1>1, <1>10, PairFacts
  \* Before what is still to be split.
  <1>23. ASSUME NEW i \in 1 .. n + f, NEW j \in 1 .. n + f, y < i, i <= m, m < j
         PROVE  LastOf(e[j]) < e[i][1]
    <2>1. i \in 1 .. n /\ e[i] = cidrs[i] /\ x < i
      <3>1. i \in Nat /\ x \in Nat /\ y = x + 1 /\ i <= m
        BY <1>7, <1>19, <1>21, <1>23
      <3>2. x < i
        BY ONLY <3>1, <1>23
      <3>3. i \in 1 .. n
        BY <3>1, <1>21
      <3>4. QED
        BY <3>2, <3>3, <1>21
    <2>2. CASE j \in 1 .. n
      <3>1. LastOf(cidrs[j]) < cidrs[i][1]
        BY <2>1, <2>2, <1>2, <1>7, <1>23 DEF Tree
      <3>2. QED
        BY <2>1, <2>2, <3>1, <1>21
    <2>3. CASE j \notin 1 .. n
      <3>1. LastOf(e[j]) <= LastOf(c)
        BY <2>3, <1>21
      <3>2. cidrs[i][2] = cidrs[y][2]
        BY <2>1, <1>3, <1>10, <1>20, <1>21, <1>23
      <3>3. LastOf(cidrs[y]) < cidrs[i][1]
        BY <2>1, <3>2, <1>7, <1>20, <1>23 DEF Tree
      <3>4. LastOf(e[j]) \in Nat /\ LastOf(c) \in Nat /\ e[i][1] \in Nat
        BY <1>21, <1>22
      <3>5. LastOf(c) < e[i][1]
        BY <2>1, <3>3, <1>20
      <3>6. QED
        BY ONLY <3>1, <3>4, <3>5
    <2>4. QED
      BY <2>2, <2>3
  \* In the order of their addresses.
  <1>24. ASSUME NEW i \in 1 .. n + f, NEW j \in 1 .. n + f, i < j, e[i][2] = e[j][2]
         PROVE  LastOf(e[i]) < e[j][1]
    <2>1. CASE j \in 1 .. n
      <3>1. i \in 1 .. n
        BY <2>1, <1>21, <1>24
      <3>2. QED
        BY <2>1, <3>1, <1>7, <1>21, <1>24 DEF Tree
    <2>2. CASE j \notin 1 .. n /\ i \notin 1 .. n
      <3>1. /\ i - n \in 1 .. f /\ e[i] = d[i - n]
            /\ j - n \in 1 .. f /\ e[j] = d[j - n]
        BY <2>2, <1>21
      <3>2. i - n < j - n
        BY <1>6, <1>24
      <3>3. QED
        BY <3>1, <3>2, <1>14
    <2>3. CASE j \notin 1 .. n /\ i \in 1 .. n
      <3>1. e[j][2] = p /\ c[1] <= e[j][1]
        BY <2>3, <1>21
      <3>2. e[i][2] = p
        BY <3>1, <1>24
      <3>3. m < i
        <4>1. p \in Nat /\ StepAt(k) < p
          BY <1>5
        <4>2. i <= m => e[i][2] <= StepAt(k)
          BY <1>21
        <4>3. QED
          BY <3>2, <4>1, <4>2, <1>5
      <3>4. LastOf(cidrs[i]) < cidrs[y][1]
        <4>1. x < y /\ y <= m /\ y \in DOMAIN cidrs /\ i \in DOMAIN cidrs
          BY <2>3, <1>7, <1>19, <1>20
        <4>2. LevelEnd(k) < i /\ y <= LevelEnd(k)
          BY <4>1, <3>3, <1>2
        <4>3. QED
          BY <4>1, <4>2 DEF Tree
      <3>5. e[i] = cidrs[i] /\ cidrs[y] = c
        BY <2>3, <1>20, <1>21
      <3>6. LastOf(e[i]) \in Nat /\ c[1] \in Nat /\ e[j][1] \in Nat
        BY <1>21, <1>22
      <3>7. LastOf(e[i]) < c[1] /\ c[1] <= e[j][1]
        BY <3>1, <3>4, <3>5
      <3>8. QED
        BY ONLY <3>6, <3>7
    <2>4. QED
      BY <2>1, <2>2, <2>3
  \* Their addresses lie in their children.
  <1>25. ASSUME NEW i \in 1 .. n + f, i <= y, NEW a \in e[i][1] .. LastOf(e[i])
         PROVE  \E j \in 1 .. n + f : /\ e[j][2] = NextStep(e[i])
                                      /\ e[j][1] <= a /\ a <= LastOf(e[j])
    <2>1. i \in 1 .. n /\ e[i] = cidrs[i]
      BY <1>20, <1>21, <1>25
    <2>2. CASE i <= x
      <3>1. Filled(i)
        BY <2>1, <2>2, <1>7 DEF Tree
      <3>2. PICK j \in 1 .. n : /\ cidrs[j][2] = NextStep(cidrs[i])
                                /\ cidrs[j][1] <= a /\ a <= LastOf(cidrs[j])
        BY <3>1, <2>1, <1>7, <1>25 DEF Filled
      <3>3. j \in 1 .. n + f /\ e[j] = cidrs[j]
        BY <1>6, <1>17
      <3>4. QED
        BY <3>2, <3>3, <2>1
    <2>3. CASE i = y
      <3>1. e[i] = c
        BY <2>3, <1>20
      <3>2. PICK j \in 1 .. f : d[j][1] <= a /\ a <= LastOf(d[j])
        BY <3>1, <1>14, <1>25
      <3>3. n + j \in n + 1 .. n + f /\ (n + j) - n = j /\ n + j \in 1 .. n + f
        BY <1>6
      <3>4. e[n + j] = d[j] /\ d[j][2] = p
        BY <3>3, <1>14, <1>17
      <3>5. NextStep(c) = p
        <4>1. k < Len(list) /\ k \in 0 .. Len(list)
          BY <1>1
        <4>2. QED
          BY <4>1, <1>10, NextOfLevel
      <3>6. QED
        BY <3>1, <3>2, <3>3, <3>4, <3>5
    <2>4. i <= x \/ i = y
      BY <1>7, <1>19, <1>25
    <2>5. QED
      BY <2>2, <2>3, <2>4
  \* All of it in the next state.
  <1>26. /\ CidrsOf(request.v4)' = CidrsOf(request.v4)
         /\ LevelEnd(k)' = m /\ LevelStart(k)' = s /\ Fan(k)' = f
         /\ StepAt(k)' = StepAt(k) /\ StepAt(k + 1)' = p
         /\ \A b : LastOf(b)' = LastOf(b) /\ NextStep(b)' = NextStep(b)
    BY <1>2, <1>3, <1>4, <1>5, RequestStays, StepsStay
  <1>27. ASSUME NEW i \in 1 .. n + f, i <= y
         PROVE  Filled(i)'
    <2>1. \A a \in e[i][1] .. LastOf(e[i]) : \E j \in 1 .. n + f :
             /\ e[j][2] = NextStep(e[i])
             /\ e[j][1] <= a /\ a <= LastOf(e[j])
      BY <1>25, <1>27
    <2>2. QED
      BY <2>1, <1>16, <1>17, <1>26 DEF Filled
  <1>28. y \in s .. m
    BY <1>3, <1>20
  <1>29. \A i \in 1 .. n + f :
           /\ i <= m => e[i][2] <= StepAt(k)
           /\ s < i /\ i <= m => e[i][2] = StepAt(k)
           /\ m < i => e[i][2] = p
    BY <1>21
  <1>30. Tree(k, y)'
    BY <1>16, <1>17, <1>18, <1>19, <1>23, <1>24, <1>26, <1>27, <1>28, <1>29 DEF Tree
  <1>31. y < m => cidrs'[x + 2][2] = StepAt(k)
    <2> SUFFICES ASSUME y < m
                 PROVE  cidrs'[x + 2][2] = StepAt(k)
      OBVIOUS
    <2>1. PICK z \in 1 .. n + f : z = x + 2 /\ s < z /\ z <= m
      BY <1>7, <1>8, <1>19, <1>20
    <2>2. QED
      BY <2>1, <1>16, <1>29
  <1>32. y = m => cidrs'[x + 2][2] # StepAt(k)
    <2> SUFFICES ASSUME y = m
                 PROVE  cidrs'[x + 2][2] # StepAt(k)
      OBVIOUS
    <2>1. PICK z \in 1 .. n + f : z = x + 2 /\ m < z
      <3>1. x + 2 = m + 1 /\ m + 1 <= n + f
        BY <1>7, <1>8, <1>19
      <3>2. QED
        BY <3>1, <1>2
    <2>2. cidrs'[x + 2][2] = p
      BY <2>1, <1>16, <1>29
    <2>3. p # StepAt(k)
      BY <1>5
    <2>4. QED
      BY <2>2, <2>3
  <1>33. QED
    BY <1>2, <1>10, <1>19, <1>30, <1>31, <1>32

\* The steps behind the k-th are what `rest' holds.
Left(k) ==
    /\ rest \in Seq(Nat) /\ Len(rest) = Len(list) - k
    /\ \A i \in 1 .. Len(rest) : rest[i] = list[k + i]

\* A tree in the making, and one with all its levels.
Growing ==
    \E k \in 0 .. Len(list), x \in Nat :
        /\ Tree(k, x) /\ cursor = x + 1
        /\ k = Len(list) => x = LevelStart(k)
        /\ Left(IF k < Len(list) /\ x = LevelEnd(k) THEN k + 1 ELSE k)
Complete == Tree(Len(list), LevelStart(Len(list)))

TreeInv ==
    request.tool = "hierarchy" =>
        /\ Asks
        /\ stage \in {"start", "run"} => Valid
        /\ stage = "run" => Growing
        /\ stage = "done" /\ reply = "ok" => Valid /\ Complete

\* A tree stays what it is while its nodes do.
LEMMA TreeStays ==
    ASSUME UNCHANGED <<request, cidrs>>
    PROVE  /\ \A k, x : Tree(k, x)' <=> Tree(k, x)
           /\ Complete' <=> Complete
           /\ UNCHANGED rest => \A k : Left(k)' <=> Left(k)
           /\ UNCHANGED <<rest, cursor>> => (Growing' <=> Growing)
PROOF
  <1>1. /\ list' = list /\ CidrsOf(request.v4)' = CidrsOf(request.v4)
        /\ \A c : LastOf(c)' = LastOf(c)
        /\ \A k : /\ StepAt(k)' = StepAt(k) /\ LevelEnd(k)' = LevelEnd(k)
                  /\ LevelStart(k)' = LevelStart(k) /\ Fan(k)' = Fan(k)
        /\ \A c : NextStep(c)' = NextStep(c)
    BY RequestStays, StepsStay
  <1>2. \A i : Filled(i)' <=> Filled(i)
    BY <1>1 DEF Filled
  <1>3. \A k, x : Tree(k, x)' <=> Tree(k, x)
    BY <1>1, <1>2 DEF Tree
  <1>4. Complete' <=> Complete
    <2>1. PICK k : k = Len(list)
      OBVIOUS
    <2>2. PICK x : x = LevelStart(k)
      OBVIOUS
    <2>3. Tree(k, x)' <=> Tree(k, x)
      BY <1>3
    <2>4. QED
      BY <2>1, <2>2, <2>3, <1>1 DEF Complete
  <1>5. UNCHANGED rest => \A k : Left(k)' <=> Left(k)
    BY <1>1 DEF Left
  <1>6. UNCHANGED <<rest, cursor>> => (Growing' <=> Growing)
    BY <1>1, <1>3, <1>5 DEF Growing
  <1>7. QED
    BY <1>3, <1>4, <1>5, <1>6

\* A tree in the making has a level whose nodes are not all split, or is all there.
LEMMA Normalised ==
    ASSUME Valid, Growing
    PROVE  \E k \in 0 .. Len(list), x \in Nat :
              /\ Tree(k, x) /\ cursor = x + 1 /\ Left(k)
              /\ k < Len(list) => x < LevelEnd(k)
              /\ k = Len(list) => x = LevelStart(k)
PROOF
  <1>1. PICK k \in 0 .. Len(list), x \in Nat :
           /\ Tree(k, x) /\ cursor = x + 1
           /\ k = Len(list) => x = LevelStart(k)
           /\ Left(IF k < Len(list) /\ x = LevelEnd(k) THEN k + 1 ELSE k)
    BY DEF Growing
  <1>2. Len(list) \in Nat
    BY ValidFacts
  <1>3. CASE k < Len(list) /\ x = LevelEnd(k)
    <2>1. k \in 0 .. Len(list) - 1 /\ k + 1 \in 0 .. Len(list)
      BY <1>2, <1>3
    <2>2. Tree(k + 1, x) /\ Left(k + 1)
      BY <2>1, <1>1, <1>3, NextLevel
    <2>3. x = LevelStart(k + 1)
      BY <2>1, <1>3, LevelFacts
    <2>4. LevelStart(k + 1) < LevelEnd(k + 1)
      BY <2>1, StepsGoDown
    <2>5. QED
      BY <2>1, <2>2, <2>3, <2>4, <1>1
  <1>4. CASE ~ (k < Len(list) /\ x = LevelEnd(k))
    <2>1. Left(k)
      BY <1>1, <1>4
    <2>2. k < Len(list) => x < LevelEnd(k)
      <3>1. LevelEnd(k) \in Nat /\ LevelStart(k) \in Nat
        BY LevelFacts, StepsGoDown
      <3>2. x \in LevelStart(k) .. LevelEnd(k)
        BY <1>1 DEF Tree
      <3>3. QED
        BY <3>1, <3>2, <1>1, <1>4
    <2>3. QED
      BY <2>1, <2>2, <1>1
  <1>5. QED
    BY <1>3, <1>4

\* The root is a tree of one node.
LEMMA RootStep ==
    ASSUME Valid, Root
    PROVE  Growing'
PROOF
  <1>1. /\ request' = request /\ cidrs' = <<supernet>> /\ rest' = list /\ cursor' = 1
    BY DEF Root
  <1>2. /\ supernet \in CidrsOf(request.v4) /\ supernet[2] \in Nat
        /\ Len(list) \in Nat \ {0} /\ list \in Seq(Nat)
    BY ValidFacts
  <1>3. /\ list' = list /\ CidrsOf(request.v4)' = CidrsOf(request.v4)
        /\ LevelEnd(0)' = 1 /\ LevelStart(0)' = 0 /\ StepAt(0)' = supernet[2]
    <2>1. /\ list' = list /\ CidrsOf(request.v4)' = CidrsOf(request.v4)
          /\ LevelEnd(0)' = LevelEnd(0) /\ LevelStart(0)' = LevelStart(0)
          /\ StepAt(0)' = StepAt(0)
      BY <1>1, RequestStays, StepsStay
    <2>2. LevelEnd(0) = 1 /\ LevelStart(0) = 0 /\ StepAt(0) = supernet[2]
      BY LevelFacts DEF StepAt
    <2>3. QED
      BY <2>1, <2>2
  <1>4. Tree(0, 0)'
    <2>1. PICK c : c = supernet
      OBVIOUS
    <2>2. PICK S : S = CidrsOf(request.v4)
      OBVIOUS
    <2>3. PICK q : q = cidrs'
      OBVIOUS
    <2>4. q = <<c>> /\ c \in S
      BY <2>1, <2>2, <2>3, <1>1, <1>2
    <2>5. q \in Seq(S) /\ Len(q) = 1 /\ DOMAIN q = {1} /\ q[1] = c
      BY ONLY <2>4
    <2>6. /\ 0 \in 0 .. 1 /\ Len(q) = 1 + 0
          /\ \A i \in DOMAIN q : i = 1 /\ q[i][2] = supernet[2]
          /\ ~ (1 < 1) /\ ~ (1 <= 0) /\ 1 <= 1
          /\ supernet[2] <= supernet[2]
      BY <2>1, <2>5, <1>2
    <2>7. /\ \A i \in DOMAIN q :
               /\ i <= 1 => q[i][2] <= supernet[2]
               /\ 0 < i /\ i <= 1 => q[i][2] = supernet[2]
               /\ ~ (1 < i)
          /\ \A i, j \in DOMAIN q : ~ (i < j)
          /\ \A i \in DOMAIN q : ~ (i <= 0)
      BY <2>6
    <2>8. QED
      BY <2>2, <2>3, <2>5, <2>6, <2>7, <1>3 DEF Tree
  <1>5. Left(0)'
    <2>1. PICK q \in Seq(Nat) : q = list
      BY <1>2
    <2>2. /\ Len(q) \in Nat /\ Len(q) = Len(q) - 0
          /\ \A i \in 1 .. Len(q) : q[i] = q[0 + i]
      BY ONLY <2>1
    <2>3. rest' = q /\ list' = q
      BY <2>1, <1>1, <1>3
    <2>4. QED
      BY <2>2, <2>3, <2>1 DEF Left
  <1>6. 0 \in 0 .. Len(list)' /\ 0 \in Nat /\ cursor' = 0 + 1 /\ 0 # Len(list)' /\ 0 # LevelEnd(0)'
    BY <1>1, <1>2, <1>3
  <1>7. QED
    BY <1>4, <1>5, <1>6 DEF Growing

\* A node gets its children, and behind the last of a level its step is done.
LEMMA BranchStep ==
    ASSUME Valid, Growing, Branch
    PROVE  Growing'
PROOF
  <1>1. PICK k \in 0 .. Len(list), x \in Nat :
           /\ Tree(k, x) /\ cursor = x + 1 /\ Left(k)
           /\ k < Len(list) => x < LevelEnd(k)
           /\ k = Len(list) => x = LevelStart(k)
    BY Normalised
  <1>2. Len(list) \in Nat /\ list \in Seq(Nat)
    BY ValidFacts
  <1>3. PICK q \in Seq(Nat) : q = rest
    BY <1>1 DEF Left
  <1>4. q # <<>> /\ Len(q) = Len(list) - k /\ \A i \in 1 .. Len(q) : q[i] = list[k + i]
    BY <1>1, <1>3 DEF Left, Branch
  <1>5. Len(q) \in Nat \ {0} /\ Head(q) = q[1] /\ 1 \in 1 .. Len(q)
    BY ONLY <1>3, <1>4
  <1>6. k < Len(list) /\ k \in 0 .. Len(list) - 1 /\ k + 1 \in 0 .. Len(list)
    BY <1>2, <1>4, <1>5
  <1>7. PICK c : c = cidrs[x + 1]
    OBVIOUS
  <1>8. PICK p : p = list[k + 1]
    OBVIOUS
  <1>9. Head(rest) = p /\ cidrs[cursor] = c
    BY <1>1, <1>3, <1>4, <1>5, <1>7, <1>8
  <1>10. /\ cidrs' = cidrs \o Children(c, p, count_subnets(c, p))
         /\ cursor' = cursor + 1 /\ request' = request
         /\ rest' = IF cidrs'[cursor'][2] = cidrs[cursor][2] THEN rest ELSE Tail(rest)
    BY <1>9 DEF Branch
  <1>11. /\ Tree(k, x + 1)'
         /\ cidrs[x + 1][2] = StepAt(k)
         /\ x + 1 < LevelEnd(k) => cidrs'[x + 2][2] = StepAt(k)
         /\ x + 1 = LevelEnd(k) => cidrs'[x + 2][2] # StepAt(k)
    BY <1>1, <1>6, <1>7, <1>8, <1>10, TreeGrows
  <1>12. list' = list /\ LevelEnd(k)' = LevelEnd(k) /\ LevelEnd(k) \in Nat
    BY <1>10, RequestStays, StepsStay, LevelFacts
  <1>13. cursor' = x + 2 /\ x + 2 = (x + 1) + 1 /\ x + 1 \in Nat
    BY <1>1, <1>10
  <1>14. rest' = IF cidrs'[x + 2][2] = cidrs[x + 1][2] THEN q ELSE Tail(q)
    BY <1>1, <1>3, <1>10, <1>13
  <1>15. x + 1 < LevelEnd(k) \/ x + 1 = LevelEnd(k)
    BY <1>1, <1>6, <1>12
  <1>16. k # Len(list)' /\ k \in 0 .. Len(list)' /\ k < Len(list)'
    BY <1>2, <1>6, <1>12
  <1>17. CASE x + 1 < LevelEnd(k)
    <2>1. rest' = q
      BY <1>11, <1>14, <1>17
    <2>2. Left(k)'
      BY <2>1, <1>3, <1>4, <1>12 DEF Left
    <2>3. x + 1 # LevelEnd(k)'
      BY <1>12, <1>13, <1>17
    <2>4. QED
      BY <2>2, <2>3, <1>11, <1>13, <1>16 DEF Growing
  <1>18. CASE x + 1 = LevelEnd(k)
    <2>1. rest' = Tail(q)
      BY <1>11, <1>14, <1>18
    <2>2. PICK t : t = Tail(q)
      OBVIOUS
    <2>3. t \in Seq(Nat) /\ Len(t) = Len(q) - 1 /\ \A i \in 1 .. Len(t) : t[i] = q[i + 1]
      BY ONLY <2>2, <1>3, <1>4, <1>5
    <2>4. Len(t) = Len(list) - (k + 1)
      BY <2>3, <1>2, <1>4
    <2>5. ASSUME NEW i \in 1 .. Len(t)
          PROVE  t[i] = list[(k + 1) + i]
      <3>1. i + 1 \in 1 .. Len(q) /\ k + (i + 1) = (k + 1) + i
        BY <2>3, <1>5
      <3>2. q[i + 1] = list[k + (i + 1)]
        BY <3>1, <1>4
      <3>3. QED
        BY <3>1, <3>2, <2>3
    <2>6. Left(k + 1)'
      BY <2>1, <2>2, <2>3, <2>4, <2>5, <1>12 DEF Left
    <2>7. x + 1 = LevelEnd(k)'
      BY <1>12, <1>18
    <2>8. QED
      BY <2>6, <2>7, <1>11, <1>13, <1>16 DEF Growing
  <1>19. QED
    BY <1>15, <1>17, <1>18

\* A tree with no step left has all its levels.
LEMMA GrownComplete ==
    ASSUME Valid, Growing, rest = <<>>
    PROVE  Complete
PROOF
  <1>1. PICK k \in 0 .. Len(list), x \in Nat :
           /\ Tree(k, x) /\ cursor = x + 1 /\ Left(k)
           /\ k < Len(list) => x < LevelEnd(k)
           /\ k = Len(list) => x = LevelStart(k)
    BY Normalised
  <1>2. Len(list) \in Nat
    BY ValidFacts
  <1>3. Len(rest) = 0
    OBVIOUS
  <1>4. k = Len(list)
    BY <1>1, <1>2, <1>3 DEF Left
  <1>5. QED
    BY <1>1, <1>4 DEF Complete

\* A step of the call keeps the tree a tree.
LEMMA TreeStep ==
    ASSUME TreeInv, CalcNext
    PROVE  TreeInv'
PROOF
  <1>1. request' = request
    BY CallKeepsRequest
  <1> SUFFICES ASSUME request.tool = "hierarchy"
               PROVE  TreeInv'
    BY <1>1 DEF TreeInv
  <1>2. (Asks' <=> Asks) /\ (Valid' <=> Valid)
    BY <1>1, RequestStays, StepsStay
  <1>3. Asks /\ Asks'
    BY <1>2 DEF TreeInv
  <1>4. CASE Call
    <2>1. reply' = Refusal /\ stage' = IF Refusal = "ok" THEN "start" ELSE "done"
      BY <1>4 DEF Call
    <2>2. Refusal = IF list = <<>> THEN "InvalidInput" ELSE validate_steps.reply
      BY DEF Refusal
    <2>3. Refusal = "ok" => Valid
      BY <2>2, <1>3 DEF Valid
    <2>4. CASE Refusal = "ok"
      BY <2>1, <2>3, <2>4, <1>2, <1>3 DEF TreeInv
    <2>5. CASE Refusal # "ok"
      BY <2>1, <2>5, <1>3 DEF TreeInv
    <2>6. QED
      BY <2>4, <2>5
  <1>5. CASE Root
    <2>1. stage = "start" /\ stage' = "run"
      BY <1>5 DEF Root, Doing
    <2>2. Valid
      BY <2>1 DEF TreeInv
    <2>3. Growing'
      BY <2>2, <1>5, RootStep
    <2>4. QED
      BY <2>1, <2>2, <2>3, <1>2, <1>3 DEF TreeInv
  <1>6. CASE Branch
    <2>1. stage = "run" /\ stage' = "run"
      BY <1>6 DEF Branch, Doing
    <2>2. Valid /\ Growing
      BY <2>1 DEF TreeInv
    <2>3. Growing'
      BY <2>2, <1>6, BranchStep
    <2>4. QED
      BY <2>1, <2>2, <2>3, <1>2, <1>3 DEF TreeInv
  <1>7. CASE Grown
    <2>1. stage = "run" /\ stage' = "done" /\ rest = <<>> /\ UNCHANGED <<request, cidrs>>
      BY <1>7 DEF Grown, Doing, Answer
    <2>2. Valid /\ Growing
      BY <2>1 DEF TreeInv
    <2>3. Complete'
      BY <2>1, <2>2, GrownComplete, TreeStays
    <2>4. QED
      BY <2>1, <2>2, <2>3, <1>2, <1>3 DEF TreeInv
  <1>8. CASE StartCarving \/ Carve \/ RefuseToCarve \/ Carved \/ Normalize \/ Keep
             \/ StartMerging \/ MergeNext \/ Merged \/ StartRange \/ CoverNext \/ RangeCovered
             \/ Generate
    BY <1>8 DEF StartCarving, Carve, RefuseToCarve, Carved, Carving, Normalize, Keep,
       StartMerging, MergeNext, Merged, StartRange, CoverNext, RangeCovered, Generate, Doing
  <1>9. QED
    BY <1>4, <1>5, <1>6, <1>7, <1>8 DEF CalcNext

\* Each node of the whole tree but the last level's is partitioned, and there
\* are as many nodes as was promised.
LEMMA TreeDone ==
    ASSUME TreeInv, request.tool = "hierarchy"
    PROVE  SplitsPartition
PROOF
  <1> SUFFICES ASSUME stage = "done", reply = "ok"
               PROVE  /\ \A c \in ToSet(cidrs) : Deeper(c) # {} => Partitioned(c)
                      /\ Len(cidrs) = validate_steps.total + 1
    BY DEF SplitsPartition, Answered
  <1>1. Asks /\ Valid /\ Complete
    BY DEF TreeInv
  <1>2. PICK k \in 0 .. Len(list) : k = Len(list)
    BY <1>1, ValidFacts
  <1>3. PICK x : x = LevelStart(k)
    OBVIOUS
  <1>4. Tree(k, x)
    BY <1>1, <1>2, <1>3 DEF Complete
  <1>5. LevelEnd(k) \in Nat /\ x \in Nat /\ x < LevelEnd(k)
    BY <1>1, <1>3, LevelFacts, StepsGoDown
  <1>6. Len(cidrs) = LevelEnd(k) /\ cidrs \in Seq(CidrsOf(request.v4))
    <2>1. Len(cidrs) = LevelEnd(k) + 0 /\ cidrs \in Seq(CidrsOf(request.v4))
      BY <1>3, <1>4 DEF Tree
    <2>2. QED
      BY <2>1, <1>5
  <1>7. Len(cidrs) = validate_steps.total + 1
    BY <1>2, <1>6 DEF LevelEnd, validate_steps
  <1>8. ASSUME NEW c \in ToSet(cidrs), Deeper(c) # {}
        PROVE  Partitioned(c)
    <2>1. PICK i \in DOMAIN cidrs : c = cidrs[i]
      BY DEF ToSet
    <2>2. i \in Nat /\ i <= LevelEnd(k) /\ c \in CidrsOf(request.v4)
      BY <2>1, <1>5, <1>6
    <2>3. c[2] \in Nat
      BY <2>2, <1>1, PairFacts
    <2>4. i <= x
      <3> SUFFICES ASSUME ~ (i <= x)
                   PROVE  FALSE
        OBVIOUS
      <3>1. x < i
        BY <2>2, <1>5
      <3>2. c[2] = StepAt(k)
        BY <3>1, <2>1, <2>2, <1>3, <1>4 DEF Tree
      <3>3. Deeper(c) = {}
        BY <3>2, <1>1, <1>2, NextOfLevel
      <3>4. QED
        BY <3>3, <1>8
    <2>5. Filled(i)
      BY <2>1, <2>4, <1>4 DEF Tree
    <2>6. Deeper(c) \subseteq Nat
      <3>1. list \in Seq(Nat)
        BY <1>1, ValidFacts
      <3>2. ToSet(list) \subseteq Nat
        BY <3>1 DEF ToSet
      <3>3. QED
        BY <3>2 DEF Deeper
    <2>7. PICK p \in Deeper(c) : \A q \in Deeper(c) : p <= q
      BY <2>6, <1>8, LeastMember
    <2>8. p \in Nat /\ p = NextStep(c)
      BY <2>6, <2>7, NextIs
    <2>9. c[2] <= p
      BY <2>3, <2>7, <2>8 DEF Deeper
    <2>10. \A a \in c[1] .. LastOf(c) : \E j \in DOMAIN cidrs :
              cidrs[j][2] = p /\ cidrs[j][1] <= a /\ a <= LastOf(cidrs[j])
      BY <2>1, <2>5, <2>8 DEF Filled
    <2>11. \A h, j \in DOMAIN cidrs :
              h < j /\ cidrs[h][2] = p /\ cidrs[j][2] = p => LastOf(cidrs[h]) < cidrs[j][1]
      BY <1>4 DEF Tree
    <2>12. QED
      BY <2>2, <2>8, <2>9, <2>10, <2>11, <1>1, <1>6, PartitionIs
  <1>9. QED
    BY <1>7, <1>8

\* Splits and trees stay what they are while nothing happens.
LEMMA SplitStutters ==
    ASSUME UNCHANGED calcVars
    PROVE  (GenerateInv => GenerateInv') /\ (TreeInv => TreeInv')
PROOF
  <1>1. UNCHANGED <<request, pending, rest, cursor, cidrs, reply, stage>>
    BY DEF calcVars
  <1>2. /\ (Asks' <=> Asks) /\ (Valid' <=> Valid)
        /\ Splits' <=> Splits
        /\ Given' = Given
        /\ Complete' <=> Complete
        /\ Growing' <=> Growing
    BY <1>1, RequestStays, StepsStay, SplitStays, TreeStays
  <1>3. QED
    BY <1>1, <1>2 DEF GenerateInv, TreeInv

\* What a split gives has the prefix asked for and partitions its parent, at
\* each level of a tree, which has as many nodes as was promised.
THEOREM Partitions == CalcSpec => []SplitsPartition
PROOF
  <1> DEFINE Inv == GenerateInv /\ TreeInv
  <1>1. CalcInit => Inv
    BY CallAsks DEF CalcInit, GenerateInv, TreeInv
  <1>2. Inv /\ [CalcNext]_calcVars => Inv'
    BY GenerateStep, TreeStep, SplitStutters
  <1>3. Inv => SplitsPartition
    <2>1. request.tool \notin {"generate", "hierarchy"} => SplitsPartition
      BY DEF SplitsPartition, Answered
    <2>2. QED
      BY <2>1, GenerateDone, TreeDone
  <1>4. QED
    BY <1>1, <1>2, <1>3, PTL DEF CalcSpec
=============================================================================
