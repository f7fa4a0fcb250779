--------------------------- MODULE WordArithmetic ---------------------------
(***************************************************************************)
(* u128 arithmetic as the release build does it (Cargo.toml:93 leaves      *)
(* overflow checks off; a debug build panics where a value leaves its type)*)
(* for words of Word bits.  An IPv4 address uses the low V4Bits of a word, *)
(* an IPv6 address all of it.                                              *)
(***************************************************************************)
EXTENDS Integers

CONSTANTS
    Word,   \* bits of a machine word, and of an IPv6 address
    V4Bits, \* bits of an IPv4 address
    NULL

ASSUME WordAssumption == Word \in Nat \ {0} /\ V4Bits \in 1 .. Word - 1
ASSUME NullAssumption == NULL \notin Nat

\* 2 ^ n, which the proofs need as a recursive function.
Pow2[n \in Nat] == IF n = 0 THEN 1 ELSE 2 * Pow2[n - 1]

MAX == Pow2[Word] - 1

wrap(n) == n % Pow2[Word]
saturating_add(n, k) == IF n + k > MAX THEN MAX ELSE n + k

\* The values of a u8, in which prefixes are given: twice the word's bits.
u8 == 0 .. 2 * Word - 1

\* 1u128 << k: the shift count is masked to the word; so is one that was less
\* than 0 and left its u8.
shl_one(k) == Pow2[k % Word]

trailing_zeros(n) == CHOOSE k \in 0 .. Word : n % Pow2[k] = 0 /\ n % Pow2[k + 1] # 0
ilog2(n) == CHOOSE k \in 0 .. Word : Pow2[k] <= n /\ n < Pow2[k + 1]

bits_of(v4) == IF v4 THEN V4Bits ELSE Word

\* Every CIDR of an address family.
Cidrs(v4) ==
    UNION {{[start |-> i * Pow2[k], end |-> (i + 1) * Pow2[k] - 1, v4 |-> v4] :
              i \in 0 .. Pow2[bits_of(v4) - k] - 1} : k \in 0 .. bits_of(v4)}
=============================================================================
