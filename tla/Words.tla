-------------------------------- MODULE Words ---------------------------------
(***************************************************************************)
(* Machine integers.  Widths are scaled down, in the order of the          *)
(* program's: 8 bits are ByteBits wide, 32 are HalfBits, 64 are WordBits,  *)
(* so that every wrap-around happens among a few hundred numbers.          *)
(***************************************************************************)
EXTENDS Integers, Sequences, SequencesExt

ByteBits == 3
HalfBits == 5
WordBits == 8

WrapUnsigned(bits, n) == n % 2^bits
WrapSigned(bits, n) == ((n + 2^(bits - 1)) % 2^bits) - 2^(bits - 1)
FitsUnsigned(bits, n) == WrapUnsigned(bits, n) = n
FitsSigned(bits, n) == WrapSigned(bits, n) = n

Truth(p) == IF p THEN 1 ELSE 0

\* Division as C has it: towards zero.
AbsVal(n) == IF n < 0 THEN -n ELSE n
TruncDiv(a, b) == IF (a < 0) = (b < 0) THEN AbsVal(a) \div AbsVal(b) ELSE -(AbsVal(a) \div AbsVal(b))
TruncMod(a, b) == a - b * TruncDiv(a, b)

BitOf(n, k) == (n \div 2^k) % 2
BitWise(P(_, _), a, b) ==
    FoldLeft(LAMBDA s, k : s + (IF P(BitOf(a, k) = 1, BitOf(b, k) = 1) THEN 2^k ELSE 0),
             0, [k \in 1 .. WordBits |-> k - 1])
BitAnd(a, b) == BitWise(LAMBDA p, q : p /\ q, a, b)
BitOr(a, b) == BitWise(LAMBDA p, q : p \/ q, a, b)
BitXor(a, b) == BitWise(LAMBDA p, q : p # q, a, b)
=============================================================================
