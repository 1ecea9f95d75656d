-------------------------------- MODULE Field --------------------------------
(***************************************************************************)
(* The prime field of the proof system (the scalar field of BN254 in the   *)
(* build), as arithmetic modulo P.  Every product is reduced, so a small   *)
(* prime keeps TLC's integers in range.                                    *)
(***************************************************************************)
EXTENDS Integers, Sequences, FiniteSets

CONSTANT P
ASSUME PrimeAssumption == P \in Nat /\ P > 2 /\ \A d \in 2 .. P - 1 : d * d > P \/ P % d # 0

FieldElems == 0 .. P - 1
a \oplus b == (a + b) % P
a \ominus b == (a - b) % P
a \otimes b == (a * b) % P
Fp(n) == n % P
Minus(a) == 0 \ominus a

\* the sum and the product of f(i) over i in lo .. hi
SumOver(lo, hi, f(_)) ==
    LET s[i \in lo - 1 .. hi] == IF i < lo THEN 0 ELSE s[i - 1] \oplus f(i)
    IN IF hi < lo THEN 0 ELSE s[hi]
ProductOver(lo, hi, f(_)) ==
    LET s[i \in lo - 1 .. hi] == IF i < lo THEN 1 ELSE s[i - 1] \otimes f(i)
    IN IF hi < lo THEN 1 ELSE s[hi]

\* the multilinear extensions of x = y, x XOR y and x < y on one bit each
EqBit(x, y) == x \otimes y \oplus (1 \ominus x) \otimes (1 \ominus y)
XorBit(x, y) == (1 \ominus x) \otimes y \oplus x \otimes (1 \ominus y)
LtBit(x, y) == (1 \ominus x) \otimes y
=============================================================================
