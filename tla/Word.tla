-------------------------------- MODULE Word --------------------------------
(***************************************************************************)
(* Machine integers of the guest: an XLEN-bit register, its low word (half *)
(* of it), a halfword (a quarter) and a byte (an eighth).  The 64-bit build*)
(* has XLEN = 64; jolt-core's own tests also run at XLEN = 8, which is the *)
(* instance TLC checks.  A register value is its unsigned reading, a member*)
(* of 0 .. 2^XLEN - 1; i64 and i32 readings are Signed and SignedWord.     *)
(***************************************************************************)
EXTENDS Integers, Sequences, FiniteSets, Bitwise

CONSTANT XLEN
ASSUME XlenAssumption == XLEN \in {8, 16}

WordLen == XLEN \div 2
HalfLen == XLEN \div 4
ByteLen == XLEN \div 8
DwordBytes == 8
Base == 2 ^ XLEN
Words == 0 .. Base - 1
Ones == Base - 1
IntMin == 2 ^ (XLEN - 1)

\* wrapping to XLEN bits, and to the low n bits
Wrap(v) == v % Base
Low(v, n) == v % 2 ^ n

Bit(v, k) == (v \div 2 ^ k) % 2
SignedAt(v, n) == IF Bit(v, n - 1) = 1 THEN Low(v, n) - 2 ^ n ELSE Low(v, n)
Signed(v) == SignedAt(v, XLEN)
SignedWord(v) == SignedAt(v, WordLen)
Sext(v, n) == Wrap(SignedAt(v, n))
Complement(v) == Ones - v
BoolBit(b) == IF b THEN 1 ELSE 0
Magnitude(v) == IF v < 0 THEN -v ELSE v

\* Rust's / and % on signed operands truncate towards zero
TruncDiv(a, b) == LET q == Magnitude(a) \div Magnitude(b)
                  IN IF (a < 0) = (b < 0) THEN q ELSE -q
TruncRem(a, b) == a - b * TruncDiv(a, b)

ShiftRight(v, k) == v \div 2 ^ k
ShiftRightArith(v, k, n) == Wrap(SignedAt(v, n) \div 2 ^ k)
RotateRight(v, k, n) ==
    LET r == k % n IN Low(v, n) \div 2 ^ r + Low(v, r) * 2 ^ (n - r)

\* u64::trailing_zeros: XLEN for 0
TrailingZeros(v) ==
    IF v = 0 THEN XLEN
    ELSE CHOOSE k \in 0 .. XLEN - 1 : Bit(v, k) = 1 /\ Low(v, k) = 0

\* the right-shift bitmask: ones above the shift amount (1 << (n - s)) - 1 << s
ShiftBitmask(s, n) == (2 ^ (n - s) - 1) * 2 ^ s

SwapBytes(v, n) ==
    LET bytes == n \div ByteLen
        b(k) == Low(ShiftRight(v, k * ByteLen), ByteLen)
        swap[k \in 0 .. bytes] ==
            IF k = 0 THEN 0 ELSE swap[k - 1] * 2 ^ ByteLen + b(k - 1)
    IN swap[bytes]

\* bit k of x goes to place 2k + 1, bit k of y to place 2k
interleave_bits(x, y) ==
    LET mix[k \in 0 .. XLEN] ==
            IF k = 0 THEN 0
            ELSE mix[k - 1] + (2 * Bit(x, k - 1) + Bit(y, k - 1)) * 4 ^ (k - 1)
    IN mix[XLEN]
=============================================================================
