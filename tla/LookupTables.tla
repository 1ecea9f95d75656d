---------------------------- MODULE LookupTables ----------------------------
(***************************************************************************)
(* The lookup tables of jolt-core: what materialize_entry returns for each *)
(* index of 2 * XLEN bits.  Tables of two operands take the interleaved    *)
(* operands; the others take one number of 2 * XLEN bits.                  *)
(***************************************************************************)
EXTENDS Word

\* uninterleave_bits: the operands whose bits are interleaved in the index
uninterleave_bits(index) ==
    LET pick[k \in 0 .. XLEN] ==
            IF k = 0 THEN << 0, 0 >>
            ELSE << pick[k - 1][1] + Bit(index, 2 * k - 1) * 2 ^ (k - 1),
                    pick[k - 1][2] + Bit(index, 2 * k - 2) * 2 ^ (k - 1) >>
    IN pick[XLEN]
Left(index) == uninterleave_bits(index)[1]
Right(index) == uninterleave_bits(index)[2]

RangeCheckTable(index) == Wrap(index)
UpperWordTable(index) == Wrap(ShiftRight(index, XLEN))
AndTable(index) == LET u == uninterleave_bits(index) IN u[1] & u[2]
AndnTable(index) == LET u == uninterleave_bits(index) IN u[1] & Complement(u[2])
OrTable(index) == LET u == uninterleave_bits(index) IN u[1] | u[2]
XorTable(index) == LET u == uninterleave_bits(index) IN u[1] ^^ u[2]
EqualTable(index) == BoolBit(Left(index) = Right(index))
NotEqualTable(index) == BoolBit(Left(index) # Right(index))
UnsignedLessThanTable(index) == BoolBit(Left(index) < Right(index))
UnsignedLessThanEqualTable(index) == BoolBit(Left(index) <= Right(index))
UnsignedGreaterThanEqualTable(index) == BoolBit(Left(index) >= Right(index))
SignedLessThanTable(index) == BoolBit(Signed(Left(index)) < Signed(Right(index)))
SignedGreaterThanEqualTable(index) == BoolBit(Signed(Left(index)) >= Signed(Right(index)))
MovsignTable(index) == IF Bit(index, 2 * XLEN - 1) = 1 THEN Ones ELSE 0
MulUNoOverflowTable(index) == BoolBit(ShiftRight(index, XLEN) = 0)
HalfwordAlignmentTable(index) == BoolBit(index % 2 = 0)
WordAlignmentTable(index) == BoolBit(index % 4 = 0)
LowerHalfWordTable(index) == Low(index, WordLen)
SignExtendHalfWordTable(index) ==
    Low(index, WordLen) + Bit(index, WordLen - 1) * (2 ^ WordLen - 1) * 2 ^ WordLen
Pow2Table(index) == 2 ^ (index % XLEN)
Pow2WTable(index) == 2 ^ (index % WordLen)
ShiftRightBitmaskTable(index) == ShiftBitmask(index % XLEN, XLEN)
ValidDiv0Table(index) ==
    IF Left(index) = 0 THEN BoolBit(Right(index) = Ones) ELSE 1
ValidUnsignedRemainderTable(index) ==
    BoolBit(Right(index) = 0 \/ Left(index) < Right(index))
ValidSignedRemainderTable(index) ==
    LET r == Signed(Left(index)) d == Signed(Right(index))
    IN BoolBit(r = 0 \/ d = 0 \/ (Magnitude(r) < Magnitude(d) /\ (r < 0) = (d < 0)))
VirtualChangeDivisorTable(index) ==
    IF Left(index) = IntMin /\ Right(index) = Ones THEN 1 ELSE Right(index)
VirtualChangeDivisorWTable(index) ==
    IF /\ Low(Left(index), WordLen) = 2 ^ (WordLen - 1)
       /\ Low(Right(index), WordLen) = 2 ^ WordLen - 1
    THEN 1 ELSE Sext(Right(index), WordLen)
VirtualRev8WTable(index) ==
    LET v == Wrap(index)
    IN SwapBytes(Low(v, WordLen), WordLen)
       + SwapBytes(ShiftRight(v, WordLen), WordLen) * 2 ^ WordLen

\* the shifts work on the bitmask operand y from the top bit down: every bit
\* of x under a one of y is appended to the entry
VirtualSRLTable(index) ==
    LET u == uninterleave_bits(index)
        e[k \in 0 .. XLEN] ==
            IF k = 0 THEN 0
            ELSE e[k - 1] * (1 + Bit(u[2], XLEN - k))
                 + Bit(u[1], XLEN - k) * Bit(u[2], XLEN - k)
    IN e[XLEN]
VirtualSRATable(index) ==
    LET u == uninterleave_bits(index)
        ext[k \in 0 .. XLEN - 1] ==
            IF k = 0 THEN 0
            ELSE ext[k - 1] + 2 ^ k * (1 - Bit(u[2], XLEN - 1 - k))
    IN VirtualSRLTable(index) + Bit(u[1], XLEN - 1) * ext[XLEN - 1]
\* rotation of the low n bits: those under ones of y first, then the others
RotateEntry(u, n) ==
    LET step[k \in 0 .. n] ==
            IF k = 0 THEN << 0, 0, 1 >>
            ELSE LET p == step[k - 1]
                     x == Bit(u[1], n - k)
                     y == Bit(u[2], n - k)
                 IN << p[1] * (1 + y) + x * y,
                       p[2] + x * (1 - y) * p[3] * 2 ^ (n - k),
                       p[3] * (1 + y) >>
    IN step[n][1] + step[n][2]
VirtualRotrTable(index) == RotateEntry(uninterleave_bits(index), XLEN)
\* Fault: the word table rotates the whole register.
VirtualRotrWTableWide(index) == RotateEntry(uninterleave_bits(index), XLEN)
VirtualRotrWTable(index) == RotateEntry(uninterleave_bits(index), WordLen)
VirtualXORROTTable(index, rotation) ==
    LET u == uninterleave_bits(index) IN RotateRight(u[1] ^^ u[2], rotation, XLEN)
VirtualXORROTWTable(index, rotation) ==
    LET u == uninterleave_bits(index)
    IN RotateRight(Low(u[1] ^^ u[2], WordLen), rotation, WordLen)

\* LookupTables::materialize_entry; rot is the ROTATION of the xor-rotate tables
TableNames ==
    {"RangeCheck", "UpperWord", "And", "Andn", "Or", "Xor", "Equal", "NotEqual",
     "UnsignedLessThan", "UnsignedLessThanEqual", "UnsignedGreaterThanEqual",
     "SignedLessThan", "SignedGreaterThanEqual", "Movsign", "MulUNoOverflow",
     "HalfwordAlignment", "WordAlignment", "LowerHalfWord", "SignExtendHalfWord",
     "Pow2", "Pow2W", "ShiftRightBitmask", "ValidDiv0", "ValidUnsignedRemainder",
     "ValidSignedRemainder", "VirtualChangeDivisor", "VirtualChangeDivisorW",
     "VirtualRev8W", "VirtualSRL", "VirtualSRA", "VirtualRotr", "VirtualRotrW",
     "VirtualXORROT", "VirtualXORROTW"}
materialize_entry(t, index, rot) ==
    CASE t = "RangeCheck" -> RangeCheckTable(index)
      [] t = "UpperWord" -> UpperWordTable(index)
      [] t = "And" -> AndTable(index)
      [] t = "Andn" -> AndnTable(index)
      [] t = "Or" -> OrTable(index)
      [] t = "Xor" -> XorTable(index)
      [] t = "Equal" -> EqualTable(index)
      [] t = "NotEqual" -> NotEqualTable(index)
      [] t = "UnsignedLessThan" -> UnsignedLessThanTable(index)
      [] t = "UnsignedLessThanEqual" -> UnsignedLessThanEqualTable(index)
      [] t = "UnsignedGreaterThanEqual" -> UnsignedGreaterThanEqualTable(index)
      [] t = "SignedLessThan" -> SignedLessThanTable(index)
      [] t = "SignedGreaterThanEqual" -> SignedGreaterThanEqualTable(index)
      [] t = "Movsign" -> MovsignTable(index)
      [] t = "MulUNoOverflow" -> MulUNoOverflowTable(index)
      [] t = "HalfwordAlignment" -> HalfwordAlignmentTable(index)
      [] t = "WordAlignment" -> WordAlignmentTable(index)
      [] t = "LowerHalfWord" -> LowerHalfWordTable(index)
      [] t = "SignExtendHalfWord" -> SignExtendHalfWordTable(index)
      [] t = "Pow2" -> Pow2Table(index)
      [] t = "Pow2W" -> Pow2WTable(index)
      [] t = "ShiftRightBitmask" -> ShiftRightBitmaskTable(index)
      [] t = "ValidDiv0" -> ValidDiv0Table(index)
      [] t = "ValidUnsignedRemainder" -> ValidUnsignedRemainderTable(index)
      [] t = "ValidSignedRemainder" -> ValidSignedRemainderTable(index)
      [] t = "VirtualChangeDivisor" -> VirtualChangeDivisorTable(index)
      [] t = "VirtualChangeDivisorW" -> VirtualChangeDivisorWTable(index)
      [] t = "VirtualRev8W" -> VirtualRev8WTable(index)
      [] t = "VirtualSRL" -> VirtualSRLTable(index)
      [] t = "VirtualSRA" -> VirtualSRATable(index)
      [] t = "VirtualRotr" -> VirtualRotrTable(index)
      [] t = "VirtualRotrW" -> VirtualRotrWTable(index)
      [] t = "VirtualXORROT" -> VirtualXORROTTable(index, rot)
      [] t = "VirtualXORROTW" -> VirtualXORROTWTable(index, rot)
=============================================================================
