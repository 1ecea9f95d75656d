------------------------------ MODULE TableMles ------------------------------
(***************************************************************************)
(* The two algebraic readings of jolt-core's lookup tables that the sumcheck*)
(* uses: the multilinear extension the verifier evaluates at a point r of  *)
(* 2 * XLEN field elements (evaluate_mle; the most significant bit first), *)
(* and the prefix-suffix decomposition the prover sums (suffixes and       *)
(* combine).                                                               *)
(***************************************************************************)
EXTENDS Prefixes

\* the pair of bits i of the two operands, i = 0 .. XLEN - 1 from the top
Rx(r, i) == r[2 * i + 1]
Ry(r, i) == r[2 * i + 2]
SumPairs(r, f(_, _)) ==
    SumOver(0, XLEN - 1, LAMBDA i : Pow(XLEN - 1 - i) \otimes f(Rx(r, i), Ry(r, i)))
\* the number whose n bits start at place first of r
NumberAt(r, first, n) == SumOver(0, n - 1, LAMBDA i : Pow(n - 1 - i) \otimes r[first + i])
\* x < y and x = y, from the top pair down
Compare(r) ==
    LET s[i \in 0 .. XLEN] ==
            IF i = 0 THEN << 0, 1 >>
            ELSE LET x == Rx(r, i - 1)  y == Ry(r, i - 1)
                 IN << s[i - 1][1] \oplus LtBit(x, y) \otimes s[i - 1][2],
                       s[i - 1][2] \otimes EqBit(x, y) >>
    IN [lt |-> s[XLEN][1], eq |-> s[XLEN][2]]
\* a rotation or right shift by the bitmask y, over the pairs from first down
ShiftSums(r, first) ==
    LET s[i \in first .. XLEN] ==
            IF i = first THEN << 0, 0, 1 >>
            ELSE LET x == Rx(r, i - 1)  y == Ry(r, i - 1)  p == s[i - 1]
                 IN << p[1] \otimes (1 \oplus y) \oplus x \otimes y,
                       p[2] \oplus GtBit(x, y) \otimes p[3] \otimes Pow(XLEN - i),
                       p[3] \otimes (1 \oplus y) >>
    IN [right |-> s[XLEN][1], left |-> s[XLEN][2]]

AndMle(r) == SumPairs(r, AndBit)
AndnMle(r) == SumPairs(r, AndnBit)
OrMle(r) == SumPairs(r, OrBit)
XorMle(r) == SumPairs(r, XorBit)
EqualMle(r) == ProductOver(0, XLEN - 1, LAMBDA i : EqBit(Rx(r, i), Ry(r, i)))
NotEqualMle(r) == 1 \ominus EqualMle(r)
HalfwordAlignmentMle(r) == 1 \ominus r[LOG_K]
WordAlignmentMle(r) == BothPositive(r[LOG_K - 1], r[LOG_K])
LowerHalfWordMle(r) == NumberAt(r, XLEN + WordLen + 1, WordLen)
RangeCheckMle(r) == NumberAt(r, XLEN + 1, XLEN)
SubMle(r) == NumberAt(r, XLEN + 1, XLEN)
UpperWordMle(r) == NumberAt(r, 1, XLEN)
MovsignMle(r) == Fp(Ones) \otimes r[1]
MulUNoOverflowMle(r) == ProductOver(1, XLEN, LAMBDA i : 1 \ominus r[i])
Pow2Mle(r) == ProductOver(0, LogXlen - 1, LAMBDA i : PowBit(i, r[LOG_K - i]))
\* Fault: one factor too few, so the top bit of the shift amount is ignored.
Pow2WMleShort(r) == ProductOver(0, LogWord - 2, LAMBDA i : PowBit(i, r[LOG_K - i]))
Pow2WMle(r) == ProductOver(0, LogWord - 1, LAMBDA i : PowBit(i, r[LOG_K - i]))
ShiftRightBitmaskMle(r) ==
    SumOver(0, XLEN - 1, LAMBDA s :
        Fp(ShiftBitmask(s, XLEN))
        \otimes ProductOver(0, LogXlen - 1, LAMBDA i : EqBit(Bit(s, i), r[LOG_K - i])))
SignExtendHalfWordMle(r) ==
    LowerHalfWordMle(r)
    \oplus (Fp(2 ^ WordLen - 1) \otimes r[XLEN + WordLen + 1]) \otimes Pow(WordLen)
SignedLessThanMle(r) == (r[1] \ominus r[2]) \oplus Compare(r).lt
SignedGreaterThanEqualMle(r) == 1 \ominus SignedLessThanMle(r)
UnsignedLessThanMle(r) == Compare(r).lt
UnsignedLessThanEqualMle(r) == Compare(r).lt \oplus Compare(r).eq
UnsignedGreaterThanEqualMle(r) == 1 \ominus UnsignedLessThanMle(r)
LeftZero(r) == ProductOver(0, XLEN - 1, LAMBDA i : 1 \ominus Rx(r, i))
RightZero(r) == ProductOver(0, XLEN - 1, LAMBDA i : 1 \ominus Ry(r, i))
ValidDiv0Mle(r) ==
    (1 \ominus LeftZero(r)) \oplus ProductOver(0, XLEN - 1, LAMBDA i : LtBit(Rx(r, i), Ry(r, i)))
ValidUnsignedRemainderMle(r) == Compare(r).lt \oplus RightZero(r)
ValidSignedRemainderMle(r) ==
    LET pos == BothPositive(r[1], r[2])
        neg == AndBit(r[1], r[2])
        s[i \in 1 .. XLEN] ==
            IF i = 1 THEN [lt |-> pos, poseq |-> pos, gt |-> neg, negeq |-> neg]
            ELSE LET x == Rx(r, i - 1)  y == Ry(r, i - 1)  p == s[i - 1]
                 IN [lt |-> IF i = 2 THEN p.lt \otimes LtBit(x, y)
                            ELSE p.lt \oplus p.poseq \otimes LtBit(x, y),
                     poseq |-> p.poseq \otimes EqBit(x, y),
                     gt |-> IF i = 2 THEN p.gt \otimes GtBit(x, y)
                            ELSE p.gt \oplus p.negeq \otimes GtBit(x, y),
                     negeq |-> p.negeq \otimes EqBit(x, y)]
    IN s[XLEN].lt \oplus s[XLEN].gt \oplus r[2] \otimes LeftZero(r) \oplus RightZero(r)
\* the place of the divisor's top bit is pair first: 0, or XLEN / 2 for words
ChangedDivisor(r, first) ==
    SumOver(first, XLEN - 1, LAMBDA i : Pow(XLEN - 1 - i) \otimes Ry(r, i))
    \oplus Adjustment \otimes Rx(r, first)
           \otimes ProductOver(first + 1, XLEN - 1, LAMBDA i : 1 \ominus Rx(r, i))
           \otimes ProductOver(first, XLEN - 1, LAMBDA i : Ry(r, i))
VirtualChangeDivisorMle(r) == ChangedDivisor(r, 0)
VirtualChangeDivisorWMle(r) ==
    ChangedDivisor(r, WordLen) \oplus Fp(Base - 2 ^ WordLen) \otimes r[XLEN + 2]
VirtualRev8WMle(r) ==
    LET byte(k) == NumberAt(r, LOG_K - (k + 1) * ByteLen + 1, ByteLen)
        swapped == << 3, 2, 1, 0, 7, 6, 5, 4 >>
    IN SumOver(0, DwordBytes - 1, LAMBDA k : Pow(k * ByteLen) \otimes byte(swapped[k + 1]))
VirtualRotrMle(r) == LET s == ShiftSums(r, 0) IN s.right \oplus s.left
VirtualRotrWMle(r) == LET s == ShiftSums(r, WordLen) IN s.right \oplus s.left
VirtualSRLMle(r) == ShiftSums(r, 0).right
VirtualSRAMle(r) ==
    ShiftSums(r, 0).right
    \oplus r[1] \otimes SumOver(1, XLEN - 1, LAMBDA i : Pow(i) \otimes (1 \ominus Ry(r, i)))
VirtualXORROTMle(r, rot) ==
    SumOver(0, XLEN - 1, LAMBDA i : RotatedPow(i, rot, XLEN) \otimes XorBit(Rx(r, i), Ry(r, i)))
VirtualXORROTWMle(r, rot) ==
    SumOver(WordLen, XLEN - 1, LAMBDA i :
        RotatedPow(i - WordLen, rot, WordLen) \otimes XorBit(Rx(r, i), Ry(r, i)))

\* LookupTables::evaluate_mle
evaluate_mle(t, r, rot) ==
    CASE t = "RangeCheck" -> RangeCheckMle(r)
      [] t = "UpperWord" -> UpperWordMle(r)
      [] t = "And" -> AndMle(r)
      [] t = "Andn" -> AndnMle(r)
      [] t = "Or" -> OrMle(r)
      [] t = "Xor" -> XorMle(r)
      [] t = "Equal" -> EqualMle(r)
      [] t = "NotEqual" -> NotEqualMle(r)
      [] t = "UnsignedLessThan" -> UnsignedLessThanMle(r)
      [] t = "UnsignedLessThanEqual" -> UnsignedLessThanEqualMle(r)
      [] t = "UnsignedGreaterThanEqual" -> UnsignedGreaterThanEqualMle(r)
      [] t = "SignedLessThan" -> SignedLessThanMle(r)
      [] t = "SignedGreaterThanEqual" -> SignedGreaterThanEqualMle(r)
      [] t = "Movsign" -> MovsignMle(r)
      [] t = "MulUNoOverflow" -> MulUNoOverflowMle(r)
      [] t = "HalfwordAlignment" -> HalfwordAlignmentMle(r)
      [] t = "WordAlignment" -> WordAlignmentMle(r)
      [] t = "LowerHalfWord" -> LowerHalfWordMle(r)
      [] t = "SignExtendHalfWord" -> SignExtendHalfWordMle(r)
      [] t = "Pow2" -> Pow2Mle(r)
      [] t = "Pow2W" -> Pow2WMle(r)
      [] t = "ShiftRightBitmask" -> ShiftRightBitmaskMle(r)
      [] t = "ValidDiv0" -> ValidDiv0Mle(r)
      [] t = "ValidUnsignedRemainder" -> ValidUnsignedRemainderMle(r)
      [] t = "ValidSignedRemainder" -> ValidSignedRemainderMle(r)
      [] t = "VirtualChangeDivisor" -> VirtualChangeDivisorMle(r)
      [] t = "VirtualChangeDivisorW" -> VirtualChangeDivisorWMle(r)
      [] t = "VirtualRev8W" -> VirtualRev8WMle(r)
      [] t = "VirtualSRL" -> VirtualSRLMle(r)
      [] t = "VirtualSRA" -> VirtualSRAMle(r)
      [] t = "VirtualRotr" -> VirtualRotrMle(r)
      [] t = "VirtualRotrW" -> VirtualRotrWMle(r)
      [] t = "VirtualXORROT" -> VirtualXORROTMle(r, rot)
      [] t = "VirtualXORROTW" -> VirtualXORROTWMle(r, rot)
      [] t = "Sub" -> SubMle(r)

\* PrefixSuffixDecomposition::suffixes
suffixes(t) ==
    CASE t = "RangeCheck" -> << "One", "LowerWord" >>
      [] t = "UpperWord" -> << "One", "UpperWord" >>
      [] t = "And" -> << "One", "And" >>
      [] t = "Andn" -> << "One", "NotAnd" >>
      [] t = "Or" -> << "One", "Or" >>
      [] t = "Xor" -> << "One", "Xor" >>
      [] t = "Equal" -> << "Eq" >>
      [] t = "NotEqual" -> << "One", "Eq" >>
      [] t = "UnsignedLessThan" -> << "One", "LessThan" >>
      [] t = "UnsignedLessThanEqual" -> << "One", "LessThan", "Eq" >>
      [] t = "UnsignedGreaterThanEqual" -> << "One", "LessThan" >>
      [] t = "SignedLessThan" -> << "One", "LessThan" >>
      [] t = "SignedGreaterThanEqual" -> << "One", "LessThan" >>
      [] t = "Movsign" -> << "One" >>
      [] t = "MulUNoOverflow" -> << "OverflowBitsZero" >>
      [] t = "HalfwordAlignment" -> << "One", "Lsb" >>
      [] t = "WordAlignment" -> << "TwoLsb" >>
      [] t = "LowerHalfWord" -> << "One", "LowerHalfWord" >>
      [] t = "SignExtendHalfWord" -> << "One", "LowerHalfWord", "SignExtensionUpperHalf" >>
      [] t = "Pow2" -> << "Pow2" >>
      [] t = "Pow2W" -> << "Pow2W" >>
      [] t = "ShiftRightBitmask" -> << "One", "Pow2" >>
      [] t = "ValidDiv0" -> << "One", "LeftOperandIsZero", "DivByZero" >>
      [] t = "ValidUnsignedRemainder" -> << "One", "LessThan", "RightOperandIsZero" >>
      [] t = "ValidSignedRemainder" -> << "One", "LessThan", "GreaterThan", "LeftOperandIsZero", "RightOperandIsZero" >>
      [] t = "VirtualChangeDivisor" -> << "One", "RightOperand", "ChangeDivisor" >>
      [] t = "VirtualChangeDivisorW" -> << "One", "RightOperandW", "ChangeDivisorW", "SignExtensionRightOperand" >>
      [] t = "VirtualRev8W" -> << "One", "Rev8W" >>
      [] t = "VirtualSRL" -> << "RightShift", "RightShiftHelper" >>
      [] t = "VirtualSRA" -> << "One", "RightShift", "RightShiftHelper", "SignExtension" >>
      [] t = "VirtualRotr" -> << "RightShiftHelper", "RightShift", "LeftShift", "One" >>
      [] t = "VirtualRotrW" -> << "RightShiftWHelper", "RightShiftW", "LeftShiftW", "One" >>
      [] t = "VirtualXORROT" -> << "One", "XorRot" >>
      [] t = "VirtualXORROTW" -> << "One", "XorRotW" >>
      [] t = "Sub" -> << "One", "LowerWord" >>

\* PrefixSuffixDecomposition::combine, of prefixes p and suffixes s (in the
\* order of suffixes(t))
RangeCheckCombine(p, s) == p["LowerWord"] \otimes s[1] \oplus s[2]
UpperWordCombine(p, s) == p["UpperWord"] \otimes s[1] \oplus s[2]
AndCombine(p, s) == p["And"] \otimes s[1] \oplus s[2]
AndnCombine(p, s) == p["Andn"] \otimes s[1] \oplus s[2]
OrCombine(p, s) == p["Or"] \otimes s[1] \oplus s[2]
XorCombine(p, s) == p["Xor"] \otimes s[1] \oplus s[2]
EqualCombine(p, s) == p["Eq"] \otimes s[1]
NotEqualCombine(p, s) == s[1] \ominus p["Eq"] \otimes s[2]
UnsignedLessThanCombine(p, s) == p["LessThan"] \otimes s[1] \oplus p["Eq"] \otimes s[2]
UnsignedLessThanEqualCombine(p, s) ==
    p["LessThan"] \otimes s[1] \oplus p["Eq"] \otimes s[2] \oplus p["Eq"] \otimes s[3]
UnsignedGreaterThanEqualCombine(p, s) ==
    s[1] \ominus p["LessThan"] \otimes s[1] \ominus p["Eq"] \otimes s[2]
SignedLessThanCombine(p, s) ==
    p["LeftOperandMsb"] \otimes s[1] \ominus p["RightOperandMsb"] \otimes s[1]
    \oplus p["LessThan"] \otimes s[1] \oplus p["Eq"] \otimes s[2]
SignedGreaterThanEqualCombine(p, s) ==
    (((s[1] \oplus p["RightOperandMsb"] \otimes s[1])
    \ominus p["LeftOperandMsb"] \otimes s[1]) \ominus p["LessThan"] \otimes s[1])
    \ominus p["Eq"] \otimes s[2]
MovsignCombine(p, s) == p["LeftOperandMsb"] \otimes s[1] \otimes Fp(Ones)
MulUNoOverflowCombine(p, s) == p["OverflowBitsZero"] \otimes s[1]
HalfwordAlignmentCombine(p, s) == s[1] \ominus p["Lsb"] \otimes s[2]
WordAlignmentCombine(p, s) == p["TwoLsb"] \otimes s[1]
LowerHalfWordCombine(p, s) == p["LowerHalfWord"] \otimes s[1] \oplus s[2]
SignExtendHalfWordCombine(p, s) ==
    p["LowerHalfWord"] \otimes s[1] \oplus s[2]
    \oplus p["SignExtensionUpperHalf"] \otimes s[3]
Pow2Combine(p, s) == p["Pow2"] \otimes s[1]
Pow2WCombine(p, s) == p["Pow2W"] \otimes s[1]
ShiftRightBitmaskCombine(p, s) == Pow(XLEN) \otimes s[1] \ominus p["Pow2"] \otimes s[2]
ValidDiv0Combine(p, s) ==
    s[1] \ominus p["LeftOperandIsZero"] \otimes s[2] \oplus p["DivByZero"] \otimes s[3]
ValidUnsignedRemainderCombine(p, s) ==
    p["RightOperandIsZero"] \otimes s[3] \oplus p["LessThan"] \otimes s[1]
    \oplus p["Eq"] \otimes s[2]
ValidSignedRemainderCombine(p, s) ==
    p["RightOperandIsZero"] \otimes s[5]
    \oplus p["PositiveRemainderEqualsDivisor"] \otimes s[2]
    \oplus p["PositiveRemainderLessThanDivisor"] \otimes s[1]
    \oplus p["NegativeDivisorZeroRemainder"] \otimes s[4]
    \oplus p["NegativeDivisorEqualsRemainder"] \otimes s[3]
    \oplus p["NegativeDivisorGreaterThanRemainder"] \otimes s[1]
VirtualChangeDivisorCombine(p, s) ==
    p["RightOperand"] \otimes s[1] \oplus s[2] \oplus p["ChangeDivisor"] \otimes s[3]
VirtualChangeDivisorWCombine(p, s) ==
    p["RightOperandW"] \otimes s[1] \oplus s[2] \oplus p["ChangeDivisorW"] \otimes s[3]
    \oplus p["SignExtensionRightOperand"] \otimes s[4]
VirtualRev8WCombine(p, s) == p["Rev8W"] \otimes s[1] \oplus s[2]
VirtualSRLCombine(p, s) == p["RightShift"] \otimes s[2] \oplus s[1]
VirtualSRACombine(p, s) ==
    p["RightShift"] \otimes s[3] \oplus s[2] \oplus p["LeftOperandMsb"] \otimes s[4]
    \oplus p["SignExtension"] \otimes s[1]
VirtualRotrCombine(p, s) ==
    p["RightShift"] \otimes s[1] \oplus s[2] \oplus p["LeftShiftHelper"] \otimes s[3]
    \oplus p["LeftShift"] \otimes s[4]
VirtualRotrWCombine(p, s) ==
    p["RightShiftW"] \otimes s[1] \oplus s[2] \oplus p["LeftShiftWHelper"] \otimes s[3]
    \oplus p["LeftShiftW"] \otimes s[4]
VirtualXORROTCombine(p, s) == p["XorRot"] \otimes s[1] \oplus s[2]
VirtualXORROTWCombine(p, s) == p["XorRotW"] \otimes s[1] \oplus s[2]
SubCombine(p, s) == p["LowerWord"] \otimes s[1] \oplus s[2]
combine(t, p, s) ==
    CASE t = "RangeCheck" -> RangeCheckCombine(p, s)
      [] t = "UpperWord" -> UpperWordCombine(p, s)
      [] t = "And" -> AndCombine(p, s)
      [] t = "Andn" -> AndnCombine(p, s)
      [] t = "Or" -> OrCombine(p, s)
      [] t = "Xor" -> XorCombine(p, s)
      [] t = "Equal" -> EqualCombine(p, s)
      [] t = "NotEqual" -> NotEqualCombine(p, s)
      [] t = "UnsignedLessThan" -> UnsignedLessThanCombine(p, s)
      [] t = "UnsignedLessThanEqual" -> UnsignedLessThanEqualCombine(p, s)
      [] t = "UnsignedGreaterThanEqual" -> UnsignedGreaterThanEqualCombine(p, s)
      [] t = "SignedLessThan" -> SignedLessThanCombine(p, s)
      [] t = "SignedGreaterThanEqual" -> SignedGreaterThanEqualCombine(p, s)
      [] t = "Movsign" -> MovsignCombine(p, s)
      [] t = "MulUNoOverflow" -> MulUNoOverflowCombine(p, s)
      [] t = "HalfwordAlignment" -> HalfwordAlignmentCombine(p, s)
      [] t = "WordAlignment" -> WordAlignmentCombine(p, s)
      [] t = "LowerHalfWord" -> LowerHalfWordCombine(p, s)
      [] t = "SignExtendHalfWord" -> SignExtendHalfWordCombine(p, s)
      [] t = "Pow2" -> Pow2Combine(p, s)
      [] t = "Pow2W" -> Pow2WCombine(p, s)
      [] t = "ShiftRightBitmask" -> ShiftRightBitmaskCombine(p, s)
      [] t = "ValidDiv0" -> ValidDiv0Combine(p, s)
      [] t = "ValidUnsignedRemainder" -> ValidUnsignedRemainderCombine(p, s)
      [] t = "ValidSignedRemainder" -> ValidSignedRemainderCombine(p, s)
      [] t = "VirtualChangeDivisor" -> VirtualChangeDivisorCombine(p, s)
      [] t = "VirtualChangeDivisorW" -> VirtualChangeDivisorWCombine(p, s)
      [] t = "VirtualRev8W" -> VirtualRev8WCombine(p, s)
      [] t = "VirtualSRL" -> VirtualSRLCombine(p, s)
      [] t = "VirtualSRA" -> VirtualSRACombine(p, s)
      [] t = "VirtualRotr" -> VirtualRotrCombine(p, s)
      [] t = "VirtualRotrW" -> VirtualRotrWCombine(p, s)
      [] t = "VirtualXORROT" -> VirtualXORROTCombine(p, s)
      [] t = "VirtualXORROTW" -> VirtualXORROTWCombine(p, s)
      [] t = "Sub" -> SubCombine(p, s)
=============================================================================
