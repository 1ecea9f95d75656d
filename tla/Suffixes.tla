------------------------------ MODULE Suffixes ------------------------------
(***************************************************************************)
(* The suffixes of jolt-core's lookup tables: what a table needs to know of*)
(* the low-order bits of a lookup index that no sumcheck round has reached *)
(* yet.  A suffix is an integer, computed from a bit vector b of any even  *)
(* length (LookupBits); u64 is XLEN bits here and u32 is WordLen bits.     *)
(* The second half is what the workers compute instead on shared indices.  *)
(***************************************************************************)
EXTENDS Word

LookupBits(bits, len) == [bits |-> Low(bits, len), len |-> len]

\* x takes the odd places, y the even ones and the place left over
uninterleave(b) ==
    LET pick(off, n) ==
            LET p[k \in 0 .. n] ==
                    IF k = 0 THEN 0 ELSE p[k - 1] + Bit(b.bits, 2 * (k - 1) + off) * 2 ^ (k - 1)
            IN p[n]
        half == b.len \div 2
    IN [x |-> LookupBits(pick(1, half), half),
        y |-> LookupBits(pick(0, b.len - half), b.len - half)]
split(b, suffix_len) ==
    [prefix |-> LookupBits(ShiftRight(b.bits, suffix_len), b.len - suffix_len),
     suffix |-> LookupBits(b.bits, suffix_len)]
Msb(b) == Bit(b.bits, b.len - 1)
pop_msb(b) == LookupBits(b.bits, b.len - 1)
trailing_zeros(b) ==
    CHOOSE k \in 0 .. b.len : Low(b.bits, k) = 0 /\ (k = b.len \/ Bit(b.bits, k) = 1)
leading_ones(b) ==
    CHOOSE k \in 0 .. b.len :
        /\ \A i \in b.len - k .. b.len - 1 : Bit(b.bits, i) = 1
        /\ k = b.len \/ Bit(b.bits, b.len - k - 1) = 0

X(b) == uninterleave(b).x.bits
Y(b) == uninterleave(b).y.bits
AllOnes(b) == b.bits = 2 ^ b.len - 1
LogXlen == CHOOSE k \in 0 .. XLEN : 2 ^ k = XLEN
LogWord == LogXlen - 1
Rotl(v, k, n) == RotateRight(v, (n - k) % n, n)

OneSuffix(b) == 1
AndSuffix(b) == X(b) & Y(b)
NotAndSuffix(b) == X(b) & Complement(Y(b))
XorSuffix(b) == X(b) ^^ Y(b)
OrSuffix(b) == X(b) | Y(b)
RightOperandSuffix(b) == Y(b)
RightOperandWSuffix(b) == Low(Y(b), WordLen)
ChangeDivisorSuffix(b) == BoolBit(AllOnes(uninterleave(b).y) /\ X(b) = 0)
ChangeDivisorWSuffix(b) ==
    LET y == uninterleave(b).y
        y_len == IF y.len < WordLen THEN y.len ELSE WordLen
    IN BoolBit(Low(y.bits, WordLen) = 2 ^ y_len - 1 /\ Low(X(b), WordLen) = 0)
UpperWordSuffix(b) == Wrap(ShiftRight(b.bits, XLEN))
LowerWordSuffix(b) == Low(b.bits, XLEN)
LowerHalfWordSuffix(b) == Low(b.bits, WordLen)
LessThanSuffix(b) == BoolBit(X(b) < Y(b))
GreaterThanSuffix(b) == BoolBit(X(b) > Y(b))
EqSuffix(b) == BoolBit(X(b) = Y(b))
LeftOperandIsZeroSuffix(b) == BoolBit(X(b) = 0)
RightOperandIsZeroSuffix(b) == BoolBit(Y(b) = 0)
LsbSuffix(b) == IF b.len = 0 THEN 1 ELSE b.bits % 2
DivByZeroSuffix(b) == BoolBit(X(b) = 0 /\ AllOnes(uninterleave(b).y))
Pow2Suffix(b) == IF b.len = 0 THEN 1 ELSE 2 ^ split(b, LogXlen).suffix.bits
Pow2WSuffix(b) == IF b.len = 0 THEN 1 ELSE 2 ^ split(b, LogWord).suffix.bits
Rev8WSuffix(b) ==
    LET v == Wrap(b.bits)
    IN SwapBytes(Low(v, WordLen), WordLen)
       + SwapBytes(ShiftRight(v, WordLen), WordLen) * 2 ^ WordLen
RightShiftSuffix(b) == ShiftRight(X(b), trailing_zeros(uninterleave(b).y))
RightShiftHelperSuffix(b) == 2 ^ leading_ones(uninterleave(b).y)
LeftShiftSuffix(b) ==
    LET u == uninterleave(b)
    IN Wrap((u.x.bits & Complement(u.y.bits)) * 2 ^ leading_ones(u.y))
\* the word variants look at the low WordLen bits of both operands
WordBits(y) == LookupBits(y.bits, IF y.len < WordLen THEN y.len ELSE WordLen)
RightShiftWSuffix(b) ==
    LET tz == trailing_zeros(uninterleave(b).y)
    IN ShiftRight(Low(X(b), WordLen), IF tz < WordLen THEN tz ELSE WordLen)
RightShiftWHelperSuffix(b) == 2 ^ leading_ones(WordBits(uninterleave(b).y))
LeftShiftWSuffix(b) ==
    LET y == WordBits(uninterleave(b).y)
    IN Low((Low(X(b), WordLen) & Complement(y.bits)) * 2 ^ leading_ones(y), WordLen)
SignExtensionSuffix(b) == Wrap(Base - 2 ^ (XLEN - trailing_zeros(uninterleave(b).y)))
SignExtensionUpperHalfSuffix(b) ==
    IF b.len >= WordLen
    THEN Bit(b.bits, WordLen - 1) * (2 ^ WordLen - 1) * 2 ^ WordLen
    ELSE 1
SignExtensionRightOperandSuffix(b) ==
    IF b.len >= XLEN THEN Bit(b.bits, XLEN - 2) * (Base - 2 ^ WordLen) ELSE 1
TwoLsbSuffix(b) == BoolBit(b.len = 0 \/ b.bits % 4 = 0)
OverflowBitsZeroSuffix(b) == BoolBit(ShiftRight(b.bits, XLEN) = 0)
XorRotSuffix(b, rot) == RotateRight(X(b) ^^ Y(b), rot, XLEN)
XorRotWSuffix(b, rot) == RotateRight(Low(X(b) ^^ Y(b), WordLen), rot, WordLen)

\* Suffixes::suffix_mle; rot is the ROTATION of the xor-rotate suffixes
suffix_mle(s, b, rot) ==
    CASE s = "One" -> OneSuffix(b)
      [] s = "And" -> AndSuffix(b)
      [] s = "NotAnd" -> NotAndSuffix(b)
      [] s = "Xor" -> XorSuffix(b)
      [] s = "Or" -> OrSuffix(b)
      [] s = "RightOperand" -> RightOperandSuffix(b)
      [] s = "RightOperandW" -> RightOperandWSuffix(b)
      [] s = "ChangeDivisor" -> ChangeDivisorSuffix(b)
      [] s = "ChangeDivisorW" -> ChangeDivisorWSuffix(b)
      [] s = "UpperWord" -> UpperWordSuffix(b)
      [] s = "LowerWord" -> LowerWordSuffix(b)
      [] s = "LowerHalfWord" -> LowerHalfWordSuffix(b)
      [] s = "LessThan" -> LessThanSuffix(b)
      [] s = "GreaterThan" -> GreaterThanSuffix(b)
      [] s = "Eq" -> EqSuffix(b)
      [] s = "LeftOperandIsZero" -> LeftOperandIsZeroSuffix(b)
      [] s = "RightOperandIsZero" -> RightOperandIsZeroSuffix(b)
      [] s = "Lsb" -> LsbSuffix(b)
      [] s = "DivByZero" -> DivByZeroSuffix(b)
      [] s = "Pow2" -> Pow2Suffix(b)
      [] s = "Pow2W" -> Pow2WSuffix(b)
      [] s = "Rev8W" -> Rev8WSuffix(b)
      [] s = "RightShift" -> RightShiftSuffix(b)
      [] s = "RightShiftHelper" -> RightShiftHelperSuffix(b)
      [] s = "LeftShift" -> LeftShiftSuffix(b)
      [] s = "RightShiftW" -> RightShiftWSuffix(b)
      [] s = "RightShiftWHelper" -> RightShiftWHelperSuffix(b)
      [] s = "LeftShiftW" -> LeftShiftWSuffix(b)
      [] s = "SignExtension" -> SignExtensionSuffix(b)
      [] s = "SignExtensionUpperHalf" -> SignExtensionUpperHalfSuffix(b)
      [] s = "SignExtensionRightOperand" -> SignExtensionRightOperandSuffix(b)
      [] s = "TwoLsb" -> TwoLsbSuffix(b)
      [] s = "OverflowBitsZero" -> OverflowBitsZeroSuffix(b)
      [] s = "XorRot" -> XorRotSuffix(b, rot)
      [] s = "XorRotW" -> XorRotWSuffix(b, rot)
-----------------------------------------------------------------------------
(* The worker's suffixes (provia-worker zkvm/suffixes), evaluated in place of*)
(* suffix_mle on an index it holds in shares: bit operations in the smallest *)
(* ring T that holds the suffix, or in the ring of half that size when the   *)
(* operands are taken apart, and a conversion of the result to the field.    *)

\* u8 .. u128, and the ring of a suffix of len bits
Rings == {ByteLen, HalfLen, WordLen, XLEN, 2 * XLEN}
RingT(len) ==
    CHOOSE k \in Rings \ {ByteLen} : len <= k /\ \A i \in Rings \ {ByteLen} : len <= i => k <= i
HalfRing(len) == RingT(len) \div 2

\* table_uses_interleaved_data: the suffixes that read the index as one number
InterleavedSuffixes ==
    {"UpperWord", "LowerWord", "LowerHalfWord", "Pow2", "Pow2W", "SignExtensionUpperHalf",
     "OverflowBitsZero", "Rev8W"}
table_uses_interleaved_data(ss) == \E k \in DOMAIN ss : ss[k] \in InterleavedSuffixes
\* the suffixes that call right.as_public(), and right.as_shared()
RightAsPublic ==
    {"SignExtension", "RightShift", "RightShiftHelper", "LeftShift", "RightShiftW",
     "RightShiftWHelper", "LeftShiftW"}
RightAsShared == {"DivByZero", "TwoLsb", "ChangeDivisor", "ChangeDivisorW", "XorRot", "XorRotW"}

\* shifts in a ring of k bits drop what leaves it; past its width nothing is left
ShiftLeftIn(v, n, k) == IF n >= k THEN 0 ELSE Low(v * 2 ^ n, k)
ShiftRightIn(v, n, k) == IF n >= k THEN 0 ELSE ShiftRight(v, n)
RotateIn(v, rot, k) == ShiftRightIn(v, rot % k, k) ^^ ShiftLeftIn(v, k - (rot % k), k)
\* u128::trailing_zeros
PublicTrailingZeros(y) == IF y = 0 THEN 2 * XLEN ELSE TrailingZeros(y)
PublicLeadingOnes(y, len) == leading_ones(LookupBits(y, len))

compute_sign_extension_from_mask(y, len) ==
    LET padding == IF y = 0 THEN len \div 2 ELSE TrailingZeros(y)
    IN IF padding = 0 THEN 0 ELSE Base - 2 ^ (XLEN - padding)

\* eval_suffix_uninterleaved, on the operands x and y of a suffix of len bits
eval_suffix_uninterleaved(s, x, y, len, rot) ==
    LET k == HalfRing(len)
        ones == 2 ^ (len \div 2) - 1
        x32 == Low(x, WordLen)
        y32 == Low(y, WordLen)
        y_len == IF len \div 2 < WordLen THEN len \div 2 ELSE WordLen
    IN CASE s = "One" -> 1
         [] s = "And" -> x & y
         [] s = "NotAnd" -> x & (2 ^ k - 1 - y)
         [] s = "Xor" -> x ^^ y
         [] s = "Or" -> x | y
         [] s = "RightOperand" -> y
         [] s = "RightOperandW" -> IF k >= WordLen THEN y32 ELSE y
         [] s = "Lsb" -> y % 2
         [] s = "LessThan" -> 1 - BoolBit(x >= y)
         [] s = "GreaterThan" -> 1 - BoolBit(y >= x)
         [] s = "Eq" -> BoolBit(x ^^ y = 0)
         [] s = "LeftOperandIsZero" -> BoolBit(x = 0)
         [] s = "RightOperandIsZero" -> BoolBit(y = 0)
         [] s \in {"DivByZero", "ChangeDivisor"} -> BoolBit(x = 0 /\ y ^^ ones = 0)
         [] s = "ChangeDivisorW" -> BoolBit(x32 = 0 /\ y32 ^^ (2 ^ y_len - 1) = 0)
         [] s = "TwoLsb" -> 1 - ((x % 2) | (y % 2))
         [] s = "SignExtension" -> compute_sign_extension_from_mask(y, len)
         [] s = "SignExtensionRightOperand" ->
                IF len < XLEN THEN 1 ELSE Bit(y, WordLen - 1) * (Base - 2 ^ WordLen)
         [] s = "XorRot" -> RotateIn(x ^^ y, rot, k)
         [] s = "XorRotW" -> RotateIn(x32 ^^ y32, rot, WordLen)
         [] s = "RightShift" -> ShiftRightIn(x, PublicTrailingZeros(y), k)
         [] s = "RightShiftHelper" -> 2 ^ PublicLeadingOnes(y, len \div 2)
         [] s = "LeftShift" -> ShiftLeftIn(x & (2 ^ k - 1 - y), PublicLeadingOnes(y, len \div 2), k)
         [] s = "RightShiftW" -> ShiftRightIn(x32, PublicTrailingZeros(y), WordLen)
         [] s = "RightShiftWHelper" -> 2 ^ PublicLeadingOnes(Low(y, y_len), y_len)
         [] s = "LeftShiftW" ->
                ShiftLeftIn(x32 & (2 ^ WordLen - 1 - y32), PublicLeadingOnes(y32, WordLen), WordLen)

\* eval_suffix_interleaved, on the bits v of a suffix of len bits
eval_suffix_interleaved(s, v, len) ==
    LET k == RingT(len)
    IN CASE s = "One" -> 1
         [] s = "UpperWord" -> IF k <= XLEN THEN 0 ELSE ShiftRight(v, XLEN)
         [] s = "LowerWord" -> IF XLEN >= k THEN v ELSE Low(v, XLEN)
         [] s = "LowerHalfWord" -> IF WordLen >= k THEN v ELSE Low(v, WordLen)
         [] s = "Rev8W" -> SwapBytes(Low(v, WordLen), WordLen)
         [] s = "Pow2" -> 2 ^ Low(v, IF LogXlen < len THEN LogXlen ELSE len)
         [] s = "Pow2W" -> 2 ^ Low(v, IF LogWord < len THEN LogWord ELSE len)
         [] s = "SignExtensionUpperHalf" ->
                IF len < WordLen THEN 1
                ELSE Bit(v, WordLen - 1) * (2 ^ WordLen - 1) * 2 ^ WordLen
         [] s = "OverflowBitsZero" -> IF k <= XLEN THEN 1 ELSE BoolBit(ShiftRight(v, XLEN) = 0)

\* How a value in shares goes to the field: it is one already, or a bit is
\* injected with a daBit, or a ring element is converted with an edaBit of the
\* ring, which is named by its number of bits.
Ready == -1
BitInject == 0
Fitting(bits, len) == IF bits <= HalfRing(len) THEN HalfRing(len) ELSE RingT(len)
WordRing(len) == IF HalfRing(len) >= WordLen THEN HalfRing(len) ELSE WordLen
MinOf(a, b) == IF a < b THEN a ELSE b
suffix_conversion(s, len, right_public) ==
    CASE s \in {"And", "NotAnd", "Xor", "Or", "XorRot", "RightShift", "LeftShift", "RightShiftW",
                "LeftShiftW"} -> HalfRing(len)
      [] s \in {"RightOperand", "RightOperandW"} -> IF right_public THEN Ready ELSE HalfRing(len)
      [] s \in {"XorRotW", "Rev8W"} -> WordRing(len)
      [] s \in {"Lsb", "RightOperandIsZero"} -> IF right_public THEN Ready ELSE BitInject
      [] s \in {"LessThan", "GreaterThan", "Eq", "LeftOperandIsZero", "DivByZero", "TwoLsb",
                "ChangeDivisor", "ChangeDivisorW"} -> BitInject
      [] s = "SignExtensionRightOperand" ->
             IF len >= XLEN /\ ~ right_public THEN BitInject ELSE Ready
      [] s = "UpperWord" -> IF RingT(len) <= XLEN THEN Ready ELSE Fitting(RingT(len) - XLEN, len)
      [] s = "LowerWord" -> Fitting(MinOf(XLEN, RingT(len)), len)
      [] s = "LowerHalfWord" -> Fitting(MinOf(WordLen, RingT(len)), len)
      [] s = "SignExtensionUpperHalf" -> IF len < WordLen THEN Ready ELSE BitInject
      [] s = "OverflowBitsZero" -> IF RingT(len) <= XLEN THEN Ready ELSE BitInject
      [] OTHER -> Ready

\* suffix_edabit_ring_bits and suffix_is_bitinject: what the budget takes the
\* same conversions to be, from the ring alone
suffix_edabit_ring_bits(s, t_k, t_half_k) ==
    LET fitting(bits) == IF bits <= t_half_k THEN t_half_k ELSE t_k
    IN CASE s \in {"And", "NotAnd", "Xor", "Or", "RightOperand", "XorRot", "RightShift",
                   "LeftShift", "RightShiftW", "LeftShiftW"} -> t_half_k
         [] s \in {"RightOperandW", "XorRotW", "Rev8W"} ->
                IF t_half_k >= WordLen THEN t_half_k ELSE WordLen
         [] s = "UpperWord" -> IF t_k <= XLEN THEN Ready ELSE fitting(t_k - XLEN)
         [] s = "LowerWord" -> fitting(MinOf(XLEN, t_k))
         [] s = "LowerHalfWord" -> fitting(MinOf(WordLen, t_k))
         [] OTHER -> Ready
BitInjectSuffixes ==
    {"Lsb", "TwoLsb", "LessThan", "GreaterThan", "Eq", "LeftOperandIsZero", "RightOperandIsZero",
     "DivByZero", "ChangeDivisor", "ChangeDivisorW"}
\* Fault: a comparison with zero is taken to need no daBit.
suffix_is_bitinjectNoZero(s, t_k, len) ==
    \/ s \in BitInjectSuffixes \ {"LeftOperandIsZero"}
    \/ s = "SignExtensionUpperHalf" /\ len >= WordLen
    \/ s = "OverflowBitsZero" /\ t_k > XLEN
suffix_is_bitinject(s, t_k, len) ==
    \/ s \in BitInjectSuffixes
    \/ s = "SignExtensionUpperHalf" /\ len >= WordLen
    \/ s = "OverflowBitsZero" /\ t_k > XLEN
=============================================================================
