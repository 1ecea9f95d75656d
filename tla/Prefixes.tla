------------------------------ MODULE Prefixes ------------------------------
(***************************************************************************)
(* The prefixes of jolt-core's lookup tables.  In round j of the sumcheck  *)
(* over the 2 * XLEN bits of a lookup index, the rounds before j have bound*)
(* high-order bits to challenges, the current bit is the evaluation point  *)
(* c, and the rest of the current phase is the bit vector b.  A prefix is  *)
(* evaluated from a checkpoint that stands for all bound pairs of bits     *)
(* (x from the left operand, y from the right one), and the checkpoint is  *)
(* updated every two rounds.  The left bit of a pair is round j even; in   *)
(* the odd round it is the last challenge r_x.                             *)
(***************************************************************************)
EXTENDS Suffixes, Field

CONSTANT LOG_M
LOG_K == 2 * XLEN
ASSUME PhaseAssumption == LOG_M \in Nat /\ LOG_M > 0 /\ LOG_M % 2 = 0 /\ LOG_K % LOG_M = 0

current_suffix_len(j) == LOG_K - (j \div LOG_M + 1) * LOG_M

None == -1
unwrap_or(v, d) == IF v = None THEN d ELSE v

\* the current pair of bits, and what is left of b below it
Top(rx, c, b) ==
    IF rx # None THEN [x |-> rx, y |-> c, b |-> b]
    ELSE [x |-> c, y |-> Msb(b), b |-> pop_msb(b)]
PairPow(j) == Fp(2 ^ (XLEN - 1 - j \div 2))
Pow(k) == Fp(2 ^ k)
Half(j) == 2 ^ (current_suffix_len(j) \div 2)

\* bitwise prefixes: sum of f(x, y) over the pairs, each at its place
Bitwise2(cp, rx, c, b, j, f(_, _), rest(_, _)) ==
    LET t == Top(rx, c, b)
    IN cp \oplus PairPow(j) \otimes f(t.x, t.y) \oplus Fp(rest(X(t.b), Y(t.b)) * Half(j))
AndBit(x, y) == x \otimes y
AndnBit(x, y) == x \otimes (1 \ominus y)
OrBit(x, y) == (x \oplus y) \ominus x \otimes y
AndPrefix(cp, rx, c, b, j) ==
    Bitwise2(unwrap_or(cp["And"], 0), rx, c, b, j, AndBit, LAMBDA x, y : x & y)
AndUpdate(cp, rx, ry, j) == unwrap_or(cp["And"], 0) \oplus PairPow(j) \otimes AndBit(rx, ry)
AndnPrefix(cp, rx, c, b, j) ==
    Bitwise2(unwrap_or(cp["Andn"], 0), rx, c, b, j, AndnBit, LAMBDA x, y : x & Complement(y))
AndnUpdate(cp, rx, ry, j) == unwrap_or(cp["Andn"], 0) \oplus PairPow(j) \otimes AndnBit(rx, ry)
OrPrefix(cp, rx, c, b, j) ==
    Bitwise2(unwrap_or(cp["Or"], 0), rx, c, b, j, OrBit, LAMBDA x, y : x | y)
OrUpdate(cp, rx, ry, j) == unwrap_or(cp["Or"], 0) \oplus PairPow(j) \otimes OrBit(rx, ry)
XorPrefix(cp, rx, c, b, j) ==
    Bitwise2(unwrap_or(cp["Xor"], 0), rx, c, b, j, XorBit, LAMBDA x, y : x ^^ y)
XorUpdate(cp, rx, ry, j) == unwrap_or(cp["Xor"], 0) \oplus PairPow(j) \otimes XorBit(rx, ry)

\* a rotation by rot of n bits moves the pair at position pos of the operand
RotatedPow(pos, rot, n) == Pow(n - 1 - ((pos + rot) % n))
XorRotPrefix(cp, rx, c, b, j, rot) ==
    LET t == Top(rx, c, b)
        shift == (current_suffix_len(j) \div 2 - rot) % XLEN
    IN unwrap_or(cp["XorRot"], 0)
       \oplus RotatedPow(j \div 2, rot, XLEN) \otimes XorBit(t.x, t.y)
       \oplus Fp(Rotl(X(t.b) ^^ Y(t.b), shift, XLEN))
XorRotUpdate(cp, rx, ry, j, rot) ==
    unwrap_or(cp["XorRot"], 0) \oplus RotatedPow(j \div 2, rot, XLEN) \otimes XorBit(rx, ry)
XorRotWPrefix(cp, rx, c, b, j, rot) ==
    IF j < XLEN THEN 0
    ELSE LET t == Top(rx, c, b)
             shift == (current_suffix_len(j) \div 2 - rot) % WordLen
         IN unwrap_or(cp["XorRotW"], 0)
            \oplus RotatedPow((j - XLEN) \div 2, rot, WordLen) \otimes XorBit(t.x, t.y)
            \oplus Fp(Rotl(Low(X(t.b) ^^ Y(t.b), WordLen), shift, WordLen))
XorRotWUpdate(cp, rx, ry, j, rot) ==
    IF j < XLEN THEN 0
    ELSE unwrap_or(cp["XorRotW"], 0)
         \oplus RotatedPow((j - XLEN) \div 2, rot, WordLen) \otimes XorBit(rx, ry)

\* the word prefixes read the index as one number
PairValue(x, y, odd_shift) == Pow(odd_shift + 1) \otimes x \oplus Pow(odd_shift) \otimes y
\* the place of the pair's y bit: j is its round when odd, the round before when even
YPlace(j, n) == n - 2 * (j \div 2) - 2
NumberPrefix(cp, rx, c, b, j) ==
    LET t == Top(rx, c, b)
    IN cp \oplus PairValue(t.x, t.y, YPlace(j, LOG_K)) \oplus Fp(t.b.bits * 2 ^ current_suffix_len(j))
LowerWordPrefix(cp, rx, c, b, j) ==
    IF j < XLEN THEN 0 ELSE NumberPrefix(unwrap_or(cp["LowerWord"], 0), rx, c, b, j)
LowerWordUpdate(cp, rx, ry, j) ==
    IF j < XLEN THEN None
    ELSE unwrap_or(cp["LowerWord"], 0) \oplus PairValue(rx, ry, YPlace(j, LOG_K))
LowerHalfWordPrefix(cp, rx, c, b, j) ==
    IF j < XLEN + WordLen THEN 0 ELSE NumberPrefix(unwrap_or(cp["LowerHalfWord"], 0), rx, c, b, j)
LowerHalfWordUpdate(cp, rx, ry, j) ==
    IF j < XLEN + WordLen THEN None
    ELSE unwrap_or(cp["LowerHalfWord"], 0) \oplus PairValue(rx, ry, YPlace(j, LOG_K))
UpperWordPrefix(cp, rx, c, b, j) ==
    LET t == Top(rx, c, b)
        len == current_suffix_len(j)
        rest == IF len > XLEN THEN t.b.bits * 2 ^ (len - XLEN)
                ELSE split(t.b, XLEN - len).prefix.bits
    IN IF j >= XLEN THEN unwrap_or(cp["UpperWord"], 0)
       ELSE unwrap_or(cp["UpperWord"], 0) \oplus PairValue(t.x, t.y, YPlace(j, XLEN)) \oplus Fp(rest)
UpperWordUpdate(cp, rx, ry, j) ==
    IF j >= XLEN THEN cp["UpperWord"]
    ELSE unwrap_or(cp["UpperWord"], 0) \oplus PairValue(rx, ry, YPlace(j, XLEN))

\* comparisons
EqPrefix(cp, rx, c, b, j) ==
    LET t == Top(rx, c, b)
    IN IF X(t.b) # Y(t.b) THEN 0 ELSE unwrap_or(cp["Eq"], 1) \otimes EqBit(t.x, t.y)
EqUpdate(cp, rx, ry, j) == unwrap_or(cp["Eq"], 1) \otimes EqBit(rx, ry)
LessThanPrefix(cp, rx, c, b, j) ==
    LET t == Top(rx, c, b)
        eq == unwrap_or(cp["Eq"], 1)
        lt == unwrap_or(cp["LessThan"], 0) \oplus eq \otimes LtBit(t.x, t.y)
    IN IF X(t.b) < Y(t.b) THEN lt \oplus eq \otimes EqBit(t.x, t.y) ELSE lt
LessThanUpdate(cp, rx, ry, j) ==
    unwrap_or(cp["LessThan"], 0) \oplus unwrap_or(cp["Eq"], 1) \otimes LtBit(rx, ry)
LeftOperandIsZeroPrefix(cp, rx, c, b, j) ==
    IF X(b) # 0 THEN 0
    ELSE unwrap_or(cp["LeftOperandIsZero"], 1) \otimes (1 \ominus (IF rx # None THEN rx ELSE c))
LeftOperandIsZeroUpdate(cp, rx, ry, j) == unwrap_or(cp["LeftOperandIsZero"], 1) \otimes (1 \ominus rx)
RightOperandIsZeroPrefix(cp, rx, c, b, j) ==
    IF Y(b) # 0 THEN 0
    ELSE unwrap_or(cp["RightOperandIsZero"], 1) \otimes (1 \ominus Top(rx, c, b).y)
RightOperandIsZeroUpdate(cp, rx, ry, j) == unwrap_or(cp["RightOperandIsZero"], 1) \otimes (1 \ominus ry)
LeftOperandMsbPrefix(cp, rx, c, b, j) == IF j = 0 THEN c ELSE IF j = 1 THEN rx ELSE cp["LeftOperandMsb"]
LeftOperandMsbUpdate(cp, rx, ry, j) == IF j = 1 THEN rx ELSE cp["LeftOperandMsb"]
RightOperandMsbPrefix(cp, rx, c, b, j) ==
    IF j = 0 THEN Msb(b) ELSE IF j = 1 THEN c ELSE cp["RightOperandMsb"]
RightOperandMsbUpdate(cp, rx, ry, j) == IF j = 1 THEN ry ELSE cp["RightOperandMsb"]
DivByZeroPrefix(cp, rx, c, b, j) ==
    LET t == Top(rx, c, b)
    IN IF X(b) # 0 \/ ~AllOnes(uninterleave(b).y) THEN 0
       ELSE unwrap_or(cp["DivByZero"], 1) \otimes LtBit(t.x, t.y)
DivByZeroUpdate(cp, rx, ry, j) == unwrap_or(cp["DivByZero"], 1) \otimes LtBit(rx, ry)

\* signed remainders: the first pair is the signs, and from then on the
\* magnitudes are compared; sign(x, y) and step(x, y) differ per prefix
SignedEq(cp, rx, c, b, j, sign(_, _)) ==
    LET t == Top(rx, c, b)
    IN IF X(t.b) # Y(t.b) THEN 0
       ELSE IF j <= 1 THEN sign(t.x, t.y) ELSE cp \otimes EqBit(t.x, t.y)
SignedCompare(cp, eq, rx, c, b, j, sign(_, _), cmp(_, _), holds(_, _)) ==
    LET t == Top(rx, c, b)
        rest == holds(X(t.b), Y(t.b))
        below == IF rest THEN eq \otimes EqBit(t.x, t.y) ELSE 0
    IN CASE j <= 1 -> IF rest THEN sign(t.x, t.y) ELSE 0
         [] j \in {2, 3} -> cp \otimes cmp(t.x, t.y) \oplus below
         [] OTHER -> cp \oplus eq \otimes cmp(t.x, t.y) \oplus below
BothPositive(x, y) == (1 \ominus x) \otimes (1 \ominus y)
GtBit(x, y) == x \otimes (1 \ominus y)
PositiveRemainderEqualsDivisorPrefix(cp, rx, c, b, j) ==
    SignedEq(cp["PositiveRemainderEqualsDivisor"], rx, c, b, j, BothPositive)
PositiveRemainderEqualsDivisorUpdate(cp, rx, ry, j) ==
    IF j = 1 THEN BothPositive(rx, ry)
    ELSE cp["PositiveRemainderEqualsDivisor"] \otimes EqBit(rx, ry)
PositiveRemainderLessThanDivisorPrefix(cp, rx, c, b, j) ==
    SignedCompare(cp["PositiveRemainderLessThanDivisor"], cp["PositiveRemainderEqualsDivisor"],
                  rx, c, b, j, BothPositive, LtBit, LAMBDA x, y : x < y)
PositiveRemainderLessThanDivisorUpdate(cp, rx, ry, j) ==
    LET lt == cp["PositiveRemainderLessThanDivisor"]
        eq == cp["PositiveRemainderEqualsDivisor"]
    IN CASE j = 1 -> BothPositive(rx, ry)
         [] j = 3 -> lt \otimes LtBit(rx, ry)
         [] OTHER -> lt \oplus eq \otimes LtBit(rx, ry)
NegativeDivisorEqualsRemainderPrefix(cp, rx, c, b, j) ==
    SignedEq(cp["NegativeDivisorEqualsRemainder"], rx, c, b, j, AndBit)
NegativeDivisorEqualsRemainderUpdate(cp, rx, ry, j) ==
    IF j = 1 THEN AndBit(rx, ry) ELSE cp["NegativeDivisorEqualsRemainder"] \otimes EqBit(rx, ry)
NegativeDivisorGreaterThanRemainderPrefix(cp, rx, c, b, j) ==
    SignedCompare(cp["NegativeDivisorGreaterThanRemainder"], cp["NegativeDivisorEqualsRemainder"],
                  rx, c, b, j, AndBit, GtBit, LAMBDA x, y : x > y)
NegativeDivisorGreaterThanRemainderUpdate(cp, rx, ry, j) ==
    LET gt == cp["NegativeDivisorGreaterThanRemainder"]
        eq == cp["NegativeDivisorEqualsRemainder"]
    IN CASE j = 1 -> AndBit(rx, ry)
         [] j = 3 -> gt \otimes GtBit(rx, ry)
         [] OTHER -> gt \oplus eq \otimes GtBit(rx, ry)
NegativeDivisorZeroRemainderPrefix(cp, rx, c, b, j) ==
    LET t == Top(rx, c, b)
    IN IF X(t.b) # 0 THEN 0
       ELSE IF j <= 1 THEN LtBit(t.x, t.y)
       ELSE cp["NegativeDivisorZeroRemainder"] \otimes (1 \ominus t.x)
NegativeDivisorZeroRemainderUpdate(cp, rx, ry, j) ==
    IF j = 1 THEN LtBit(rx, ry) ELSE cp["NegativeDivisorZeroRemainder"] \otimes (1 \ominus rx)

\* the divisor of IntMin / -1 becomes 1: an adjustment of 2 - 2^XLEN
Adjustment == 2 \ominus Pow(XLEN)
MinusOneBelow(b) == X(b) = 0 /\ AllOnes(uninterleave(b).y)
ChangeDivisorPrefix(cp, rx, c, b, j) ==
    LET result == unwrap_or(cp["ChangeDivisor"], Adjustment)
    IN CASE j = 0 -> IF Msb(b) = 1 /\ MinusOneBelow(pop_msb(b)) THEN result \otimes c ELSE 0
         [] j > 0 /\ rx # None -> IF MinusOneBelow(b) /\ c # 0 THEN result \otimes LtBit(rx, c) ELSE 0
         [] OTHER -> IF MinusOneBelow(b) THEN result \otimes (1 \ominus c) ELSE 0
ChangeDivisorUpdate(cp, rx, ry, j) ==
    unwrap_or(cp["ChangeDivisor"], Adjustment)
    \otimes (IF j = 1 THEN rx \otimes ry ELSE LtBit(rx, ry))
ChangeDivisorWPrefix(cp, rx, c, b, j) ==
    LET result == unwrap_or(cp["ChangeDivisorW"], Adjustment)
    IN CASE j < XLEN -> result
         [] j = XLEN -> IF Msb(b) = 1 /\ MinusOneBelow(pop_msb(b)) THEN result \otimes c ELSE 0
         [] j > XLEN /\ rx # None -> IF MinusOneBelow(b) /\ c # 0 THEN result \otimes LtBit(rx, c) ELSE 0
         [] OTHER -> IF MinusOneBelow(b) THEN result \otimes (1 \ominus c) ELSE 0
ChangeDivisorWUpdate(cp, rx, ry, j) ==
    unwrap_or(cp["ChangeDivisorW"], Adjustment)
    \otimes (CASE j = XLEN + 1 -> rx \otimes ry
               [] j > XLEN + 1 -> LtBit(rx, ry)
               [] OTHER -> 1)
RightOperandPrefix(cp, rx, c, b, j) ==
    unwrap_or(cp["RightOperand"], 0)
    \oplus (IF j % 2 = 1 THEN PairPow(j) \otimes c ELSE 0) \oplus Fp(Y(b) * Half(j))
RightOperandUpdate(cp, rx, ry, j) == unwrap_or(cp["RightOperand"], 0) \oplus PairPow(j) \otimes ry
RightOperandWPrefix(cp, rx, c, b, j) ==
    unwrap_or(cp["RightOperandW"], 0)
    \oplus (IF j % 2 = 1 /\ j > XLEN THEN PairPow(j) \otimes c ELSE 0)
    \oplus (IF current_suffix_len(j) < XLEN THEN Fp(Y(b) * Half(j)) ELSE 0)
RightOperandWUpdate(cp, rx, ry, j) ==
    IF j > XLEN THEN unwrap_or(cp["RightOperandW"], 0) \oplus PairPow(j) \otimes ry
    ELSE cp["RightOperandW"]
SignExtensionRightOperandPrefix(cp, rx, c, b, j) ==
    LET upper == Fp(Base - 2 ^ WordLen)
    IN CASE current_suffix_len(j) >= XLEN -> 1
         [] j = XLEN -> upper \otimes Msb(b)
         [] j = XLEN + 1 -> upper \otimes c
         [] j >= XLEN + 2 -> unwrap_or(cp["SignExtensionRightOperand"], 0)
SignExtensionRightOperandUpdate(cp, rx, ry, j) ==
    IF j = XLEN + 1 THEN Fp(Base - 2 ^ WordLen) \otimes ry ELSE cp["SignExtensionRightOperand"]
SignExtensionUpperHalfPrefix(cp, rx, c, b, j) ==
    LET upper == Fp((2 ^ WordLen - 1) * 2 ^ WordLen)
    IN CASE current_suffix_len(j) >= WordLen -> 1
         [] j = XLEN + WordLen -> upper \otimes c
         [] j = XLEN + WordLen + 1 -> upper \otimes rx
         [] j > XLEN + WordLen + 1 -> unwrap_or(cp["SignExtensionUpperHalf"], 0)
SignExtensionUpperHalfUpdate(cp, rx, ry, j) ==
    IF j = XLEN + WordLen + 1 THEN Fp((2 ^ WordLen - 1) * 2 ^ WordLen) \otimes rx
    ELSE cp["SignExtensionUpperHalf"]

\* low-order bits
LsbPrefix(cp, rx, c, b, j) ==
    CASE j = LOG_K - 1 -> c
      [] j # LOG_K - 1 /\ current_suffix_len(j) = 0 -> b.bits % 2
      [] OTHER -> 1
LsbUpdate(cp, rx, ry, j) == IF j = LOG_K - 1 THEN ry ELSE 1
TwoLsbPrefix(cp, rx, c, b, j) ==
    CASE j = LOG_K - 1 -> BothPositive(rx, c)
      [] j = LOG_K - 2 -> BothPositive(c, b.bits % 2)
      [] j < LOG_K - 2 /\ current_suffix_len(j) = 0 -> BoolBit(b.bits % 4 = 0)
      [] OTHER -> 1
TwoLsbUpdate(cp, rx, ry, j) == IF j = LOG_K - 1 THEN BothPositive(rx, ry) ELSE cp["TwoLsb"]
OverflowBitsZeroPrefix(cp, rx, c, b, j) ==
    LET t == Top(rx, c, b)
        cp0 == unwrap_or(cp["OverflowBitsZero"], 1)
    IN CASE j >= XLEN -> cp0
         [] OTHER -> IF ShiftRight(t.b.bits * 2 ^ current_suffix_len(j), XLEN) = 0
                     THEN cp0 \otimes BothPositive(t.x, t.y) ELSE 0
OverflowBitsZeroUpdate(cp, rx, ry, j) ==
    IF j >= XLEN THEN cp["OverflowBitsZero"]
    ELSE unwrap_or(cp["OverflowBitsZero"], 1) \otimes BothPositive(rx, ry)

\* 2^(index % n): a factor 1 + (2^(2^i) - 1) * bit for each low-order bit i
PowBit(i, v) == 1 \oplus Fp(2 ^ (2 ^ i) - 1) \otimes v
Pow2Rounds(cp, rx, c, b, j, log) ==
    CASE current_suffix_len(j) # 0 -> 1
      [] current_suffix_len(j) = 0 /\ b.len >= log -> Fp(2 ^ (b.bits % 2 ^ log))
      [] OTHER ->
            LET low == Fp(2 ^ (b.bits % 2 ^ log)) \otimes PowBit(b.len, c)
            IN IF b.len = log - 1 THEN low
               ELSE low \otimes (IF rx # None THEN PowBit(b.len + 1, rx) ELSE 1)
                        \otimes unwrap_or(cp, 1)
Pow2Bound(cp, rx, ry, j, log) ==
    CASE current_suffix_len(j) # 0 -> 1
      [] current_suffix_len(j) = 0 /\ j = LOG_K - log -> PowBit(log - 1, ry)
      [] current_suffix_len(j) = 0 /\ LOG_K - j < log ->
            cp \otimes PowBit(LOG_K - j, rx) \otimes PowBit(LOG_K - j - 1, ry)
      [] OTHER -> 1
Pow2Prefix(cp, rx, c, b, j) == Pow2Rounds(cp["Pow2"], rx, c, b, j, LogXlen)
Pow2Update(cp, rx, ry, j) == Pow2Bound(cp["Pow2"], rx, ry, j, LogXlen)
Pow2WPrefix(cp, rx, c, b, j) == Pow2Rounds(cp["Pow2W"], rx, c, b, j, LogWord)
Pow2WUpdate(cp, rx, ry, j) == Pow2Bound(cp["Pow2W"], rx, ry, j, LogWord)

rev8w(v) == Rev8WSuffix([bits |-> v, len |-> XLEN])
RevBit(place, v) == IF place < XLEN THEN Fp(rev8w(2 ^ place)) \otimes v ELSE 0
Rev8WPrefix(cp, rx, c, b, j) ==
    LET len == current_suffix_len(j)
    IN IF len >= XLEN THEN 0
       ELSE unwrap_or(cp["Rev8W"], 0) \oplus RevBit(len + b.len, c)
            \oplus (IF rx # None THEN RevBit(len + b.len + 1, rx) ELSE 0)
            \oplus Fp(rev8w(b.bits * 2 ^ len))
Rev8WUpdate(cp, rx, ry, j) ==
    unwrap_or(cp["Rev8W"], 0) \oplus RevBit(LOG_K - 1 - j, ry) \oplus RevBit(LOG_K - j, rx)

\* shifts by a bitmask y = 1..10..0: the bits of x under ones move right, the
\* others are what a rotation brings in at the top
ShiftedRight(cp, rx, c, b) ==
    LET t == Top(rx, c, b)
        y == uninterleave(t.b).y
    IN (cp \otimes (1 + t.y) \oplus t.x \otimes t.y) \otimes Pow(leading_ones(y))
       \oplus Fp(ShiftRight(X(t.b), trailing_zeros(y)))
ShiftedRightBound(cp, rx, ry) == cp \otimes (1 \oplus ry) \oplus rx \otimes ry
RightShiftPrefix(cp, rx, c, b, j) == ShiftedRight(unwrap_or(cp["RightShift"], 0), rx, c, b)
RightShiftUpdate(cp, rx, ry, j) == ShiftedRightBound(unwrap_or(cp["RightShift"], 0), rx, ry)
RightShiftWPrefix(cp, rx, c, b, j) ==
    IF j < XLEN THEN 0 ELSE ShiftedRight(unwrap_or(cp["RightShiftW"], 0), rx, c, b)
RightShiftWUpdate(cp, rx, ry, j) ==
    IF j >= XLEN THEN ShiftedRightBound(unwrap_or(cp["RightShiftW"], 0), rx, ry) ELSE 0
OnesAbove(cp, rx, c, b) ==
    LET t == Top(rx, c, b) IN cp \otimes (1 + t.y) \otimes Pow(leading_ones(uninterleave(t.b).y))
LeftShiftHelperPrefix(cp, rx, c, b, j) == OnesAbove(unwrap_or(cp["LeftShiftHelper"], 1), rx, c, b)
LeftShiftHelperUpdate(cp, rx, ry, j) == unwrap_or(cp["LeftShiftHelper"], 1) \otimes (1 \oplus ry)
LeftShiftWHelperPrefix(cp, rx, c, b, j) ==
    IF j < XLEN THEN 1 ELSE OnesAbove(unwrap_or(cp["LeftShiftWHelper"], 1), rx, c, b)
LeftShiftWHelperUpdate(cp, rx, ry, j) ==
    IF j >= XLEN THEN unwrap_or(cp["LeftShiftWHelper"], 1) \otimes (1 \oplus ry) ELSE 1
ShiftedLeft(cp, helper, rx, c, b, j) ==
    LET t == Top(rx, c, b)
        u == uninterleave(t.b)
        kept == u.x.bits & Complement(u.y.bits)
        shift == (leading_ones(u.y) + XLEN - 1 - j \div 2) - u.y.len
    IN cp \oplus GtBit(t.x, t.y) \otimes helper \otimes PairPow(j)
          \oplus Fp(Wrap(kept * 2 ^ shift)) \otimes (helper \otimes (1 + t.y))
ShiftedLeftBound(cp, helper, rx, ry, j) == cp \oplus GtBit(rx, ry) \otimes helper \otimes PairPow(j)
LeftShiftPrefix(cp, rx, c, b, j) ==
    ShiftedLeft(unwrap_or(cp["LeftShift"], 0), unwrap_or(cp["LeftShiftHelper"], 1), rx, c, b, j)
LeftShiftUpdate(cp, rx, ry, j) ==
    ShiftedLeftBound(unwrap_or(cp["LeftShift"], 0), unwrap_or(cp["LeftShiftHelper"], 1), rx, ry, j)
LeftShiftWPrefix(cp, rx, c, b, j) ==
    IF j < XLEN THEN 0
    ELSE ShiftedLeft(unwrap_or(cp["LeftShiftW"], 0), unwrap_or(cp["LeftShiftWHelper"], 1), rx, c, b, j)
LeftShiftWUpdate(cp, rx, ry, j) ==
    IF j < XLEN THEN 0
    ELSE ShiftedLeftBound(unwrap_or(cp["LeftShiftW"], 0), unwrap_or(cp["LeftShiftWHelper"], 1), rx, ry, j)

\* the sign bits brought in by an arithmetic shift: 2^k for each zero of y at
\* distance k from the top
ZerosBelow(y, first) ==
    LET z[k \in 0 .. y.len] ==
            IF k = 0 THEN 0 ELSE z[k - 1] + (1 - Bit(y.bits, y.len - k)) * 2 ^ (first + k - 1)
    IN Fp(z[y.len])
SignExtensionPrefix(cp, rx, c, b, j) ==
    LET t == Top(rx, c, b)
        below == ZerosBelow(uninterleave(t.b).y, j \div 2 + 1)
    IN IF j <= 1 THEN below \otimes t.x
       ELSE (unwrap_or(cp["SignExtension"], 0) \oplus Pow(j \div 2) \otimes (1 \ominus t.y) \oplus below)
            \otimes cp["LeftOperandMsb"]
SignExtensionUpdate(cp, rx, ry, j) ==
    LET updated == unwrap_or(cp["SignExtension"], 0) \oplus Pow(j \div 2) \otimes (1 \ominus ry)
    IN CASE j = 1 -> None
         [] j = LOG_K - 1 -> updated \otimes cp["LeftOperandMsb"]
         [] OTHER -> updated

\* Prefixes::prefix_mle and update_prefix_checkpoint; rot is the ROTATION of
\* the xor-rotate prefixes
PrefixNames ==
    {"LowerWord", "LowerHalfWord", "UpperWord", "And", "Andn", "Or", "Xor", "XorRot", "XorRotW",
     "Eq", "LessThan", "LeftOperandIsZero", "RightOperandIsZero", "LeftOperandMsb",
     "RightOperandMsb", "DivByZero", "PositiveRemainderEqualsDivisor",
     "PositiveRemainderLessThanDivisor", "NegativeDivisorZeroRemainder",
     "NegativeDivisorEqualsRemainder", "NegativeDivisorGreaterThanRemainder", "Lsb", "Pow2",
     "Pow2W", "Rev8W", "RightShift", "SignExtension", "LeftShift", "LeftShiftHelper", "TwoLsb",
     "SignExtensionUpperHalf", "ChangeDivisor", "RightOperand", "ChangeDivisorW",
     "RightOperandW", "SignExtensionRightOperand", "RightShiftW", "LeftShiftWHelper",
     "LeftShiftW", "OverflowBitsZero"}
prefix_mle(p, cp, rx, c, b, j, rot) ==
    CASE p = "LowerWord" -> LowerWordPrefix(cp, rx, c, b, j)
      [] p = "LowerHalfWord" -> LowerHalfWordPrefix(cp, rx, c, b, j)
      [] p = "UpperWord" -> UpperWordPrefix(cp, rx, c, b, j)
      [] p = "And" -> AndPrefix(cp, rx, c, b, j)
      [] p = "Andn" -> AndnPrefix(cp, rx, c, b, j)
      [] p = "Or" -> OrPrefix(cp, rx, c, b, j)
      [] p = "Xor" -> XorPrefix(cp, rx, c, b, j)
      [] p = "XorRot" -> XorRotPrefix(cp, rx, c, b, j, rot)
      [] p = "XorRotW" -> XorRotWPrefix(cp, rx, c, b, j, rot)
      [] p = "Eq" -> EqPrefix(cp, rx, c, b, j)
      [] p = "LessThan" -> LessThanPrefix(cp, rx, c, b, j)
      [] p = "LeftOperandIsZero" -> LeftOperandIsZeroPrefix(cp, rx, c, b, j)
      [] p = "RightOperandIsZero" -> RightOperandIsZeroPrefix(cp, rx, c, b, j)
      [] p = "LeftOperandMsb" -> LeftOperandMsbPrefix(cp, rx, c, b, j)
      [] p = "RightOperandMsb" -> RightOperandMsbPrefix(cp, rx, c, b, j)
      [] p = "DivByZero" -> DivByZeroPrefix(cp, rx, c, b, j)
      [] p = "PositiveRemainderEqualsDivisor" -> PositiveRemainderEqualsDivisorPrefix(cp, rx, c, b, j)
      [] p = "PositiveRemainderLessThanDivisor" -> PositiveRemainderLessThanDivisorPrefix(cp, rx, c, b, j)
      [] p = "NegativeDivisorZeroRemainder" -> NegativeDivisorZeroRemainderPrefix(cp, rx, c, b, j)
      [] p = "NegativeDivisorEqualsRemainder" -> NegativeDivisorEqualsRemainderPrefix(cp, rx, c, b, j)
      [] p = "NegativeDivisorGreaterThanRemainder" -> NegativeDivisorGreaterThanRemainderPrefix(cp, rx, c, b, j)
      [] p = "Lsb" -> LsbPrefix(cp, rx, c, b, j)
      [] p = "Pow2" -> Pow2Prefix(cp, rx, c, b, j)
      [] p = "Pow2W" -> Pow2WPrefix(cp, rx, c, b, j)
      [] p = "Rev8W" -> Rev8WPrefix(cp, rx, c, b, j)
      [] p = "RightShift" -> RightShiftPrefix(cp, rx, c, b, j)
      [] p = "SignExtension" -> SignExtensionPrefix(cp, rx, c, b, j)
      [] p = "LeftShift" -> LeftShiftPrefix(cp, rx, c, b, j)
      [] p = "LeftShiftHelper" -> LeftShiftHelperPrefix(cp, rx, c, b, j)
      [] p = "TwoLsb" -> TwoLsbPrefix(cp, rx, c, b, j)
      [] p = "SignExtensionUpperHalf" -> SignExtensionUpperHalfPrefix(cp, rx, c, b, j)
      [] p = "ChangeDivisor" -> ChangeDivisorPrefix(cp, rx, c, b, j)
      [] p = "RightOperand" -> RightOperandPrefix(cp, rx, c, b, j)
      [] p = "ChangeDivisorW" -> ChangeDivisorWPrefix(cp, rx, c, b, j)
      [] p = "RightOperandW" -> RightOperandWPrefix(cp, rx, c, b, j)
      [] p = "SignExtensionRightOperand" -> SignExtensionRightOperandPrefix(cp, rx, c, b, j)
      [] p = "RightShiftW" -> RightShiftWPrefix(cp, rx, c, b, j)
      [] p = "LeftShiftWHelper" -> LeftShiftWHelperPrefix(cp, rx, c, b, j)
      [] p = "LeftShiftW" -> LeftShiftWPrefix(cp, rx, c, b, j)
      [] p = "OverflowBitsZero" -> OverflowBitsZeroPrefix(cp, rx, c, b, j)
update_prefix_checkpoint(p, cp, rx, ry, j, rot) ==
    CASE p = "LowerWord" -> LowerWordUpdate(cp, rx, ry, j)
      [] p = "LowerHalfWord" -> LowerHalfWordUpdate(cp, rx, ry, j)
      [] p = "UpperWord" -> UpperWordUpdate(cp, rx, ry, j)
      [] p = "And" -> AndUpdate(cp, rx, ry, j)
      [] p = "Andn" -> AndnUpdate(cp, rx, ry, j)
      [] p = "Or" -> OrUpdate(cp, rx, ry, j)
      [] p = "Xor" -> XorUpdate(cp, rx, ry, j)
      [] p = "XorRot" -> XorRotUpdate(cp, rx, ry, j, rot)
      [] p = "XorRotW" -> XorRotWUpdate(cp, rx, ry, j, rot)
      [] p = "Eq" -> EqUpdate(cp, rx, ry, j)
      [] p = "LessThan" -> LessThanUpdate(cp, rx, ry, j)
      [] p = "LeftOperandIsZero" -> LeftOperandIsZeroUpdate(cp, rx, ry, j)
      [] p = "RightOperandIsZero" -> RightOperandIsZeroUpdate(cp, rx, ry, j)
      [] p = "LeftOperandMsb" -> LeftOperandMsbUpdate(cp, rx, ry, j)
      [] p = "RightOperandMsb" -> RightOperandMsbUpdate(cp, rx, ry, j)
      [] p = "DivByZero" -> DivByZeroUpdate(cp, rx, ry, j)
      [] p = "PositiveRemainderEqualsDivisor" -> PositiveRemainderEqualsDivisorUpdate(cp, rx, ry, j)
      [] p = "PositiveRemainderLessThanDivisor" -> PositiveRemainderLessThanDivisorUpdate(cp, rx, ry, j)
      [] p = "NegativeDivisorZeroRemainder" -> NegativeDivisorZeroRemainderUpdate(cp, rx, ry, j)
      [] p = "NegativeDivisorEqualsRemainder" -> NegativeDivisorEqualsRemainderUpdate(cp, rx, ry, j)
      [] p = "NegativeDivisorGreaterThanRemainder" -> NegativeDivisorGreaterThanRemainderUpdate(cp, rx, ry, j)
      [] p = "Lsb" -> LsbUpdate(cp, rx, ry, j)
      [] p = "Pow2" -> Pow2Update(cp, rx, ry, j)
      [] p = "Pow2W" -> Pow2WUpdate(cp, rx, ry, j)
      [] p = "Rev8W" -> Rev8WUpdate(cp, rx, ry, j)
      [] p = "RightShift" -> RightShiftUpdate(cp, rx, ry, j)
      [] p = "SignExtension" -> SignExtensionUpdate(cp, rx, ry, j)
      [] p = "LeftShift" -> LeftShiftUpdate(cp, rx, ry, j)
      [] p = "LeftShiftHelper" -> LeftShiftHelperUpdate(cp, rx, ry, j)
      [] p = "TwoLsb" -> TwoLsbUpdate(cp, rx, ry, j)
      [] p = "SignExtensionUpperHalf" -> SignExtensionUpperHalfUpdate(cp, rx, ry, j)
      [] p = "ChangeDivisor" -> ChangeDivisorUpdate(cp, rx, ry, j)
      [] p = "RightOperand" -> RightOperandUpdate(cp, rx, ry, j)
      [] p = "ChangeDivisorW" -> ChangeDivisorWUpdate(cp, rx, ry, j)
      [] p = "RightOperandW" -> RightOperandWUpdate(cp, rx, ry, j)
      [] p = "SignExtensionRightOperand" -> SignExtensionRightOperandUpdate(cp, rx, ry, j)
      [] p = "RightShiftW" -> RightShiftWUpdate(cp, rx, ry, j)
      [] p = "LeftShiftWHelper" -> LeftShiftWHelperUpdate(cp, rx, ry, j)
      [] p = "LeftShiftW" -> LeftShiftWUpdate(cp, rx, ry, j)
      [] p = "OverflowBitsZero" -> OverflowBitsZeroUpdate(cp, rx, ry, j)
\* every checkpoint is updated from the previous ones
update_checkpoints(cp, rx, ry, j, rot) ==
    [p \in PrefixNames |-> update_prefix_checkpoint(p, cp, rx, ry, j, rot)]
=============================================================================
