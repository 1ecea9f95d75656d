------------------------------ MODULE MCReadRaf ------------------------------
(***************************************************************************)
(* Two cycles at XLEN = 8: every table once with each of its test indices, *)
(* next to a cycle of another table, an identity cycle or a padding cycle; *)
(* two rotation slots with their own masks; every way its index may be shared.*)
(***************************************************************************)
EXTENDS ReadRaf

MCRho(i, s) == (i * (s + 2) + 1 + s) % K_CHUNK

\* tables whose right operand is a shift bitmask 1 .. 10 .. 0, and the tables
\* looked up by an index that is one number
ShiftTables == {"VirtualSRL", "VirtualSRA", "VirtualRotr", "VirtualRotrW"}
IdentityTables ==
    {"RangeCheck", "UpperWord", "MulUNoOverflow", "HalfwordAlignment", "WordAlignment",
     "LowerHalfWord", "SignExtendHalfWord", "Pow2", "Pow2W", "ShiftRightBitmask", "VirtualRev8W"}
Operands == {<< 5, 0 >>, << 0, 255 >>, << 128, 255 >>, << 254, 3 >>, << 77, 77 >>}
\* a division by -1, in which the divisor may have to change, is a run of its own
MinusOneDivisor(t, o) ==
    \/ t = "VirtualChangeDivisorW" /\ Low(o[2], WordLen) = 15
    \/ t = "VirtualChangeDivisor" /\ o[2] = Ones
TestIndices(t) ==
    IF t \in ShiftTables THEN {interleave_bits(v0, ShiftBitmask(s, IF t = "VirtualRotrW" THEN WordLen ELSE XLEN))
                                 : v0 \in {203, 70}, s \in {0, 1, 3}}
    ELSE IF t \in IdentityTables THEN {7, 160, 387, 65535}
    ELSE {interleave_bits(o[1], o[2]) : o \in {o \in Operands : ~ MinusOneDivisor(t, o)}}
CycleOf(t, k, s, share) ==
    [table |-> t, index |-> k, interleaved |-> t \notin IdentityTables, slot |-> s, share |-> share]
PaddingCycle ==
    [table |-> NoTable, index |-> 0, interleaved |-> TRUE, slot |-> None, share |-> "public"]
\* what a trace can know of an index: all of it when it is the program's own or a
\* public shift amount, its right operand when that is an immediate or a bitmask
Shares(t) ==
    IF t \in ShiftTables THEN {"right_public"}
    ELSE {"shared"}
         \cup (IF t \in {"RangeCheck", "Pow2", "Pow2W", "ShiftRightBitmask"} THEN {"public"} ELSE {})
         \cup (IF t \in {"And", "Or", "Xor", "SignedLessThan", "UnsignedLessThan"}
               THEN {"right_public"} ELSE {})
Partner(t, k) == IF t \in IdentityTables THEN CycleOf("Xor", 21077, 0, "shared")
                 ELSE IF k % 3 = 0 THEN PaddingCycle ELSE CycleOf("RangeCheck", 300, 1, "shared")
MCTraces ==
    UNION {{<< CycleOf(t, k, k % 2, s), Partner(t, k) >> : k \in TestIndices(t), s \in Shares(t)}
             : t \in TableNames}
    \cup {<< PaddingCycle, CycleOf("And", 51966, 1, "shared") >>,
          << CycleOf("RangeCheck", 387, 0, "shared"), PaddingCycle >>}
    \* a batch of one table in which some right operands are public
    \cup {<< CycleOf(t, 51966, 1, "shared"), CycleOf(t, 21077, 0, "right_public") >>
             : t \in {"And", "Or", "Xor", "SignedLessThan", "UnsignedLessThan"}}
DivisorTraces ==
    {<< CycleOf("VirtualChangeDivisor", interleave_bits(v0, Ones), 0, "shared"), PaddingCycle >>
        : v0 \in {IntMin, 0, 5}}

Point(seed) == [i \in 1 .. LOG_K + 1 |-> (seed * (i + 3) * (i * i + 7) + 11 * i) % P]
MCChallenges == {[gamma |-> 1234, r_cycle |-> << 4321 >>, r |-> Point(97)]}
=============================================================================
