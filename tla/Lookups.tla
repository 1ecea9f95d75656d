------------------------------ MODULE Lookups -------------------------------
(***************************************************************************)
(* What jolt-core reads from a traced cycle, one operator per instruction  *)
(* file: its lookup table, its circuit flags, the instruction inputs x and *)
(* y, and to_lookup_output, which the prover commits to as the value of    *)
(* the lookup.  A cycle is [i, rs1, rs2, rdpre, rdpost, ram] as the tracer *)
(* captures it: the instruction, the values read, the value of rd before   *)
(* and after, and the RAM access.                                          *)
(***************************************************************************)
EXTENDS LookupTables

\* flags every instruction computes the same way from its place in a sequence
SequenceFlags(i) ==
    {f \in {"InlineSequenceInstruction"} : i.rem # -1}
    \cup {f \in {"DoNotUpdateUnexpandedPC"} : i.rem > 0}
    \cup {f \in {"IsCompressed"} : i.comp}
Query(table, flags, in, out) ==
    [table |-> table, flags |-> flags, left |-> in[1], right |-> in[2], out |-> out]

ADD_query(c) ==
    LET x == c.rs1 y == c.rs2
    IN Query("RangeCheck", {"LeftOperandIsRs1Value", "RightOperandIsRs2Value", "AddOperands", "WriteLookupOutputToRD"},
             << c.rs1, c.rs2 >>, Wrap(x + y))
ADDI_query(c) ==
    LET x == c.rs1 y == c.i.imm
    IN Query("RangeCheck", {"LeftOperandIsRs1Value", "RightOperandIsImm", "AddOperands", "WriteLookupOutputToRD"},
             << c.rs1, c.i.imm >>, Wrap(x + y))
SUB_query(c) ==
    LET x == c.rs1 y == c.rs2
    IN Query("RangeCheck", {"LeftOperandIsRs1Value", "RightOperandIsRs2Value", "SubtractOperands", "WriteLookupOutputToRD"},
             << c.rs1, c.rs2 >>, Wrap(x - y))
LUI_query(c) ==
    LET y == c.i.imm
    IN Query("RangeCheck", {"RightOperandIsImm", "AddOperands", "WriteLookupOutputToRD"},
             << 0, c.i.imm >>, y)
AUIPC_query(c) ==
    LET x == c.i.addr y == c.i.imm
    IN Query("RangeCheck", {"LeftOperandIsPC", "RightOperandIsImm", "AddOperands", "WriteLookupOutputToRD"},
             << c.i.addr, c.i.imm >>, Wrap(x + y))
MUL_query(c) ==
    LET x == c.rs1 y == c.rs2
    IN Query("RangeCheck", {"LeftOperandIsRs1Value", "RightOperandIsRs2Value", "MultiplyOperands", "WriteLookupOutputToRD"},
             << c.rs1, c.rs2 >>, Wrap(Signed(x) * Signed(y)))
MULHU_query(c) ==
    LET x == c.rs1 y == c.rs2
    IN Query("UpperWord", {"LeftOperandIsRs1Value", "RightOperandIsRs2Value", "MultiplyOperands", "WriteLookupOutputToRD"},
             << c.rs1, c.rs2 >>, (x * y) \div Base)
AND_query(c) ==
    LET x == c.rs1 y == c.rs2
    IN Query("And", {"LeftOperandIsRs1Value", "RightOperandIsRs2Value", "WriteLookupOutputToRD"},
             << c.rs1, c.rs2 >>, x & y)
ANDI_query(c) ==
    LET x == c.rs1 y == c.i.imm
    IN Query("And", {"LeftOperandIsRs1Value", "RightOperandIsImm", "WriteLookupOutputToRD"},
             << c.rs1, c.i.imm >>, x & y)
ANDN_query(c) ==
    LET x == c.rs1 y == c.rs2
    IN Query("Andn", {"LeftOperandIsRs1Value", "RightOperandIsRs2Value", "WriteLookupOutputToRD"},
             << c.rs1, c.rs2 >>, x & Complement(y))
OR_query(c) ==
    LET x == c.rs1 y == c.rs2
    IN Query("Or", {"LeftOperandIsRs1Value", "RightOperandIsRs2Value", "WriteLookupOutputToRD"},
             << c.rs1, c.rs2 >>, x | y)
ORI_query(c) ==
    LET x == c.rs1 y == c.i.imm
    IN Query("Or", {"LeftOperandIsRs1Value", "RightOperandIsImm", "WriteLookupOutputToRD"},
             << c.rs1, c.i.imm >>, x | y)
XOR_query(c) ==
    LET x == c.rs1 y == c.rs2
    IN Query("Xor", {"LeftOperandIsRs1Value", "RightOperandIsRs2Value", "WriteLookupOutputToRD"},
             << c.rs1, c.rs2 >>, x ^^ y)
XORI_query(c) ==
    LET x == c.rs1 y == c.i.imm
    IN Query("Xor", {"LeftOperandIsRs1Value", "RightOperandIsImm", "WriteLookupOutputToRD"},
             << c.rs1, c.i.imm >>, x ^^ y)
SLT_query(c) ==
    LET x == c.rs1 y == c.rs2
    IN Query("SignedLessThan", {"LeftOperandIsRs1Value", "RightOperandIsRs2Value", "WriteLookupOutputToRD"},
             << c.rs1, c.rs2 >>, BoolBit(Signed(x) < Signed(y)))
SLTI_query(c) ==
    LET x == c.rs1 y == c.i.imm
    IN Query("SignedLessThan", {"LeftOperandIsRs1Value", "RightOperandIsImm", "WriteLookupOutputToRD"},
             << c.rs1, c.i.imm >>, BoolBit(Signed(x) < Signed(y)))
SLTU_query(c) ==
    LET x == c.rs1 y == c.rs2
    IN Query("UnsignedLessThan", {"LeftOperandIsRs1Value", "RightOperandIsRs2Value", "WriteLookupOutputToRD"},
             << c.rs1, c.rs2 >>, BoolBit(x < y))
SLTIU_query(c) ==
    LET x == c.rs1 y == c.i.imm
    IN Query("UnsignedLessThan", {"LeftOperandIsRs1Value", "RightOperandIsImm", "WriteLookupOutputToRD"},
             << c.rs1, c.i.imm >>, BoolBit(x < y))
BEQ_query(c) ==
    LET x == c.rs1 y == c.rs2
    IN Query("Equal", {"LeftOperandIsRs1Value", "RightOperandIsRs2Value", "Branch"},
             << c.rs1, c.rs2 >>, BoolBit(x = y))
BNE_query(c) ==
    LET x == c.rs1 y == c.rs2
    IN Query("NotEqual", {"LeftOperandIsRs1Value", "RightOperandIsRs2Value", "Branch"},
             << c.rs1, c.rs2 >>, BoolBit(x # y))
BLT_query(c) ==
    LET x == c.rs1 y == c.rs2
    IN Query("SignedLessThan", {"LeftOperandIsRs1Value", "RightOperandIsRs2Value", "Branch"},
             << c.rs1, c.rs2 >>, BoolBit(Signed(x) < Signed(y)))
BGE_query(c) ==
    LET x == c.rs1 y == c.rs2
    IN Query("SignedGreaterThanEqual", {"LeftOperandIsRs1Value", "RightOperandIsRs2Value", "Branch"},
             << c.rs1, c.rs2 >>, BoolBit(Signed(x) >= Signed(y)))
BLTU_query(c) ==
    LET x == c.rs1 y == c.rs2
    IN Query("UnsignedLessThan", {"LeftOperandIsRs1Value", "RightOperandIsRs2Value", "Branch"},
             << c.rs1, c.rs2 >>, BoolBit(x < y))
BGEU_query(c) ==
    LET x == c.rs1 y == c.rs2
    IN Query("UnsignedGreaterThanEqual", {"LeftOperandIsRs1Value", "RightOperandIsRs2Value", "Branch"},
             << c.rs1, c.rs2 >>, BoolBit(x >= y))
JAL_query(c) ==
    LET x == c.i.addr y == c.i.imm
    IN Query("RangeCheck", {"LeftOperandIsPC", "RightOperandIsImm", "AddOperands", "Jump"},
             << c.i.addr, c.i.imm >>, Wrap(Signed(x) + Signed(y)))
JALR_query(c) ==
    LET x == c.rs1 y == c.i.imm
    IN Query("RangeCheck", {"LeftOperandIsRs1Value", "RightOperandIsImm", "AddOperands", "Jump"},
             << c.rs1, c.i.imm >>, Wrap(Signed(x) + Signed(y)))
ECALL_query(c) ==
    Query("none", {},
             << 0, 0 >>, 0)
FENCE_query(c) ==
    Query("none", {},
             << 0, 0 >>, 0)
LD_query(c) ==
    Query("none", {"Load"},
             << 0, 0 >>, 0)
SD_query(c) ==
    Query("none", {"Store"},
             << 0, 0 >>, 0)
VirtualAdvice_query(c) ==
    Query("RangeCheck", {"Advice", "WriteLookupOutputToRD"},
             << 0, 0 >>, c.i.adv)
VirtualMove_query(c) ==
    LET x == c.rs1
    IN Query("RangeCheck", {"LeftOperandIsRs1Value", "RightOperandIsImm", "AddOperands", "WriteLookupOutputToRD"},
             << c.rs1, 0 >>, x)
VirtualMovsign_query(c) ==
    LET x == c.rs1
    IN Query("Movsign", {"LeftOperandIsRs1Value", "RightOperandIsImm", "WriteLookupOutputToRD"},
             << c.rs1, c.i.imm >>, IF Bit(x, XLEN - 1) = 1 THEN Ones ELSE 0)
VirtualMULI_query(c) ==
    LET x == c.rs1 y == c.i.imm
    IN Query("RangeCheck", {"LeftOperandIsRs1Value", "RightOperandIsImm", "MultiplyOperands", "WriteLookupOutputToRD"},
             << c.rs1, c.i.imm >>, Wrap(Signed(x) * Signed(y)))
VirtualPow2_query(c) ==
    LET x == c.rs1 y == 0
    IN Query("Pow2", {"LeftOperandIsRs1Value", "RightOperandIsImm", "AddOperands", "WriteLookupOutputToRD"},
             << c.rs1, 0 >>, 2 ^ ((x + y) % XLEN))
VirtualPow2I_query(c) ==
    LET x == 0 y == c.i.imm
    IN Query("Pow2", {"AddOperands", "WriteLookupOutputToRD"}
                   \cup {f \in {"RightOperandIsImm"} : c.i.rem # -1},
             << 0, c.i.imm >>, 2 ^ ((x + y) % XLEN))
VirtualPow2W_query(c) ==
    LET x == c.rs1 y == 0
    IN Query("Pow2W", {"LeftOperandIsRs1Value", "AddOperands", "WriteLookupOutputToRD"},
             << c.rs1, 0 >>, 2 ^ ((x + y) % WordLen))
VirtualPow2IW_query(c) ==
    LET x == 0 y == c.i.imm
    IN Query("Pow2W", {"RightOperandIsImm", "AddOperands", "WriteLookupOutputToRD"},
             << 0, c.i.imm >>, 2 ^ ((x + y) % WordLen))
VirtualShiftRightBitmask_query(c) ==
    LET x == c.rs1 y == 0
    IN Query("ShiftRightBitmask", {"LeftOperandIsRs1Value", "RightOperandIsImm", "AddOperands", "WriteLookupOutputToRD"},
             << c.rs1, 0 >>, ShiftBitmask((x + y) % XLEN, XLEN))
VirtualShiftRightBitmaskI_query(c) ==
    LET x == 0 y == c.i.imm
    IN Query("ShiftRightBitmask", {"RightOperandIsImm", "AddOperands", "WriteLookupOutputToRD"},
             << 0, c.i.imm >>, ShiftBitmask((x + y) % XLEN, XLEN))
VirtualSignExtendWord_query(c) ==
    LET x == c.rs1 y == 0
    IN Query("SignExtendHalfWord", {"LeftOperandIsRs1Value", "AddOperands", "WriteLookupOutputToRD"},
             << c.rs1, 0 >>, Sext(x + y, WordLen))
VirtualZeroExtendWord_query(c) ==
    LET x == c.rs1 y == 0
    IN Query("LowerHalfWord", {"LeftOperandIsRs1Value", "AddOperands", "WriteLookupOutputToRD"},
             << c.rs1, 0 >>, Low(x + y, WordLen))
VirtualSRA_query(c) ==
    LET x == c.rs1 y == c.rs2
    IN Query("VirtualSRA", {"LeftOperandIsRs1Value", "RightOperandIsRs2Value", "WriteLookupOutputToRD"},
             << c.rs1, c.rs2 >>, VirtualSRATable(interleave_bits(x, y)))
VirtualSRAI_query(c) ==
    LET x == c.rs1 y == c.i.imm
    IN Query("VirtualSRA", {"LeftOperandIsRs1Value", "RightOperandIsImm", "WriteLookupOutputToRD"},
             << c.rs1, c.i.imm >>, VirtualSRATable(interleave_bits(x, y)))
VirtualSRL_query(c) ==
    LET x == c.rs1 y == c.rs2
    IN Query("VirtualSRL", {"LeftOperandIsRs1Value", "RightOperandIsRs2Value", "WriteLookupOutputToRD"},
             << c.rs1, c.rs2 >>, VirtualSRLTable(interleave_bits(x, y)))
VirtualSRLI_query(c) ==
    LET x == c.rs1 y == c.i.imm
    IN Query("VirtualSRL", {"LeftOperandIsRs1Value", "RightOperandIsImm", "WriteLookupOutputToRD"},
             << c.rs1, c.i.imm >>, VirtualSRLTable(interleave_bits(x, y)))
VirtualROTRI_query(c) ==
    LET x == c.rs1 y == c.i.imm
    IN Query("VirtualRotr", {"LeftOperandIsRs1Value", "RightOperandIsImm", "WriteLookupOutputToRD"},
             << c.rs1, c.i.imm >>, RotateRight(x, TrailingZeros(y), XLEN))
VirtualROTRIW_query(c) ==
    LET x == c.rs1 y == c.i.imm
    IN Query("VirtualRotrW", {"LeftOperandIsRs1Value", "RightOperandIsImm", "WriteLookupOutputToRD"},
             << c.rs1, c.i.imm >>, LET k == TrailingZeros(y)
        IN RotateRight(x, IF k < WordLen THEN k ELSE WordLen, WordLen))
VirtualRev8W_query(c) ==
    LET x == c.rs1
    IN Query("VirtualRev8W", {"LeftOperandIsRs1Value", "AddOperands", "WriteLookupOutputToRD"},
             << c.rs1, 0 >>, SwapBytes(Low(x, WordLen), WordLen)
        + SwapBytes(ShiftRight(x, WordLen), WordLen) * 2 ^ WordLen)
VirtualXORROT_query(c) ==
    LET x == c.rs1 y == c.rs2
    IN Query("VirtualXORROT", {"LeftOperandIsRs1Value", "RightOperandIsRs2Value", "WriteLookupOutputToRD"},
             << c.rs1, c.rs2 >>, RotateRight(x ^^ y, c.i.imm, XLEN))
VirtualXORROTW_query(c) ==
    LET x == c.rs1 y == c.rs2
    IN Query("VirtualXORROTW", {"LeftOperandIsRs1Value", "RightOperandIsRs2Value", "WriteLookupOutputToRD"},
             << c.rs1, c.rs2 >>, RotateRight(Low(x ^^ y, WordLen), c.i.imm, WordLen))
VirtualChangeDivisor_query(c) ==
    LET x == c.rs1 y == c.rs2
    IN Query("VirtualChangeDivisor", {"LeftOperandIsRs1Value", "RightOperandIsRs2Value", "WriteLookupOutputToRD"},
             << c.rs1, c.rs2 >>, IF Signed(x) = -IntMin /\ y = -1 THEN 1 ELSE Wrap(y))
VirtualChangeDivisorW_query(c) ==
    LET x == Low(c.rs1, WordLen) y == SignedWord(c.rs2)
    IN Query("VirtualChangeDivisorW", {"LeftOperandIsRs1Value", "RightOperandIsRs2Value", "WriteLookupOutputToRD"},
             << Low(c.rs1, WordLen), SignedWord(c.rs2) >>, IF SignedWord(x) = -(2 ^ (WordLen - 1)) /\ y = -1 THEN 1 ELSE Wrap(y))
VirtualAssertEQ_query(c) ==
    LET x == c.rs1 y == c.rs2
    IN Query("Equal", {"Assert", "LeftOperandIsRs1Value", "RightOperandIsRs2Value"},
             << c.rs1, c.rs2 >>, BoolBit(x = y))
VirtualAssertLTE_query(c) ==
    LET x == c.rs1 y == c.rs2
    IN Query("UnsignedLessThanEqual", {"Assert", "LeftOperandIsRs1Value", "RightOperandIsRs2Value"},
             << c.rs1, c.rs2 >>, BoolBit(x <= y))
VirtualAssertValidDiv0_query(c) ==
    LET x == c.rs1 y == c.rs2
    IN Query("ValidDiv0", {"Assert", "LeftOperandIsRs1Value", "RightOperandIsRs2Value"},
             << c.rs1, c.rs2 >>, IF x = 0 THEN BoolBit(y = Ones) ELSE 1)
VirtualAssertValidUnsignedRemainder_query(c) ==
    LET x == c.rs1 y == c.rs2
    IN Query("ValidUnsignedRemainder", {"Assert", "LeftOperandIsRs1Value", "RightOperandIsRs2Value"},
             << c.rs1, c.rs2 >>, BoolBit(y = 0 \/ x < y))
VirtualAssertMulUNoOverflow_query(c) ==
    LET x == c.rs1 y == c.rs2
    IN Query("MulUNoOverflow", {"Assert", "LeftOperandIsRs1Value", "RightOperandIsRs2Value", "MultiplyOperands"},
             << c.rs1, c.rs2 >>, BoolBit(x * y <= Ones))
VirtualAssertHalfwordAlignment_query(c) ==
    LET x == c.rs1 y == c.i.imm
    IN Query("HalfwordAlignment", {"Assert", "LeftOperandIsRs1Value", "RightOperandIsImm", "AddOperands"},
             << c.rs1, c.i.imm >>, BoolBit((x + y) % 2 = 0))
VirtualAssertWordAlignment_query(c) ==
    LET x == c.rs1 y == c.i.imm
    IN Query("WordAlignment", {"Assert", "LeftOperandIsRs1Value", "RightOperandIsImm", "AddOperands"},
             << c.rs1, c.i.imm >>, BoolBit((x + y) % 4 = 0))

\* ECALL and FENCE set no sequence flags but is_compressed
Unsequenced == {"ECALL", "FENCE"}
Queried == { "ADD", "ADDI", "SUB", "LUI", "AUIPC",
             "MUL", "MULHU", "AND", "ANDI", "ANDN",
             "OR", "ORI", "XOR", "XORI", "SLT",
             "SLTI", "SLTU", "SLTIU", "BEQ", "BNE",
             "BLT", "BGE", "BLTU", "BGEU", "JAL",
             "JALR", "ECALL", "FENCE", "LD", "SD",
             "VirtualAdvice", "VirtualMove", "VirtualMovsign", "VirtualMULI", "VirtualPow2",
             "VirtualPow2I", "VirtualPow2W", "VirtualPow2IW", "VirtualShiftRightBitmask", "VirtualShiftRightBitmaskI",
             "VirtualSignExtendWord", "VirtualZeroExtendWord", "VirtualSRA", "VirtualSRAI", "VirtualSRL",
             "VirtualSRLI", "VirtualROTRI", "VirtualROTRIW", "VirtualRev8W", "VirtualXORROT",
             "VirtualXORROTW", "VirtualChangeDivisor", "VirtualChangeDivisorW", "VirtualAssertEQ", "VirtualAssertLTE",
             "VirtualAssertValidDiv0", "VirtualAssertValidUnsignedRemainder", "VirtualAssertMulUNoOverflow", "VirtualAssertHalfwordAlignment", "VirtualAssertWordAlignment" }
query(c) ==
    CASE c.i.op = "ADD" -> ADD_query(c)
      [] c.i.op = "ADDI" -> ADDI_query(c)
      [] c.i.op = "SUB" -> SUB_query(c)
      [] c.i.op = "LUI" -> LUI_query(c)
      [] c.i.op = "AUIPC" -> AUIPC_query(c)
      [] c.i.op = "MUL" -> MUL_query(c)
      [] c.i.op = "MULHU" -> MULHU_query(c)
      [] c.i.op = "AND" -> AND_query(c)
      [] c.i.op = "ANDI" -> ANDI_query(c)
      [] c.i.op = "ANDN" -> ANDN_query(c)
      [] c.i.op = "OR" -> OR_query(c)
      [] c.i.op = "ORI" -> ORI_query(c)
      [] c.i.op = "XOR" -> XOR_query(c)
      [] c.i.op = "XORI" -> XORI_query(c)
      [] c.i.op = "SLT" -> SLT_query(c)
      [] c.i.op = "SLTI" -> SLTI_query(c)
      [] c.i.op = "SLTU" -> SLTU_query(c)
      [] c.i.op = "SLTIU" -> SLTIU_query(c)
      [] c.i.op = "BEQ" -> BEQ_query(c)
      [] c.i.op = "BNE" -> BNE_query(c)
      [] c.i.op = "BLT" -> BLT_query(c)
      [] c.i.op = "BGE" -> BGE_query(c)
      [] c.i.op = "BLTU" -> BLTU_query(c)
      [] c.i.op = "BGEU" -> BGEU_query(c)
      [] c.i.op = "JAL" -> JAL_query(c)
      [] c.i.op = "JALR" -> JALR_query(c)
      [] c.i.op = "ECALL" -> ECALL_query(c)
      [] c.i.op = "FENCE" -> FENCE_query(c)
      [] c.i.op = "LD" -> LD_query(c)
      [] c.i.op = "SD" -> SD_query(c)
      [] c.i.op = "VirtualAdvice" -> VirtualAdvice_query(c)
      [] c.i.op = "VirtualMove" -> VirtualMove_query(c)
      [] c.i.op = "VirtualMovsign" -> VirtualMovsign_query(c)
      [] c.i.op = "VirtualMULI" -> VirtualMULI_query(c)
      [] c.i.op = "VirtualPow2" -> VirtualPow2_query(c)
      [] c.i.op = "VirtualPow2I" -> VirtualPow2I_query(c)
      [] c.i.op = "VirtualPow2W" -> VirtualPow2W_query(c)
      [] c.i.op = "VirtualPow2IW" -> VirtualPow2IW_query(c)
      [] c.i.op = "VirtualShiftRightBitmask" -> VirtualShiftRightBitmask_query(c)
      [] c.i.op = "VirtualShiftRightBitmaskI" -> VirtualShiftRightBitmaskI_query(c)
      [] c.i.op = "VirtualSignExtendWord" -> VirtualSignExtendWord_query(c)
      [] c.i.op = "VirtualZeroExtendWord" -> VirtualZeroExtendWord_query(c)
      [] c.i.op = "VirtualSRA" -> VirtualSRA_query(c)
      [] c.i.op = "VirtualSRAI" -> VirtualSRAI_query(c)
      [] c.i.op = "VirtualSRL" -> VirtualSRL_query(c)
      [] c.i.op = "VirtualSRLI" -> VirtualSRLI_query(c)
      [] c.i.op = "VirtualROTRI" -> VirtualROTRI_query(c)
      [] c.i.op = "VirtualROTRIW" -> VirtualROTRIW_query(c)
      [] c.i.op = "VirtualRev8W" -> VirtualRev8W_query(c)
      [] c.i.op = "VirtualXORROT" -> VirtualXORROT_query(c)
      [] c.i.op = "VirtualXORROTW" -> VirtualXORROTW_query(c)
      [] c.i.op = "VirtualChangeDivisor" -> VirtualChangeDivisor_query(c)
      [] c.i.op = "VirtualChangeDivisorW" -> VirtualChangeDivisorW_query(c)
      [] c.i.op = "VirtualAssertEQ" -> VirtualAssertEQ_query(c)
      [] c.i.op = "VirtualAssertLTE" -> VirtualAssertLTE_query(c)
      [] c.i.op = "VirtualAssertValidDiv0" -> VirtualAssertValidDiv0_query(c)
      [] c.i.op = "VirtualAssertValidUnsignedRemainder" -> VirtualAssertValidUnsignedRemainder_query(c)
      [] c.i.op = "VirtualAssertMulUNoOverflow" -> VirtualAssertMulUNoOverflow_query(c)
      [] c.i.op = "VirtualAssertHalfwordAlignment" -> VirtualAssertHalfwordAlignment_query(c)
      [] c.i.op = "VirtualAssertWordAlignment" -> VirtualAssertWordAlignment_query(c)

\* circuit_flags of a cycle; a NoOp cycle leaves the unexpanded pc alone
circuit_flags(c) ==
    IF c.i.op = "NoOp" THEN {"IsNoop", "DoNotUpdateUnexpandedPC"}
    ELSE query(c).flags \cup (IF c.i.op \in Unsequenced
                              THEN SequenceFlags(c.i) \cap {"IsCompressed"}
                              ELSE SequenceFlags(c.i))

Arithmetic == {"AddOperands", "SubtractOperands", "MultiplyOperands"}
\* to_lookup_operands: one number for arithmetic and advice, two otherwise
to_lookup_operands(q, c) ==
    CASE "AddOperands" \in q.flags -> << 0, q.left + q.right >>
      [] "SubtractOperands" \in q.flags -> << 0, q.left + (Base - q.right) >>
      [] "MultiplyOperands" \in q.flags -> << 0, q.left * q.right >>
      [] "Advice" \in q.flags -> << 0, c.i.adv >>
      [] OTHER -> << q.left, Wrap(q.right) >>
\* InterleavedBitsMarker::is_interleaved_operands
is_interleaved_operands(flags) == flags \cap (Arithmetic \cup {"Advice"}) = {}
to_lookup_index(q, c) ==
    LET o == to_lookup_operands(q, c)
    IN IF is_interleaved_operands(q.flags) THEN interleave_bits(o[1], o[2]) ELSE o[2]
=============================================================================
