---------------------------- MODULE SharedLookups ----------------------------
(***************************************************************************)
(* What a worker computes from a cycle whose values are secret-shared        *)
(* (provia-worker zkvm/instruction): the operands a format carries, the       *)
(* instruction inputs, the lookup index and the lookup output.  An output is  *)
(* a future: a sharing that still has to be brought into the field in a        *)
(* batch.  Everything is computed without opening an operand.                  *)
(*                                                                         *)
(* The default build emulates a 32-bit guest (XLEN is the width of u32), the  *)
(* feature rv64 a 64-bit one (XLEN is the width of u64).                      *)
(***************************************************************************)
EXTENDS Correlations

CONSTANT XLEN
V == INSTANCE Lookups

VARIABLE rv64   \* the feature the worker is built with

U32 == IF rv64 THEN XLEN \div 2 ELSE XLEN
U64 == 2 * U32
Wide == 2 * XLEN    \* ArithmeticWideInt and LookupIndexInt

(***************************************************************************)
(* Operands (types/rep3_operand.rs)                                        *)
(***************************************************************************)
Public(v) == [pub |-> TRUE, v |-> v]
from_binary(s) == [pub |-> FALSE, bin |-> s, ar |-> Failed]
from_arithmetic(s, w) == [pub |-> FALSE, bin |-> s, ar |-> w]
PublicZero == Public(0)
as_public(o) == o.v % 2 ^ U64
as_binary_or_trivial(o) == IF o.pub THEN binary_promote_to_trivial_share(o.v % 2 ^ XLEN) ELSE o.bin
as_arithmetic_or_trivial(k, o) ==
    IF o.pub THEN ring_promote_to_trivial_share((o.v % 2 ^ XLEN) % 2 ^ k) ELSE downcast(k, o.ar)
\* a public value keeps the bits above XLEN, a shared one has none
operand_to_binary_wide(o) == IF o.pub THEN binary_promote_to_trivial_share(o.v % 2 ^ Wide) ELSE o.bin

\* spreading by halving distances, on every half of every party alike
\* runs of n ones, n apart
SpreadMask(n) == Mask(n) * ((2 ^ Wide - 1) \div (4 ^ n - 1))
SpreadStep(v, n) == (v | ((v * 2 ^ n) % 2 ^ Wide)) & SpreadMask(n)
SpreadBits(v) ==
    LET x[n \in 0 .. ilog2(XLEN)] == IF n = 0 THEN v ELSE SpreadStep(x[n - 1], 2 ^ (ilog2(XLEN) - n))
    IN x[ilog2(XLEN)]
interleave_bits_shared(even, odd) ==
    Listed([i \in Parties |-> [a |-> ((2 * SpreadBits(even[i].a)) % 2 ^ Wide) | SpreadBits(odd[i].a), b |-> ((2 * SpreadBits(even[i].b)) % 2 ^ Wide) | SpreadBits(odd[i].b)]])

(***************************************************************************)
(* Register operands of each format, in the order they are dealt and taken   *)
(* (format/), then those of the RAM access (types/rep3_ram.rs)                *)
(***************************************************************************)
FormatR_operands == << "rs1", "rs2", "rdpre", "rdpost" >>
FormatVirtualRightShiftR_operands == << "rs1", "rs2", "rdpre", "rdpost" >>
FormatI_operands == << "rs1", "rdpre", "rdpost" >>
FormatVirtualRightShiftI_operands == << "rs1", "rdpre", "rdpost" >>
FormatLoad_operands == << "rs1", "rdpre", "rdpost" >>
FormatU_operands == << "rdpre", "rdpost" >>
FormatJ_operands == << "rdpre", "rdpost" >>
FormatB_operands == << "rs1", "rs2" >>
FormatS_operands == << "rs1", "rs2" >>
AssertAlignFormat_operands == << "rs1" >>

Branches == {"BEQ", "BNE", "BLT", "BGE", "BLTU", "BGEU"}
Asserts == {"VirtualAssertEQ", "VirtualAssertLTE", "VirtualAssertValidDiv0",
            "VirtualAssertValidUnsignedRemainder", "VirtualAssertMulUNoOverflow"}
Loads == {"VirtualLW", "LD"}
Stores == {"VirtualSW", "SD"}
operands_of(op) ==
    CASE op \in {"VirtualSRA", "VirtualSRL"} -> FormatVirtualRightShiftR_operands
      [] op \in {"VirtualSRAI", "VirtualSRLI", "VirtualROTRI", "VirtualROTRIW"} -> FormatVirtualRightShiftI_operands
      [] op \in Branches \cup Asserts -> FormatB_operands
      [] op \in Stores -> FormatS_operands
      [] op \in Loads -> FormatLoad_operands
      [] op \in {"VirtualAssertHalfwordAlignment", "VirtualAssertWordAlignment"} -> AssertAlignFormat_operands
      [] op \in {"JAL", "VirtualAdvice", "VirtualPow2I", "VirtualPow2IW", "VirtualShiftRightBitmaskI"} ->
             FormatJ_operands
      [] op \in {"LUI", "AUIPC"} -> FormatU_operands
      [] op \in {"ADD", "SUB", "MUL", "MULHU", "AND", "ANDN", "OR", "XOR", "SLT", "SLTU", "VirtualXORROT",
                 "VirtualXORROTW", "VirtualChangeDivisor", "VirtualChangeDivisorW"} -> FormatR_operands
      [] op = "NoOp" -> << >>
      [] OTHER -> FormatI_operands
Rep3RAMAccess_operands(ram) ==
    CASE ram.kind = "read" -> << "ramval" >>
      [] ram.kind = "write" -> << "rampre", "rampost" >>
      [] OTHER -> << >>
advice_operands(i) == IF i.op = "VirtualAdvice" THEN << "advice" >> ELSE << >>
shared_operands(c) == operands_of(c.i.op) \o Rep3RAMAccess_operands(c.ram) \o advice_operands(c.i)
\* extract_operand_values: one value for every operand
operand_value(c, n) ==
    CASE n = "ramval" -> c.ram.pre
      [] n = "rampre" -> c.ram.pre
      [] n = "rampost" -> c.ram.post
      [] n = "advice" -> c.i.adv
      [] OTHER -> c[n]

\* host/program.rs: what a proof reveals anyway is dealt in the clear
public_operand_indices(op) ==
    CASE op \in {"VirtualPow2", "VirtualShiftRightBitmask", "VirtualPow2W"} -> {1}
      [] op \in {"VirtualSRL", "VirtualSRA"} -> {2}
      [] OTHER -> {}

OperandNames == {"rs1", "rs2", "rdpre", "rdpost", "ramval", "rampre", "rampost", "advice"}
share_cycle(c, t) ==
    LET names == shared_operands(c)
        dealt == Listed([k \in 1 .. Len(names) |-> LET v == operand_value(c, names[k])
                     IN IF k \in public_operand_indices(c.i.op) THEN Public(v)
                        ELSE from_binary(share_ring_element_binary(XLEN, v, Draw(7, t + k), Draw(8, t + k)))])
    IN [i |-> c.i, kind |-> c.ram.kind, addr |-> c.ram.addr,
        ops |-> [n \in OperandNames |->
                     IF \E k \in DOMAIN names : names[k] = n
                     THEN dealt[CHOOSE k \in DOMAIN names : names[k] = n] ELSE PublicZero]]
share_cycles(cs, t) == Listed([j \in 1 .. Len(cs) |-> share_cycle(cs[j], t + 10 * j)])

\* the operands still without an arithmetic sharing, cycle by cycle
NeedsCast(s) == LET names == shared_operands([i |-> s.i, ram |-> [kind |-> s.kind]])
                IN SelectSeq(names, LAMBDA n : ~s.ops[n].pub /\ s.ops[n].ar = Failed)
populate_operands_casts(ss, t) ==
    LET \* << cycle, operand >> of every cast, and how many precede cycle j's
        before[j \in 1 .. Len(ss) + 1] == IF j = 1 THEN 0 ELSE before[j - 1] + Len(NeedsCast(ss[j - 1]))
        flat[j \in 0 .. Len(ss)] ==
            IF j = 0 THEN << >>
            ELSE flat[j - 1] \o Listed([k \in 1 .. Len(NeedsCast(ss[j])) |-> ss[j].ops[NeedsCast(ss[j])[k]].bin])
        cast == upcast_many_from_binary(XLEN, Wide, flat[Len(ss)], t)
        place(j, n) == before[j] + CHOOSE k \in DOMAIN NeedsCast(ss[j]) : NeedsCast(ss[j])[k] = n
    IN Listed([j \in 1 .. Len(ss) |-> LET names == {NeedsCast(ss[j])[k] : k \in DOMAIN NeedsCast(ss[j])}
           IN [ss[j] EXCEPT !.ops = [n \in OperandNames |->
                   IF n \in names THEN from_arithmetic(ss[j].ops[n].bin, cast[place(j, n)])
                   ELSE ss[j].ops[n]]]])

(***************************************************************************)
(* Instruction inputs and lookup index                                     *)
(***************************************************************************)
\* a 32-bit guest's immediates are kept sign-extended to 64 bits; a bitmask is not
ImmOf(i) ==
    IF i.op \in {"VirtualSRAI", "VirtualSRLI", "VirtualROTRI", "VirtualROTRIW"} THEN i.imm
    ELSE (IF 2 * i.imm >= 2 ^ XLEN THEN i.imm - 2 ^ XLEN ELSE i.imm) % 2 ^ U64
Inputs(s, form) ==
    CASE form = "rs1_rs2" -> << s.ops["rs1"], s.ops["rs2"] >>
      [] form = "rs1_imm" -> << s.ops["rs1"], Public(ImmOf(s.i)) >>
      [] form = "pc_imm" -> << Public(s.i.addr), Public(ImmOf(s.i)) >>
      [] form = "zero_imm" -> << PublicZero, Public(ImmOf(s.i)) >>
      [] form = "imm_zero" -> << Public(ImmOf(s.i)), PublicZero >>
      [] form = "rs1_zero" -> << s.ops["rs1"], PublicZero >>
      [] form = "none" -> << PublicZero, PublicZero >>
\* one row per instruction file: its inputs, how its index is built, its output
Row(inputs, index, output) == [inputs |-> inputs, index |-> index, output |-> output]
ADD_row == Row("rs1_rs2", "add", "sum")
ADDI_row == Row("rs1_imm", "add", "sum")
LUI_row == Row("zero_imm", "add", "sum")
AUIPC_row == Row("pc_imm", "add", "sum")
JAL_row == Row("pc_imm", "add", "sum")
JALR_row == Row("rs1_imm", "add", "sum")
SUB_row == Row("rs1_rs2", "sub", "difference")
MUL_row == Row("rs1_rs2", "mul", "product")
VirtualMULI_row == Row("rs1_imm", "mul", "product")
MULHU_row == Row("rs1_rs2", "mul", "upper_product")
AND_row == Row("rs1_rs2", "interleave", "and")
ANDI_row == Row("rs1_imm", "interleave", "and")
ANDN_row == Row("rs1_rs2", "interleave", "andn")
OR_row == Row("rs1_rs2", "interleave", "or")
ORI_row == Row("rs1_imm", "interleave", "or")
XOR_row == Row("rs1_rs2", "interleave", "xor")
XORI_row == Row("rs1_imm", "interleave", "xor")
SLT_row == Row("rs1_rs2", "interleave", "signed_lt")
SLTI_row == Row("rs1_imm", "interleave", "signed_lt")
SLTU_row == Row("rs1_rs2", "interleave", "lt")
SLTIU_row == Row("rs1_imm", "interleave", "lt")
BEQ_row == Row("rs1_rs2", "interleave", "eq")
BNE_row == Row("rs1_rs2", "interleave", "neq")
BLT_row == Row("rs1_rs2", "interleave", "signed_lt")
BGE_row == Row("rs1_rs2", "interleave", "signed_ge")
BLTU_row == Row("rs1_rs2", "interleave", "lt")
BGEU_row == Row("rs1_rs2", "interleave", "ge")
ECALL_row == Row("none", "interleave", "zero")
FENCE_row == Row("none", "interleave", "zero")
LD_row == Row("none", "interleave", "zero")
SD_row == Row("none", "interleave", "zero")
VirtualLW_row == Row("none", "interleave", "zero")
VirtualSW_row == Row("none", "interleave", "zero")
VirtualAdvice_row == Row("none", "advice", "advice")
VirtualMove_row == Row("rs1_zero", "add", "left")
VirtualMovsign_row == Row("rs1_imm", "interleave", "movsign")
VirtualPow2_row == Row("rs1_zero", "add", "pow2")
VirtualPow2I_row == Row("imm_zero", "add", "pow2")
VirtualPow2W_row == Row("rs1_zero", "add", "pow2w")
VirtualPow2IW_row == Row("zero_imm", "add", "pow2iw")
VirtualShiftRightBitmask_row == Row("rs1_zero", "add", "bitmask")
VirtualShiftRightBitmaskI_row == Row("imm_zero", "add", "bitmask")
VirtualSRA_row == Row("rs1_rs2", "interleave", "sra")
VirtualSRAI_row == Row("rs1_imm", "interleave", "sra")
VirtualSRL_row == Row("rs1_rs2", "interleave", "srl")
VirtualSRLI_row == Row("rs1_imm", "interleave", "srl")
VirtualROTRI_row == Row("rs1_imm", "interleave", "rotri")
VirtualROTRIW_row == Row("rs1_imm", "interleave", "rotriw")
VirtualRev8W_row == Row("rs1_zero", "add", "rev8w")
VirtualXORROT_row == Row("rs1_rs2", "interleave", "xorrot")
VirtualXORROTW_row == Row("rs1_rs2", "interleave", "xorrotw")
VirtualSignExtendWord_row == Row("rs1_zero", "add", "sign_extend")
VirtualZeroExtendWord_row == Row("rs1_zero", "add", "zero_extend")
VirtualChangeDivisor_row == Row("rs1_rs2", "interleave", "change_divisor")
VirtualChangeDivisorW_row == Row("rs1_rs2", "interleave", "change_divisor")
VirtualAssertEQ_row == Row("rs1_rs2", "interleave", "eq")
VirtualAssertLTE_row == Row("rs1_rs2", "interleave", "lte")
VirtualAssertValidDiv0_row == Row("rs1_rs2", "interleave", "valid_div0")
VirtualAssertValidUnsignedRemainder_row == Row("rs1_rs2", "interleave", "valid_remainder")
VirtualAssertMulUNoOverflow_row == Row("rs1_rs2", "mul", "no_overflow")
VirtualAssertHalfwordAlignment_row == Row("rs1_imm", "add", "halfword_aligned")
VirtualAssertWordAlignment_row == Row("rs1_imm", "add", "word_aligned")
Rep3Cycle_row(op) ==
    CASE op = "ADD" -> ADD_row
      [] op = "ADDI" -> ADDI_row
      [] op = "LUI" -> LUI_row
      [] op = "AUIPC" -> AUIPC_row
      [] op = "JAL" -> JAL_row
      [] op = "JALR" -> JALR_row
      [] op = "SUB" -> SUB_row
      [] op = "MUL" -> MUL_row
      [] op = "VirtualMULI" -> VirtualMULI_row
      [] op = "MULHU" -> MULHU_row
      [] op = "AND" -> AND_row
      [] op = "ANDI" -> ANDI_row
      [] op = "ANDN" -> ANDN_row
      [] op = "OR" -> OR_row
      [] op = "ORI" -> ORI_row
      [] op = "XOR" -> XOR_row
      [] op = "XORI" -> XORI_row
      [] op = "SLT" -> SLT_row
      [] op = "SLTI" -> SLTI_row
      [] op = "SLTU" -> SLTU_row
      [] op = "SLTIU" -> SLTIU_row
      [] op = "BEQ" -> BEQ_row
      [] op = "BNE" -> BNE_row
      [] op = "BLT" -> BLT_row
      [] op = "BGE" -> BGE_row
      [] op = "BLTU" -> BLTU_row
      [] op = "BGEU" -> BGEU_row
      [] op = "ECALL" -> ECALL_row
      [] op = "FENCE" -> FENCE_row
      [] op = "LD" -> LD_row
      [] op = "SD" -> SD_row
      [] op = "VirtualLW" -> VirtualLW_row
      [] op = "VirtualSW" -> VirtualSW_row
      [] op = "VirtualAdvice" -> VirtualAdvice_row
      [] op = "VirtualMove" -> VirtualMove_row
      [] op = "VirtualMovsign" -> VirtualMovsign_row
      [] op = "VirtualPow2" -> VirtualPow2_row
      [] op = "VirtualPow2I" -> VirtualPow2I_row
      [] op = "VirtualPow2W" -> VirtualPow2W_row
      [] op = "VirtualPow2IW" -> VirtualPow2IW_row
      [] op = "VirtualShiftRightBitmask" -> VirtualShiftRightBitmask_row
      [] op = "VirtualShiftRightBitmaskI" -> VirtualShiftRightBitmaskI_row
      [] op = "VirtualSRA" -> VirtualSRA_row
      [] op = "VirtualSRAI" -> VirtualSRAI_row
      [] op = "VirtualSRL" -> VirtualSRL_row
      [] op = "VirtualSRLI" -> VirtualSRLI_row
      [] op = "VirtualROTRI" -> VirtualROTRI_row
      [] op = "VirtualROTRIW" -> VirtualROTRIW_row
      [] op = "VirtualRev8W" -> VirtualRev8W_row
      [] op = "VirtualXORROT" -> VirtualXORROT_row
      [] op = "VirtualXORROTW" -> VirtualXORROTW_row
      [] op = "VirtualSignExtendWord" -> VirtualSignExtendWord_row
      [] op = "VirtualZeroExtendWord" -> VirtualZeroExtendWord_row
      [] op = "VirtualChangeDivisor" -> VirtualChangeDivisor_row
      [] op = "VirtualChangeDivisorW" -> VirtualChangeDivisorW_row
      [] op = "VirtualAssertEQ" -> VirtualAssertEQ_row
      [] op = "VirtualAssertLTE" -> VirtualAssertLTE_row
      [] op = "VirtualAssertValidDiv0" -> VirtualAssertValidDiv0_row
      [] op = "VirtualAssertValidUnsignedRemainder" -> VirtualAssertValidUnsignedRemainder_row
      [] op = "VirtualAssertMulUNoOverflow" -> VirtualAssertMulUNoOverflow_row
      [] op = "VirtualAssertHalfwordAlignment" -> VirtualAssertHalfwordAlignment_row
      [] op = "VirtualAssertWordAlignment" -> VirtualAssertWordAlignment_row
to_instruction_inputs(s) == Inputs(s, Rep3Cycle_row(s.i.op).inputs)

\* pow2 and bitmask outputs read the left, shift and rotate outputs the right operand in the clear
ReadsLeft == {"pow2", "pow2w", "bitmask"}
ReadsRight == {"pow2iw", "sra", "srl", "rotri", "rotriw"}
as_public_panics(s) ==
    /\ s.i.op # "NoOp"
    /\ LET out == Rep3Cycle_row(s.i.op).output
           in == to_instruction_inputs(s)
       IN \/ out \in ReadsLeft /\ Rep3Cycle_row(s.i.op).inputs # "zero_imm" /\ ~in[1].pub
          \/ out \in ReadsRight /\ ~in[2].pub

(***************************************************************************)
(* Futures (utils/future_ring.rs): a value, or what a batch turns into one  *)
(***************************************************************************)
Ready(s) == [kind |-> "Ready", s |-> s]
a2b_future(s) == [kind |-> "RingA2B", s |-> s]
mul_a2b_future(s, q) == [kind |-> "RingMulA2B", s |-> s, q |-> q]
bit_inject_to_field(s) == [kind |-> "BitInject", s |-> s]
cast_to_field(s) == [kind |-> "CastToField", s |-> s]
cast_to_field_b2a(s) == [kind |-> "CastToFieldB2A", s |-> s]

InterleavedIndex(in) ==
    Ready(interleave_bits_shared(operand_to_binary_wide(in[1]), operand_to_binary_wide(in[2])))
AddIndex(in) ==
    a2b_future(ring_add(Wide, as_arithmetic_or_trivial(Wide, in[1]), as_arithmetic_or_trivial(Wide, in[2])))
SubIndex(in) ==
    a2b_future(ring_add(Wide, as_arithmetic_or_trivial(Wide, in[1]),
                        ring_sub_public_by_shared(Wide, 2 ^ XLEN, as_arithmetic_or_trivial(Wide, in[2]))))
MulIndex(in) == mul_a2b_future(as_arithmetic_or_trivial(Wide, in[1]), as_arithmetic_or_trivial(Wide, in[2]))
AdviceIndex(s) == Ready(as_binary_or_trivial(s.ops["advice"]))
to_lookup_index(s) ==
    IF s.i.op = "NoOp" THEN Ready(ZeroShare)
    ELSE LET in == to_instruction_inputs(s)
             index == Rep3Cycle_row(s.i.op).index
         IN CASE index = "interleave" -> InterleavedIndex(in)
              [] index = "add" -> AddIndex(in)
              [] index = "sub" -> SubIndex(in)
              [] index = "mul" -> MulIndex(in)
              [] index = "advice" -> AdviceIndex(s)

\* positions of the futures of one kind, in order
OfKind(fs, kind) == SelectSeq(Listed([j \in 1 .. Len(fs) |-> j]), LAMBDA j : fs[j].kind = kind)
At(fs, idx) == Listed([n \in 1 .. Len(idx) |-> fs[idx[n]].s])
Place(idx, j) == CHOOSE n \in DOMAIN idx : idx[n] = j
\* fulfill_batched, to the ring: products first, then one conversion for each kind
fulfill_batched_ring(k, fs, t) ==
    LET muls == OfKind(fs, "RingMulA2B")
        sums == OfKind(fs, "RingA2B")
        products == ring_mul_vec(k, At(fs, muls), Listed([n \in 1 .. Len(muls) |-> fs[muls[n]].q]), t)
        mul_bits == IF muls = << >> THEN << >> ELSE ring_a2b_many(k, products, t + 20)
        sum_bits == IF sums = << >> THEN << >> ELSE ring_a2b_many(k, At(fs, sums), t + 120)
    IN Listed([j \in 1 .. Len(fs) |-> CASE fs[j].kind = "Ready" -> fs[j].s
                                  [] fs[j].kind = "RingMulA2B" -> mul_bits[Place(muls, j)]
                                  [] fs[j].kind = "RingA2B" -> sum_bits[Place(sums, j)]])

(***************************************************************************)
(* Lookup outputs of a batch of equal instructions: ins[j] are the inputs of *)
(* cycle j                                                                 *)
(***************************************************************************)
Binary(o) == as_binary_or_trivial(o)
Arith64(o) == as_arithmetic_or_trivial(U64, o)
ArithWide(o) == as_arithmetic_or_trivial(Wide, o)
\* operand 1 (left) or 2 (right) of every cycle
Binaries(ins, side) == Listed([j \in 1 .. Len(ins) |-> Binary(ins[j][side])])
Ariths(ins, side) == Listed([j \in 1 .. Len(ins) |-> Arith64(ins[j][side])])
ArithWides(ins, side) == Listed([j \in 1 .. Len(ins) |-> ArithWide(ins[j][side])])
Casts(ss) == Listed([j \in 1 .. Len(ss) |-> cast_to_field(ss[j])])
CastsB2A(ss) == Listed([j \in 1 .. Len(ss) |-> cast_to_field_b2a(ss[j])])
Injects(bits) == Listed([j \in 1 .. Len(bits) |-> bit_inject_to_field(bits[j])])
Nots(bits) == Listed([j \in 1 .. Len(bits) |-> ring_not(1, bits[j])])
Downcast(ss) == Listed([j \in 1 .. Len(ss) |-> downcast(XLEN, ss[j])])
Trivials(n, c) == Listed([j \in 1 .. n |-> ring_promote_to_trivial_share(c)])

SumOutput(ins) ==
    Casts(Listed([j \in 1 .. Len(ins) |-> downcast(XLEN, ring_add(U64, Arith64(ins[j][1]), Arith64(ins[j][2])))]))
DifferenceOutput(ins) ==
    Casts(Listed([j \in 1 .. Len(ins) |-> downcast(XLEN, ring_sub(U64, Arith64(ins[j][1]), Arith64(ins[j][2])))]))
LeftOutput(ins) == Casts(Listed([j \in 1 .. Len(ins) |-> downcast(XLEN, Arith64(ins[j][1]))]))
ProductOutput(ins, t) == Casts(Downcast(ring_mul_vec(U64, Ariths(ins, 1), Ariths(ins, 2), t)))
WideProductBits(ins, t) ==
    ring_a2b_many(Wide, ring_mul_vec(Wide, ArithWides(ins, 1), ArithWides(ins, 2), t), t + 20)
UpperProductOutput(ins, t) ==
    LET bits == WideProductBits(ins, t)
    IN CastsB2A(Listed([j \in 1 .. Len(ins) |-> downcast(XLEN, ShiftR(bits[j], XLEN))]))
AndOutput(ins, t) == CastsB2A(ring_and_many(XLEN, Binaries(ins, 1), Binaries(ins, 2), t))
AndnOutput(ins, t) ==
    CastsB2A(ring_and_many(XLEN, Binaries(ins, 1), Listed([j \in 1 .. Len(ins) |-> ring_not(XLEN, Binary(ins[j][2]))]), t))
OrOutput(ins, t) == CastsB2A(ring_or_many(XLEN, Binaries(ins, 1), Binaries(ins, 2), t))
XorOutput(ins) == CastsB2A(Listed([j \in 1 .. Len(ins) |-> binary_xor(Binary(ins[j][1]), Binary(ins[j][2]))]))
GeBits(ins, t) == ring_ge_many(XLEN, Binaries(ins, 1), Binaries(ins, 2), t)
\* with the sign bits flipped, signed order is unsigned order
Flipped(o) == xor_public(Binary(o), 2 ^ (XLEN - 1))
Flips(ins, side) == Listed([j \in 1 .. Len(ins) |-> Flipped(ins[j][side])])
SignedGeBits(ins, t) == ring_ge_many(XLEN, Flips(ins, 1), Flips(ins, 2), t)
LteOutput(ins, t) == Injects(ring_ge_many(XLEN, Binaries(ins, 2), Binaries(ins, 1), t))
EqBits(ins, t) == ring_eq_many(U64, Ariths(ins, 1), Ariths(ins, 2), t)
NoOverflowOutput(ins, t) ==
    LET bits == WideProductBits(ins, t)
    IN Injects(ring_is_zero_many(Wide, Listed([j \in 1 .. Len(ins) |-> ShiftR(bits[j], XLEN)]), t + 120))
AlignedOutput(ins, mask, t) ==
    LET sums == ring_add_many(XLEN, Binaries(ins, 1), Binaries(ins, 2), t)
    IN Injects(ring_is_zero_many(XLEN, Listed([j \in 1 .. Len(ins) |-> AndAll(sums[j], mask)]), t + 100))
\* divisor = 0 is not looked at: the remainder is
ValidRemainderOutput(ins, t) ==
    LET zero == ring_is_zero_many(XLEN, Binaries(ins, 1), t)
        less == ring_lt_many(XLEN, Binaries(ins, 1), Binaries(ins, 2), t + 60)
    IN CastsB2A(Downcast(ring_or_many(U64, zero, less, t + 160)))
ValidDiv0Output(ins, t) ==
    LET n == Len(ins)
        zero == ring_is_zero_many(XLEN, Binaries(ins, 1), t)
        max == ring_eq_many(U64, Ariths(ins, 2), Trivials(n, Mask(U32)), t + 60)
    IN CastsB2A(Downcast(ring_binary_cmux_many(
           U64, zero, max, Listed([j \in 1 .. n |-> binary_promote_to_trivial_share(1)]), t + 260)))
MovsignOutput(ins, t) ==
    LET positive == ring_is_zero_many(XLEN, Listed([j \in 1 .. Len(ins) |-> ShiftR(Binary(ins[j][1]), XLEN - 1)]), t)
    IN CastsB2A(Listed([j \in 1 .. Len(ins) |-> downcast(XLEN, ring_mul_public(U64, ring_not(1, positive[j]), Mask(U32)))]))
\* a bitwise choice between arithmetic sharings, made by a condition in bit 0
ChangeDivisorOutput(ins, t) ==
    LET n == Len(ins)
        minus_one == ring_eq_many(U64, Ariths(ins, 2), Trivials(n, Mask(U32)), t)
        int_min == ring_eq_many(U64, Ariths(ins, 1), Trivials(n, 2 ^ (U32 - 1)), t + 200)
        both == ring_and_many(1, minus_one, int_min, t + 400)
    IN CastsB2A(Downcast(ring_binary_cmux_many(U64, both, Trivials(n, 1), Ariths(ins, 2), t + 420)))
\* rotations permute the bits of every half
RotateEach(s, n, width) == Listed([i \in Parties |-> [a |-> V!RotateRight(s[i].a, n, width), b |-> V!RotateRight(s[i].b, n, width)]])
trailing_zeros_u32(v) == IF v % 2 ^ U32 = 0 THEN U32 ELSE V!TrailingZeros(v % 2 ^ U32)
RotriOutput(ins) ==
    CastsB2A(Listed([j \in 1 .. Len(ins) |-> RotateEach(Binary(ins[j][1]), trailing_zeros_u32(as_public(ins[j][2])), XLEN)]))
RotriwOutput(ins) ==
    CastsB2A(Listed([j \in 1 .. Len(ins) |-> RotateEach(downcast(U32, Binary(ins[j][1])), trailing_zeros_u32(as_public(ins[j][2])), U32)]))
XorrotOutput(ins, rot) ==
    CastsB2A(Listed([j \in 1 .. Len(ins) |-> RotateEach(binary_xor(Binary(ins[j][1]), Binary(ins[j][2])), rot % XLEN, XLEN)]))
XorrotwOutput(ins, rot) ==
    CastsB2A(Listed([j \in 1 .. Len(ins) |-> RotateEach(downcast(U32, binary_xor(Binary(ins[j][1]), Binary(ins[j][2]))), rot % U32, U32)]))
\* the four bytes of a u32
swap_bytes(v) ==
    LET w == U32 \div 4
        byte(k) == (v \div 2 ^ (w * k)) % 2 ^ w
    IN byte(3) + byte(2) * 2 ^ w + byte(1) * 2 ^ (2 * w) + byte(0) * 2 ^ (3 * w)
SwapEach(s) == Listed([i \in Parties |-> [a |-> swap_bytes(s[i].a), b |-> swap_bytes(s[i].b)]])
Rev8wOutput(ins) ==
    CastsB2A(Listed([j \in 1 .. Len(ins) |-> SwapEach(downcast(U32, Binary(ins[j][1])))]))
\* the bits of x at the mask's ones, packed
SrlShare(x, mask) ==
    LET ones(k) == Cardinality({i \in 0 .. k - 1 : Bit(mask, i) = 1})
        sum[k \in 0 .. XLEN] ==
            IF k = 0 THEN ZeroShare
            ELSE IF Bit(mask, k - 1) = 1
                 THEN ring_add(XLEN, sum[k - 1], ring_mul_public(XLEN, get_bit(x, k - 1), 2 ^ ones(k - 1)))
                 ELSE sum[k - 1]
    IN sum[XLEN]
\* counted from the top bit, which is left out
SignExtensionOf(mask) ==
    LET sum[i \in 0 .. XLEN - 1] ==
            IF i = 0 THEN 0 ELSE sum[i - 1] + (1 - Bit(mask, XLEN - 1 - i)) * 2 ^ i
    IN sum[XLEN - 1]
SrlOutput(ins) ==
    CastsB2A(Listed([j \in 1 .. Len(ins) |-> SrlShare(operand_to_binary_wide(ins[j][1]), as_public(ins[j][2]))]))
SraOutput(ins) ==
    CastsB2A(Listed([j \in 1 .. Len(ins) |-> LET x == operand_to_binary_wide(ins[j][1])
            mask == as_public(ins[j][2])
        IN ring_add(XLEN, SrlShare(x, mask),
                    ring_mul_public(XLEN, get_bit(x, XLEN - 1), SignExtensionOf(mask)))]))
Pow2Output(ins) ==
    Listed([j \in 1 .. Len(ins) |-> Ready(promote_to_trivial_share(Fp(2 ^ (as_public(ins[j][1]) % XLEN))))])
\* the register form reads the left operand, the immediate form the right one
Pow2wOutput(ins, side) ==
    Listed([j \in 1 .. Len(ins) |-> Ready(promote_to_trivial_share(Fp(2 ^ (as_public(ins[j][side]) % U32))))])
BitmaskOutput(ins) ==
    Listed([j \in 1 .. Len(ins) |-> LET shift == as_public(ins[j][1]) % XLEN
        IN Ready(promote_to_trivial_share(Fp((2 ^ (XLEN - shift) - 1) * 2 ^ shift)))])
ZeroExtendOutput(ins) ==
    CastsB2A(Listed([j \in 1 .. Len(ins) |-> AndAll(Binary(ins[j][1]), Mask(XLEN \div 2))]))
\* the condition bit is copied to every position before it chooses the upper half
SignExtendOutput(ins, t) ==
    LET n == Len(ins)
        half == XLEN \div 2
        positive == ring_is_zero_many(XLEN, Listed([j \in 1 .. n |-> AndAll(Binary(ins[j][1]), 2 ^ (half - 1))]), t)
        every == Listed([j \in 1 .. n |-> Listed([i \in Parties |-> [a |-> (0 - positive[j][i].a) % 2 ^ XLEN, b |-> (0 - positive[j][i].b) % 2 ^ XLEN]])])
        uppers == ring_binary_cmux_many(
                      XLEN, every, Listed([j \in 1 .. n |-> ZeroShare]),
                      Listed([j \in 1 .. n |-> binary_promote_to_trivial_share(Mask(XLEN) - Mask(half))]), t + 60)
    IN CastsB2A(Listed([j \in 1 .. n |-> binary_xor(AndAll(Binary(ins[j][1]), Mask(half)), uppers[j])]))
AdviceOutput(ss) == Listed([j \in 1 .. Len(ss) |-> cast_to_field_b2a(downcast(XLEN, AdviceIndex(ss[j]).s))])

to_lookup_output_batched(ss, t) ==
    LET ins == Listed([j \in 1 .. Len(ss) |-> to_instruction_inputs(ss[j])])
        out == Rep3Cycle_row(ss[1].i.op).output
    IN CASE out = "sum" -> SumOutput(ins)
         [] out = "difference" -> DifferenceOutput(ins)
         [] out = "left" -> LeftOutput(ins)
         [] out = "product" -> ProductOutput(ins, t)
         [] out = "upper_product" -> UpperProductOutput(ins, t)
         [] out = "and" -> AndOutput(ins, t)
         [] out = "andn" -> AndnOutput(ins, t)
         [] out = "or" -> OrOutput(ins, t)
         [] out = "xor" -> XorOutput(ins)
         [] out = "lt" -> Injects(Nots(GeBits(ins, t)))
         [] out = "ge" -> Injects(GeBits(ins, t))
         [] out = "signed_lt" -> Injects(Nots(SignedGeBits(ins, t)))
         [] out = "signed_ge" -> Injects(SignedGeBits(ins, t))
         [] out = "lte" -> LteOutput(ins, t)
         [] out = "eq" -> Injects(EqBits(ins, t))
         [] out = "neq" -> Injects(Nots(EqBits(ins, t)))
         [] out = "no_overflow" -> NoOverflowOutput(ins, t)
         [] out = "halfword_aligned" -> AlignedOutput(ins, 1, t)
         [] out = "word_aligned" -> AlignedOutput(ins, 3, t)
         [] out = "valid_remainder" -> ValidRemainderOutput(ins, t)
         [] out = "valid_div0" -> ValidDiv0Output(ins, t)
         [] out = "movsign" -> MovsignOutput(ins, t)
         [] out = "change_divisor" -> ChangeDivisorOutput(ins, t)
         [] out = "rotri" -> RotriOutput(ins)
         [] out = "rotriw" -> RotriwOutput(ins)
         [] out = "xorrot" -> XorrotOutput(ins, ss[1].i.imm)
         [] out = "xorrotw" -> XorrotwOutput(ins, ss[1].i.imm)
         [] out = "rev8w" -> Rev8wOutput(ins)
         [] out = "srl" -> SrlOutput(ins)
         [] out = "sra" -> SraOutput(ins)
         [] out = "pow2" -> Pow2Output(ins)
         [] out = "pow2w" -> Pow2wOutput(ins, 1)
         [] out = "pow2iw" -> Pow2wOutput(ins, 2)
         [] out = "bitmask" -> BitmaskOutput(ins)
         [] out = "zero_extend" -> ZeroExtendOutput(ins)
         [] out = "sign_extend" -> SignExtendOutput(ins, t)
         [] out = "advice" -> AdviceOutput(ss)
         [] out = "zero" -> Listed([j \in 1 .. Len(ss) |-> Ready(ZeroShare)])
=============================================================================
