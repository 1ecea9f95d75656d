----------------------------- MODULE Expansion ------------------------------
(***************************************************************************)
(* The inline sequences of jolt-tracer (64-bit build): what the tracer runs*)
(* in place of an instruction the proof system has no lookup for.  Each    *)
(* operator gives the instructions one inline_sequence emits, with the     *)
(* number of virtual registers it allocates; expand emits nested           *)
(* sequences as InstrAssembler does, the outer guards still held.  Shift   *)
(* amounts and masks of the 64-bit build are written in terms of XLEN.     *)
(***************************************************************************)
EXTENDS Isa, SequencesExt

CONSTANTS RegisterCount, ReservedCount    \* 32 and 16 in the code
ASSUME RegisterAssumption == RegisterCount \in Nat \ {0} /\ ReservedCount \in Nat \ {0}

\* the fields of an emitted instruction; finalize numbers the sequence later
Emit(op, rd, rs1, rs2, imm) ==
    [op |-> op, rd |-> rd, rs1 |-> rs1, rs2 |-> rs2, imm |-> imm,
     addr |-> 0, rem |-> 0, comp |-> FALSE, adv |-> NoAdvice]
emit_r(op, rd, rs1, rs2) == Emit(op, rd, rs1, rs2, 0)
emit_i(op, rd, rs1, imm) == Emit(op, rd, rs1, 0, Wrap(imm))
emit_s(op, rs1, rs2, imm) == Emit(op, 0, rs1, rs2, imm)
emit_ld(op, rd, rs1, imm) == Emit(op, rd, rs1, 0, imm)
emit_b(op, rs1, rs2) == Emit(op, 0, rs1, rs2, 0)
emit_j(op, rd) == Emit(op, rd, 0, 0, 0)
emit_u(op, rd, imm) == Emit(op, rd, 0, 0, imm)
emit_vshift_i(op, rd, rs1, imm) == Emit(op, rd, rs1, 0, imm)
emit_vshift_r(op, rd, rs1, rs2) == Emit(op, rd, rs1, rs2, 0)
emit_halign(op, rs1, imm) == Emit(op, 0, rs1, 0, imm)

\* VirtualRegisterAllocator::allocate takes the lowest free register.  Guards
\* are dropped only when their inline_sequence returns, so the registers held
\* are always the first h, and the k-th one allocated on top of them is:
allocate(h, k) == RegisterCount + h + k
\* a sequence with the number of virtual registers it allocates
Alloc(n, code) == [regs |-> n, code |-> code]

(***************************************************************************)
(* Word arithmetic, multiplication and shifts                              *)
(***************************************************************************)
SextRd(i) == emit_i("VirtualSignExtendWord", i.rd, i.rd, 0)
ADDIW_seq(i, h) == Alloc(0, << emit_i("ADDI", i.rd, i.rs1, i.imm), SextRd(i) >>)
ADDW_seq(i, h) == Alloc(0, << emit_r("ADD", i.rd, i.rs1, i.rs2), SextRd(i) >>)
SUBW_seq(i, h) == Alloc(0, << emit_r("SUB", i.rd, i.rs1, i.rs2), SextRd(i) >>)
MULW_seq(i, h) == Alloc(0, << emit_r("MUL", i.rd, i.rs1, i.rs2), SextRd(i) >>)

MULH_seq(i, h) ==
    LET sx == allocate(h, 0) sy == allocate(h, 1) v == allocate(h, 2)
    IN Alloc(3, << emit_i("VirtualMovsign", sx, i.rs1, 0),
                   emit_i("VirtualMovsign", sy, i.rs2, 0),
                   emit_r("MULHU", v, i.rs1, i.rs2),
                   emit_r("MUL", sx, sx, i.rs2),
                   emit_r("MUL", sy, sy, i.rs1),
                   emit_r("ADD", v, v, sx),
                   emit_r("ADD", i.rd, v, sy) >>)

MULHSU_seq(i, h) ==
    LET sx == allocate(h, 0) sx0 == allocate(h, 1) abs == allocate(h, 2)
        hi == allocate(h, 3) lo == allocate(h, 4) tmp == allocate(h, 5)
        carry == allocate(h, 6)
    IN Alloc(7, << emit_i("VirtualMovsign", sx, i.rs1, 0),
                   emit_i("ANDI", sx0, sx, 1),
                   emit_r("XOR", abs, i.rs1, sx),
                   emit_r("ADD", abs, abs, sx0),
                   emit_r("MULHU", hi, abs, i.rs2),
                   emit_r("MUL", lo, abs, i.rs2),
                   emit_r("XOR", hi, hi, sx),
                   emit_r("XOR", lo, lo, sx),
                   emit_r("ADD", tmp, lo, sx0),
                   emit_r("SLTU", carry, tmp, lo),
                   emit_r("ADD", i.rd, hi, carry) >>)

SLL_seq(i, h) ==
    LET v == allocate(h, 0)
    IN Alloc(1, << emit_i("VirtualPow2", v, i.rs2, 0), emit_r("MUL", i.rd, i.rs1, v) >>)
SLLI_seq(i, h) == Alloc(0, << emit_i("VirtualMULI", i.rd, i.rs1, 2 ^ (i.imm % XLEN)) >>)
SLLW_seq(i, h) ==
    LET v == allocate(h, 0)
    IN Alloc(1, << emit_i("VirtualPow2W", v, i.rs2, 0),
                   emit_r("MUL", i.rd, i.rs1, v), SextRd(i) >>)
SLLIW_seq(i, h) ==
    Alloc(0, << emit_i("VirtualMULI", i.rd, i.rs1, 2 ^ (i.imm % WordLen)), SextRd(i) >>)

SRL_seq(i, h) ==
    LET v == allocate(h, 0)
    IN Alloc(1, << emit_i("VirtualShiftRightBitmask", v, i.rs2, 0),
                   emit_vshift_r("VirtualSRL", i.rd, i.rs1, v) >>)
SRLI_seq(i, h) ==
    Alloc(0, << emit_vshift_i("VirtualSRLI", i.rd, i.rs1, ShiftBitmask(i.imm % XLEN, XLEN)) >>)
SRLW_seq(i, h) ==
    LET b == allocate(h, 0) v == allocate(h, 1)
    IN Alloc(2, << emit_i("SLLI", v, i.rs1, WordLen),
                   emit_i("ORI", b, i.rs2, WordLen),
                   emit_i("VirtualShiftRightBitmask", b, b, 0),
                   emit_vshift_r("VirtualSRL", i.rd, v, b), SextRd(i) >>)
SRLIW_seq(i, h) ==
    LET v == allocate(h, 0)
    IN Alloc(1, << emit_i("SLLI", v, i.rs1, WordLen),
                   emit_vshift_i("VirtualSRLI", i.rd, v,
                                 ShiftBitmask(WordLen + (i.imm % WordLen), XLEN)),
                   SextRd(i) >>)
SRA_seq(i, h) ==
    LET v == allocate(h, 0)
    IN Alloc(1, << emit_i("VirtualShiftRightBitmask", v, i.rs2, 0),
                   emit_vshift_r("VirtualSRA", i.rd, i.rs1, v) >>)
SRAI_seq(i, h) ==
    Alloc(0, << emit_vshift_i("VirtualSRAI", i.rd, i.rs1, ShiftBitmask(i.imm % XLEN, XLEN)) >>)
\* Fault: the shift amount keeps the bits above log2 of the word.
SRAW_seqUnmasked(i, h) ==
    LET v == allocate(h, 0) b == allocate(h, 1)
    IN Alloc(2, << emit_i("VirtualSignExtendWord", v, i.rs1, 0),
                   emit_i("VirtualShiftRightBitmask", b, i.rs2, 0),
                   emit_vshift_r("VirtualSRA", i.rd, v, b), SextRd(i) >>)
SRAW_seq(i, h) ==
    LET v == allocate(h, 0) b == allocate(h, 1)
    IN Alloc(2, << emit_i("VirtualSignExtendWord", v, i.rs1, 0),
                   emit_i("ANDI", b, i.rs2, WordLen - 1),
                   emit_i("VirtualShiftRightBitmask", b, b, 0),
                   emit_vshift_r("VirtualSRA", i.rd, v, b), SextRd(i) >>)
SRAIW_seq(i, h) ==
    LET v == allocate(h, 0)
    IN Alloc(1, << emit_i("VirtualSignExtendWord", v, i.rs1, 0),
                   emit_vshift_i("VirtualSRAI", i.rd, v, ShiftBitmask(i.imm % WordLen, XLEN)),
                   SextRd(i) >>)

(***************************************************************************)
(* Division and remainder: quotient and remainder are advice, checked.     *)
(***************************************************************************)
\* MULH is expanded while only a2, a3, t0 and t1 are held; t2 and t3 come after
DIV_seq(i, h) ==
    LET a2 == allocate(h, 0) a3 == allocate(h, 1) t0 == allocate(h, 2)
        t1 == allocate(h, 3) t2 == allocate(h, 4) t3 == allocate(h, 5)
    IN Alloc(6, << emit_j("VirtualAdvice", a2), emit_j("VirtualAdvice", a3),
                   emit_b("VirtualAssertValidDiv0", i.rs2, a2),
                   emit_r("VirtualChangeDivisor", t0, i.rs1, i.rs2) >>
                \o MULH_seq(emit_r("MULH", t1, a2, t0), h + 4).code \o
                << emit_r("MUL", t2, a2, t0),
                   emit_i("SRAI", t3, t2, XLEN - 1),
                   emit_b("VirtualAssertEQ", t1, t3),
                   emit_i("SRAI", t1, i.rs1, XLEN - 1),
                   emit_r("XOR", t3, a3, t1),
                   emit_r("SUB", t3, t3, t1),
                   emit_r("ADD", t2, t2, t3),
                   emit_b("VirtualAssertEQ", t2, i.rs1),
                   emit_i("SRAI", t1, t0, XLEN - 1),
                   emit_r("XOR", t3, t0, t1),
                   emit_r("SUB", t3, t3, t1),
                   emit_b("VirtualAssertValidUnsignedRemainder", a3, t3),
                   emit_i("VirtualMove", i.rd, a2, 0) >>)
REM_seq(i, h) ==
    LET a2 == allocate(h, 0) a3 == allocate(h, 1) t0 == allocate(h, 2)
        t1 == allocate(h, 3) t2 == allocate(h, 4) t3 == allocate(h, 5)
    IN Alloc(6, << emit_j("VirtualAdvice", a2), emit_j("VirtualAdvice", a3),
                   emit_b("VirtualAssertValidDiv0", i.rs2, a2),
                   emit_r("VirtualChangeDivisor", t0, i.rs1, i.rs2),
                   emit_r("MUL", t1, a2, t0),
                   emit_i("SRAI", t2, i.rs1, XLEN - 1),
                   emit_r("XOR", t3, a3, t2),
                   emit_r("SUB", t3, t3, t2),
                   emit_r("ADD", t1, t1, t3),
                   emit_b("VirtualAssertEQ", t1, i.rs1),
                   emit_i("SRAI", t2, t0, XLEN - 1),
                   emit_r("XOR", t1, t0, t2),
                   emit_r("SUB", t1, t1, t2),
                   emit_b("VirtualAssertValidUnsignedRemainder", a3, t1),
                   emit_i("VirtualMove", i.rd, t3, 0) >>)
DIVU_seq(i, h) ==
    LET a2 == allocate(h, 0) a3 == allocate(h, 1) t0 == allocate(h, 2)
    IN Alloc(3, << emit_j("VirtualAdvice", a2), emit_j("VirtualAdvice", a3),
                   emit_b("VirtualAssertValidDiv0", i.rs2, a2),
                   emit_b("VirtualAssertMulUNoOverflow", a2, i.rs2),
                   emit_r("MUL", t0, a2, i.rs2),
                   emit_r("ADD", t0, t0, a3),
                   emit_b("VirtualAssertEQ", t0, i.rs1),
                   emit_b("VirtualAssertValidUnsignedRemainder", a3, i.rs2),
                   emit_i("VirtualMove", i.rd, a2, 0) >>)
REMU_seq(i, h) ==
    LET a2 == allocate(h, 0) a3 == allocate(h, 1) t0 == allocate(h, 2)
    IN Alloc(3, << emit_j("VirtualAdvice", a2), emit_j("VirtualAdvice", a3),
                   emit_r("MUL", t0, a2, i.rs2),
                   emit_r("ADD", t0, t0, a3),
                   emit_b("VirtualAssertEQ", t0, i.rs1),
                   emit_b("VirtualAssertValidUnsignedRemainder", a3, i.rs2),
                   emit_i("VirtualMove", i.rd, a3, 0) >>)
DIVW_seq(i, h) ==
    LET a2 == allocate(h, 0) a3 == allocate(h, 1) t0 == allocate(h, 2)
        t1 == allocate(h, 3) t2 == allocate(h, 4) t3 == allocate(h, 5)
        t4 == allocate(h, 6)
    IN Alloc(7, << emit_j("VirtualAdvice", a2), emit_j("VirtualAdvice", a3),
                   emit_i("VirtualSignExtendWord", t4, i.rs1, 0),
                   emit_i("VirtualSignExtendWord", t3, i.rs2, 0),
                   emit_b("VirtualAssertValidDiv0", t3, a2),
                   emit_r("VirtualChangeDivisorW", t0, t4, t3),
                   emit_r("MULW", t1, a2, t0),
                   emit_r("MUL", t2, a2, t0),
                   emit_b("VirtualAssertEQ", t1, t2),
                   emit_i("SRAI", t2, t4, WordLen - 1),
                   emit_r("XOR", t3, a3, t2),
                   emit_r("SUB", t3, t3, t2),
                   emit_r("ADDW", t1, t1, t3),
                   emit_b("VirtualAssertEQ", t1, t4),
                   emit_i("SRAI", t2, t0, WordLen - 1),
                   emit_r("XOR", t1, t0, t2),
                   emit_r("SUB", t1, t1, t2),
                   emit_b("VirtualAssertValidUnsignedRemainder", a3, t1),
                   emit_i("VirtualSignExtendWord", i.rd, a2, 0) >>)
REMW_seq(i, h) ==
    LET a2 == allocate(h, 0) a3 == allocate(h, 1) t0 == allocate(h, 2)
        t1 == allocate(h, 3) t2 == allocate(h, 4) t3 == allocate(h, 5)
        t4 == allocate(h, 6)
    IN Alloc(7, << emit_j("VirtualAdvice", a2), emit_j("VirtualAdvice", a3),
                   emit_i("VirtualSignExtendWord", t4, i.rs1, 0),
                   emit_i("VirtualSignExtendWord", t3, i.rs2, 0),
                   emit_b("VirtualAssertValidDiv0", t3, a2),
                   emit_r("VirtualChangeDivisorW", t0, t4, t3),
                   emit_r("MULW", t1, a2, t0),
                   emit_i("SRAI", t2, t4, WordLen - 1),
                   emit_r("XOR", t3, a3, t2),
                   emit_r("SUB", t3, t3, t2),
                   emit_r("ADDW", t1, t1, t3),
                   emit_b("VirtualAssertEQ", t1, t4),
                   emit_i("SRAI", t2, t0, WordLen - 1),
                   emit_r("XOR", t1, t0, t2),
                   emit_r("SUB", t1, t1, t2),
                   emit_b("VirtualAssertValidUnsignedRemainder", a3, t1),
                   emit_i("VirtualSignExtendWord", i.rd, t3, 0) >>)
DIVUW_seq(i, h) ==
    LET a2 == allocate(h, 0) a3 == allocate(h, 1) t0 == allocate(h, 2)
        t1 == allocate(h, 3) t2 == allocate(h, 4) t3 == allocate(h, 5)
        t4 == allocate(h, 6)
    IN Alloc(7, << emit_j("VirtualAdvice", a2), emit_j("VirtualAdvice", a3),
                   emit_i("VirtualZeroExtendWord", t3, i.rs1, 0),
                   emit_i("VirtualZeroExtendWord", t4, i.rs2, 0),
                   emit_b("VirtualAssertValidDiv0", t4, a2),
                   emit_i("VirtualZeroExtendWord", t2, a2, 0),
                   emit_r("MUL", t0, t2, t4),
                   emit_r("MULHU", t1, t2, t4),
                   emit_b("VirtualAssertEQ", t1, 0),
                   emit_r("ADD", t0, t0, a3),
                   emit_b("VirtualAssertEQ", t0, t3),
                   emit_b("VirtualAssertValidUnsignedRemainder", a3, t4),
                   emit_i("VirtualSignExtendWord", i.rd, a2, 0) >>)
REMUW_seq(i, h) ==
    LET a2 == allocate(h, 0) a3 == allocate(h, 1) t0 == allocate(h, 2)
        t1 == allocate(h, 3) t2 == allocate(h, 4) t3 == allocate(h, 5)
    IN Alloc(6, << emit_j("VirtualAdvice", a2), emit_j("VirtualAdvice", a3),
                   emit_i("VirtualZeroExtendWord", t1, i.rs1, 0),
                   emit_i("VirtualZeroExtendWord", t2, i.rs2, 0),
                   emit_i("VirtualZeroExtendWord", t3, a2, 0),
                   emit_r("MUL", t0, t3, t2),
                   emit_r("ADD", t0, t0, a3),
                   emit_b("VirtualAssertEQ", t0, t1),
                   emit_b("VirtualAssertValidUnsignedRemainder", a3, t2),
                   emit_i("VirtualSignExtendWord", i.rd, a3, 0) >>)

(***************************************************************************)
(* Sub-doubleword loads and stores: read the aligned doubleword, shift.    *)
(***************************************************************************)
ByteShift == IF ByteLen = 1 THEN 0 ELSE 1        \* log2 of the byte width: 3
\* addr := rs1 + imm; base := addr & -8; dword := the doubleword at base
LoadDword(i, addr, base, dword) ==
    << emit_i("ADDI", addr, i.rs1, i.imm), emit_i("ANDI", base, addr, -8),
       emit_ld("LD", dword, base, 0) >>
\* the loaded bytes are shifted to the top of rd, then back down with `down`
LoadSeq(i, h, flip, down, amount) ==
    LET addr == allocate(h, 0) base == allocate(h, 1)
        dword == allocate(h, 2) shift == allocate(h, 3)
    IN LoadDword(i, addr, base, dword) \o
       << emit_i("XORI", shift, addr, flip), emit_i("SLLI", shift, shift, ByteShift),
          emit_r("SLL", i.rd, dword, shift), emit_i(down, i.rd, i.rd, amount) >>
HalfAligned(i) == << emit_halign("VirtualAssertHalfwordAlignment", i.rs1, i.imm) >>
WordAligned(i) == << emit_halign("VirtualAssertWordAlignment", i.rs1, i.imm) >>
LB_seq(i, h) == Alloc(4, LoadSeq(i, h, 7, "SRAI", XLEN - ByteLen))
LBU_seq(i, h) == Alloc(4, LoadSeq(i, h, 7, "SRLI", XLEN - ByteLen))
LH_seq(i, h) == Alloc(4, HalfAligned(i) \o LoadSeq(i, h, 6, "SRAI", XLEN - HalfLen))
LHU_seq(i, h) == Alloc(4, HalfAligned(i) \o LoadSeq(i, h, 6, "SRLI", XLEN - HalfLen))
LWU_seq(i, h) == Alloc(4, WordAligned(i) \o LoadSeq(i, h, 4, "SRLI", XLEN - WordLen))
LW_seq(i, h) ==
    LET addr == allocate(h, 0) base == allocate(h, 1)
        dword == allocate(h, 2) shift == allocate(h, 3)
    IN Alloc(4, WordAligned(i) \o LoadDword(i, addr, base, dword) \o
                << emit_i("SLLI", shift, addr, ByteShift),
                   emit_r("SRL", i.rd, dword, shift), SextRd(i) >>)

\* replace the bits of dword under mask << shift by those of rs2 << shift
MergeStore(rs2, base, dword, shift, mask, part) ==
    << emit_r("SLL", mask, mask, shift), emit_r("SLL", part, rs2, shift),
       emit_r("XOR", part, dword, part), emit_r("AND", part, part, mask),
       emit_r("XOR", dword, dword, part), emit_s("SD", base, dword, 0) >>
StoreSeq(i, h, setmask(_)) ==
    LET addr == allocate(h, 0) base == allocate(h, 1) dword == allocate(h, 2)
        shift == allocate(h, 3) mask == allocate(h, 4) part == allocate(h, 5)
    IN LoadDword(i, addr, base, dword)
       \o << emit_i("SLLI", shift, addr, ByteShift) >> \o setmask(mask)
       \o MergeStore(i.rs2, base, dword, shift, mask, part)
WordMask(mask) == << emit_i("ORI", mask, 0, -1), emit_i("SRLI", mask, mask, WordLen) >>
SB_seq(i, h) ==
    LET m(r) == << emit_u("LUI", r, 2 ^ ByteLen - 1) >> IN Alloc(6, StoreSeq(i, h, m))
SH_seq(i, h) ==
    LET m(r) == << emit_u("LUI", r, 2 ^ HalfLen - 1) >>
    IN Alloc(6, HalfAligned(i) \o StoreSeq(i, h, m))
SW_seq(i, h) == Alloc(6, WordAligned(i) \o StoreSeq(i, h, WordMask))

(***************************************************************************)
(* Atomics                                                                 *)
(***************************************************************************)
amo_pre64(i, rd, base, dword, shift) ==
    << emit_halign("VirtualAssertWordAlignment", i.rs1, 0),
       emit_i("ANDI", base, i.rs1, -8), emit_ld("LD", dword, base, 0),
       emit_i("SLLI", shift, i.rs1, ByteShift), emit_r("SRL", rd, dword, shift) >>
amo_post64(i, rs2, base, dword, shift, mask, word, rd) ==
    WordMask(mask) \o MergeStore(rs2, base, dword, shift, mask, word)
    \o << emit_i("VirtualSignExtendWord", i.rd, rd, 0) >>
AmoD(i, h, op) ==
    LET v == allocate(h, 0) old == allocate(h, 1)
    IN Alloc(2, << emit_ld("LD", old, i.rs1, 0), emit_r(op, v, old, i.rs2),
                   emit_s("SD", i.rs1, v, 0), emit_i("VirtualMove", i.rd, old, 0) >>)
\* v := sel2 * rs2 + (1 - sel2) * old, sel2 the comparison that prefers rs2
SelectRs2(i, v, old, sel2, sel, tmp) ==
    << emit_i("XORI", sel, sel2, 1), emit_r("MUL", v, sel2, i.rs2),
       emit_r("MUL", tmp, sel, old), emit_r("ADD", v, tmp, v) >>
AmoSelectD(i, h, lt, takeMin) ==
    LET v == allocate(h, 0) old == allocate(h, 1) sel2 == allocate(h, 2)
        sel == allocate(h, 3) tmp == allocate(h, 4)
        compare == IF takeMin THEN emit_r(lt, sel2, i.rs2, old)
                   ELSE emit_r(lt, sel2, old, i.rs2)
    IN Alloc(5, << emit_ld("LD", old, i.rs1, 0), compare >>
                \o SelectRs2(i, v, old, sel2, sel, tmp) \o
                << emit_s("SD", i.rs1, v, 0), emit_i("VirtualMove", i.rd, old, 0) >>)
AMOADDD_seq(i, h) == AmoD(i, h, "ADD")
AMOANDD_seq(i, h) == AmoD(i, h, "AND")
AMOORD_seq(i, h) == AmoD(i, h, "OR")
AMOXORD_seq(i, h) == AmoD(i, h, "XOR")
AMOSWAPD_seq(i, h) ==
    LET old == allocate(h, 0)
    IN Alloc(1, << emit_ld("LD", old, i.rs1, 0), emit_s("SD", i.rs1, i.rs2, 0),
                   emit_i("VirtualMove", i.rd, old, 0) >>)
AMOMIND_seq(i, h) == AmoSelectD(i, h, "SLT", TRUE)
AMOMAXD_seq(i, h) == AmoSelectD(i, h, "SLT", FALSE)
AMOMINUD_seq(i, h) == AmoSelectD(i, h, "SLTU", TRUE)
AMOMAXUD_seq(i, h) == AmoSelectD(i, h, "SLTU", FALSE)

\* pre64, the instructions that compute the new word into v, post64
AmoW(i, h, first, body(_, _)) ==
    LET old == allocate(h, 0) v == allocate(h, 1)
        mask == allocate(h, first) base == allocate(h, first + 1)
        dword == allocate(h, first + 2) word == allocate(h, first + 3)
        shift == allocate(h, first + 4)
    IN Alloc(first + 5, amo_pre64(i, old, base, dword, shift) \o body(old, v)
                        \o amo_post64(i, v, base, dword, shift, mask, word, old))
AmoSelectW(i, h, ext, lt, takeMin) ==
    LET sel2 == allocate(h, 2) sel == allocate(h, 3) tmp == allocate(h, 4)
        body(old, v) ==
            << emit_i(ext, v, i.rs2, 0), emit_i(ext, tmp, old, 0),
               IF takeMin THEN emit_r(lt, sel2, v, tmp) ELSE emit_r(lt, sel2, tmp, v) >>
            \o SelectRs2(i, v, old, sel2, sel, tmp)
    IN AmoW(i, h, 5, body)
AMOADDW_seq(i, h) == LET b(o, v) == << emit_r("ADD", v, o, i.rs2) >> IN AmoW(i, h, 2, b)
AMOANDW_seq(i, h) == LET b(o, v) == << emit_r("AND", v, o, i.rs2) >> IN AmoW(i, h, 2, b)
AMOORW_seq(i, h) == LET b(o, v) == << emit_r("OR", v, o, i.rs2) >> IN AmoW(i, h, 2, b)
AMOXORW_seq(i, h) ==
    LET v == allocate(h, 0) old == allocate(h, 1)
    IN Alloc(2, << emit_ld("LW", old, i.rs1, 0), emit_r("XOR", v, old, i.rs2),
                   emit_s("SW", i.rs1, v, 0), emit_i("VirtualMove", i.rd, old, 0) >>)
AMOSWAPW_seq(i, h) ==
    LET mask == allocate(h, 0) base == allocate(h, 1) dword == allocate(h, 2)
        word == allocate(h, 3) shift == allocate(h, 4) old == allocate(h, 5)
    IN Alloc(6, amo_pre64(i, old, base, dword, shift)
                \o amo_post64(i, i.rs2, base, dword, shift, mask, word, old))
AMOMINW_seq(i, h) == AmoSelectW(i, h, "VirtualSignExtendWord", "SLT", TRUE)
AMOMAXW_seq(i, h) == AmoSelectW(i, h, "VirtualSignExtendWord", "SLT", FALSE)
AMOMINUW_seq(i, h) == AmoSelectW(i, h, "VirtualZeroExtendWord", "SLTU", TRUE)
AMOMAXUW_seq(i, h) == AmoSelectW(i, h, "VirtualZeroExtendWord", "SLTU", FALSE)

\* Instruction::inline_sequence: the default is the instruction itself
Expanded == { "ADDIW", "ADDW", "SUBW", "MULW", "MULH", "MULHSU", "SLL",
              "SLLI", "SLLW", "SLLIW", "SRL", "SRLI", "SRLW", "SRLIW",
              "SRA", "SRAI", "SRAW", "SRAIW", "DIV", "REM", "DIVU",
              "REMU", "DIVW", "REMW", "DIVUW", "REMUW", "LB", "LBU",
              "LH", "LHU", "LWU", "LW", "SB", "SH", "SW",
              "AMOADDD", "AMOANDD", "AMOORD", "AMOXORD", "AMOSWAPD", "AMOMIND", "AMOMAXD",
              "AMOMINUD", "AMOMAXUD", "AMOADDW", "AMOANDW", "AMOORW", "AMOXORW", "AMOSWAPW",
              "AMOMINW", "AMOMAXW", "AMOMINUW", "AMOMAXUW" }
inline_sequence(i, h) ==
    CASE i.op = "ADDIW" -> ADDIW_seq(i, h)
      [] i.op = "ADDW" -> ADDW_seq(i, h)
      [] i.op = "SUBW" -> SUBW_seq(i, h)
      [] i.op = "MULW" -> MULW_seq(i, h)
      [] i.op = "MULH" -> MULH_seq(i, h)
      [] i.op = "MULHSU" -> MULHSU_seq(i, h)
      [] i.op = "SLL" -> SLL_seq(i, h)
      [] i.op = "SLLI" -> SLLI_seq(i, h)
      [] i.op = "SLLW" -> SLLW_seq(i, h)
      [] i.op = "SLLIW" -> SLLIW_seq(i, h)
      [] i.op = "SRL" -> SRL_seq(i, h)
      [] i.op = "SRLI" -> SRLI_seq(i, h)
      [] i.op = "SRLW" -> SRLW_seq(i, h)
      [] i.op = "SRLIW" -> SRLIW_seq(i, h)
      [] i.op = "SRA" -> SRA_seq(i, h)
      [] i.op = "SRAI" -> SRAI_seq(i, h)
      [] i.op = "SRAW" -> SRAW_seq(i, h)
      [] i.op = "SRAIW" -> SRAIW_seq(i, h)
      [] i.op = "DIV" -> DIV_seq(i, h)
      [] i.op = "REM" -> REM_seq(i, h)
      [] i.op = "DIVU" -> DIVU_seq(i, h)
      [] i.op = "REMU" -> REMU_seq(i, h)
      [] i.op = "DIVW" -> DIVW_seq(i, h)
      [] i.op = "REMW" -> REMW_seq(i, h)
      [] i.op = "DIVUW" -> DIVUW_seq(i, h)
      [] i.op = "REMUW" -> REMUW_seq(i, h)
      [] i.op = "LB" -> LB_seq(i, h)
      [] i.op = "LBU" -> LBU_seq(i, h)
      [] i.op = "LH" -> LH_seq(i, h)
      [] i.op = "LHU" -> LHU_seq(i, h)
      [] i.op = "LWU" -> LWU_seq(i, h)
      [] i.op = "LW" -> LW_seq(i, h)
      [] i.op = "SB" -> SB_seq(i, h)
      [] i.op = "SH" -> SH_seq(i, h)
      [] i.op = "SW" -> SW_seq(i, h)
      [] i.op = "AMOADDD" -> AMOADDD_seq(i, h)
      [] i.op = "AMOANDD" -> AMOANDD_seq(i, h)
      [] i.op = "AMOORD" -> AMOORD_seq(i, h)
      [] i.op = "AMOXORD" -> AMOXORD_seq(i, h)
      [] i.op = "AMOSWAPD" -> AMOSWAPD_seq(i, h)
      [] i.op = "AMOMIND" -> AMOMIND_seq(i, h)
      [] i.op = "AMOMAXD" -> AMOMAXD_seq(i, h)
      [] i.op = "AMOMINUD" -> AMOMINUD_seq(i, h)
      [] i.op = "AMOMAXUD" -> AMOMAXUD_seq(i, h)
      [] i.op = "AMOADDW" -> AMOADDW_seq(i, h)
      [] i.op = "AMOANDW" -> AMOANDW_seq(i, h)
      [] i.op = "AMOORW" -> AMOORW_seq(i, h)
      [] i.op = "AMOXORW" -> AMOXORW_seq(i, h)
      [] i.op = "AMOSWAPW" -> AMOSWAPW_seq(i, h)
      [] i.op = "AMOMINW" -> AMOMINW_seq(i, h)
      [] i.op = "AMOMAXW" -> AMOMAXW_seq(i, h)
      [] i.op = "AMOMINUW" -> AMOMINUW_seq(i, h)
      [] i.op = "AMOMAXUW" -> AMOMAXUW_seq(i, h)

\* InstrAssembler::add_to_sequence: every emitted instruction is expanded in turn.
\* Regs counts the registers held at the deepest point.
RECURSIVE expand(_, _)
InOrder(parts) ==
    [regs |-> Max({parts[k].regs : k \in DOMAIN parts}),
     code |-> FlattenSeq([k \in DOMAIN parts |-> parts[k].code])]
expand_all(seq, h) == InOrder([k \in DOMAIN seq |-> expand(seq[k], h)])
add_to_sequence(a, h) == expand_all(a.code, h + a.regs)
expand(i, h) ==
    IF i.op \notin Expanded THEN [regs |-> h, code |-> <<i>>]
    ELSE add_to_sequence(inline_sequence(i, h), h)

\* InstrAssembler::finalize: countdown to the last instruction, which alone
\* carries the is_compressed flag; all carry the address of the instruction
finalize(i, code) ==
    [k \in 1 .. Len(code) |->
        [code[k] EXCEPT !.addr = i.addr, !.rem = Len(code) - k,
                        !.comp = (k = Len(code)) /\ i.comp]]

(***************************************************************************)
(* The advice `trace` writes into the sequence: quotient and |remainder|   *)
(* of the operands the instruction is about to read.                       *)
(***************************************************************************)
QuotRem(a, b, min, whole) ==      \* signed operands; whole: quotient for b = 0
    IF b = 0 THEN << whole, Magnitude(a) >>
    ELSE IF a = min /\ b = -1 THEN << a, 0 >>
    ELSE << TruncDiv(a, b), Magnitude(TruncRem(a, b)) >>
SignedAdvice(s, i) == QuotRem(Signed(X1(s, i)), Signed(X2(s, i)), -IntMin, -1)
SignedAdviceW(s, i) ==
    QuotRem(SignedWord(X1(s, i)), SignedWord(X2(s, i)), -(2 ^ (WordLen - 1)), -1)
UnsignedAdvice(a, b) == IF b = 0 THEN << Ones, a >> ELSE << a \div b, a % b >>
DIV_advice(s, i) == SignedAdvice(s, i)
REM_advice(s, i) == SignedAdvice(s, i)
DIVW_advice(s, i) == SignedAdviceW(s, i)
REMW_advice(s, i) == SignedAdviceW(s, i)
DIVU_advice(s, i) == UnsignedAdvice(X1(s, i), X2(s, i))
REMU_advice(s, i) == UnsignedAdvice(X1(s, i), X2(s, i))
DIVUW_advice(s, i) == UnsignedAdvice(Low(X1(s, i), WordLen), Low(X2(s, i), WordLen))
REMUW_advice(s, i) == UnsignedAdvice(Low(X1(s, i), WordLen), Low(X2(s, i), WordLen))
Advised == {"DIV", "REM", "DIVU", "REMU", "DIVW", "REMW", "DIVUW", "REMUW"}
advice(s, i) ==
    CASE i.op = "DIV" -> DIV_advice(s, i)
      [] i.op = "REM" -> REM_advice(s, i)
      [] i.op = "DIVU" -> DIVU_advice(s, i)
      [] i.op = "REMU" -> REMU_advice(s, i)
      [] i.op = "DIVW" -> DIVW_advice(s, i)
      [] i.op = "REMW" -> REMW_advice(s, i)
      [] i.op = "DIVUW" -> DIVUW_advice(s, i)
      [] i.op = "REMUW" -> REMUW_advice(s, i)
=============================================================================
