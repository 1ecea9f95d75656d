-------------------------------- MODULE Isa ---------------------------------
(***************************************************************************)
(* The `exec` method of every instruction of jolt-tracer, real and virtual,*)
(* on the 64-bit build: one operator per instruction file, from a machine  *)
(* state to the state after it.  A machine state is a record              *)
(*   x    the register file cpu.x (architectural and virtual registers),  *)
(*   mem  the bytes of guest memory, res the reservation of lr/sc,        *)
(*   pc   the program counter, already advanced past the instruction,     *)
(*   ram  the RAM access of the cycle, ok FALSE once the emulator panics. *)
(* An instruction is a record [op, rd, rs1, rs2, imm, addr, rem, comp,    *)
(* adv]: its operands, address, inline_sequence_remaining (-1 for None),  *)
(* is_compressed and the advice value (NoAdvice for None).                *)
(* imm is what the format stores: unsigned for I, U and J, signed for     *)
(* loads, stores, branches and alignment checks.                          *)
(***************************************************************************)
EXTENDS Word

CONSTANTS DramBase, DramBytes
ASSUME DramAssumption ==
    /\ DramBase % DwordBytes = 0 /\ DramBytes % DwordBytes = 0
    /\ DramBytes > 0 /\ DramBase > 0 /\ DramBase + DramBytes <= Base

NoAdvice == -1
NoReservation == -1
NoRam == [kind |-> "none", addr |-> 0, pre |-> 0, post |-> 0]
Dram == DramBase .. DramBase + DramBytes - 1

\* operand access: cpu.x[rs1], cpu.x[rs2] and the write of cpu.x[rd]
X1(s, i) == s.x[i.rs1]
X2(s, i) == s.x[i.rs2]
\* Fault: the result is not wrapped to the width of a register.
SetRdUnwrapped(s, i, v) == [s EXCEPT !.x[i.rd] = v]
SetRd(s, i, v) == [s EXCEPT !.x[i.rd] = Wrap(v)]
Panic(s) == [s EXCEPT !.ok = FALSE]
Assert_(s, cond) == IF cond THEN s ELSE Panic(s)
Jump(s, cond, target) == IF cond THEN [s EXCEPT !.pc = target] ELSE s

(***************************************************************************)
(* Memory: little-endian bytes, aligned accesses only.                     *)
(***************************************************************************)
read_bytes(mem, a, n) ==
    LET sum[k \in 0 .. n] ==
            IF k = 0 THEN 0
            ELSE sum[k - 1] + mem[a + k - 1] * 2 ^ (ByteLen * (k - 1))
    IN sum[n]
write_bytes(mem, a, n, v) ==
    [b \in DOMAIN mem |->
        IF b \in a .. a + n - 1
        THEN Low(ShiftRight(v, ByteLen * (b - a)), ByteLen) ELSE mem[b]]
accessible(a, n) == a % n = 0 /\ a \in Dram
trace_load(s, a) ==
    [kind |-> "read", addr |-> a, pre |-> read_bytes(s.mem, a, DwordBytes),
     post |-> read_bytes(s.mem, a, DwordBytes)]
trace_store(s, a, v) ==
    [kind |-> "write", addr |-> a, pre |-> read_bytes(s.mem, a, DwordBytes),
     post |-> v]

\* the bytes loaded, extended, go to rd; an unaligned or unmapped access panics
load_bytes(s, i, a, n, signed) ==
    IF ~accessible(a, n) THEN Panic(s)
    ELSE LET v == read_bytes(s.mem, a, n)
             w == IF signed THEN Sext(v, n * ByteLen) ELSE v
             t == SetRd(s, i, w)
         IN IF n = DwordBytes THEN [t EXCEPT !.ram = trace_load(s, a)] ELSE t
store_bytes(s, a, n, v) ==
    IF ~accessible(a, n) THEN Panic(s)
    ELSE LET t == [s EXCEPT !.mem = write_bytes(s.mem, a, n, v)]
         IN IF n = DwordBytes THEN [t EXCEPT !.ram = trace_store(s, a, v)] ELSE t
EffAddr(s, i) == Wrap(X1(s, i) + i.imm)

(***************************************************************************)
(* Arithmetic and logic                                                    *)
(***************************************************************************)
ADD(s, i) == SetRd(s, i, X1(s, i) + X2(s, i))
ADDI(s, i) == SetRd(s, i, X1(s, i) + i.imm)
SUB(s, i) == SetRd(s, i, X1(s, i) - X2(s, i))
AND(s, i) == SetRd(s, i, X1(s, i) & X2(s, i))
ANDI(s, i) == SetRd(s, i, X1(s, i) & i.imm)
ANDN(s, i) == SetRd(s, i, X1(s, i) & Complement(X2(s, i)))
OR(s, i) == SetRd(s, i, X1(s, i) | X2(s, i))
ORI(s, i) == SetRd(s, i, X1(s, i) | i.imm)
XOR(s, i) == SetRd(s, i, X1(s, i) ^^ X2(s, i))
XORI(s, i) == SetRd(s, i, X1(s, i) ^^ i.imm)
SLT(s, i) == SetRd(s, i, BoolBit(Signed(X1(s, i)) < Signed(X2(s, i))))
SLTI(s, i) == SetRd(s, i, BoolBit(Signed(X1(s, i)) < Signed(i.imm)))
SLTU(s, i) == SetRd(s, i, BoolBit(X1(s, i) < X2(s, i)))
SLTIU(s, i) == SetRd(s, i, BoolBit(X1(s, i) < i.imm))
LUI(s, i) == SetRd(s, i, i.imm)
AUIPC(s, i) == SetRd(s, i, i.addr + i.imm)
ADDIW(s, i) == SetRd(s, i, SignedWord(X1(s, i) + i.imm))
ADDW(s, i) == SetRd(s, i, SignedWord(X1(s, i) + X2(s, i)))
SUBW(s, i) == SetRd(s, i, SignedWord(X1(s, i) - X2(s, i)))

(***************************************************************************)
(* Multiplication and division.  Division by zero gives all ones and the   *)
(* dividend as remainder; MIN / -1 overflows to MIN with remainder 0.      *)
(***************************************************************************)
MUL(s, i) == SetRd(s, i, X1(s, i) * X2(s, i))
MULH(s, i) == SetRd(s, i, (Signed(X1(s, i)) * Signed(X2(s, i))) \div Base)
MULHU(s, i) == SetRd(s, i, (X1(s, i) * X2(s, i)) \div Base)
MULHSU(s, i) == SetRd(s, i, (Signed(X1(s, i)) * X2(s, i)) \div Base)
MULW(s, i) == SetRd(s, i, SignedWord(X1(s, i) * X2(s, i)))

DIV(s, i) ==
    LET a == Signed(X1(s, i)) b == Signed(X2(s, i))
    IN SetRd(s, i, IF b = 0 THEN -1
                   ELSE IF a = -IntMin /\ b = -1 THEN a ELSE TruncDiv(a, b))
DIVU(s, i) ==
    SetRd(s, i, IF X2(s, i) = 0 THEN -1 ELSE X1(s, i) \div X2(s, i))
DIVW(s, i) ==
    LET a == SignedWord(X1(s, i)) b == SignedWord(X2(s, i))
    IN SetRd(s, i, IF b = 0 THEN -1
                   ELSE IF a = -(2 ^ (WordLen - 1)) /\ b = -1 THEN a
                   ELSE TruncDiv(a, b))
DIVUW(s, i) ==
    LET a == Low(X1(s, i), WordLen) b == Low(X2(s, i), WordLen)
    IN SetRd(s, i, IF b = 0 THEN -1 ELSE SignedWord(a \div b))
REM(s, i) ==
    LET a == Signed(X1(s, i)) b == Signed(X2(s, i))
    IN SetRd(s, i, IF b = 0 THEN a
                   ELSE IF a = -IntMin /\ b = -1 THEN 0 ELSE TruncRem(a, b))
REMU(s, i) ==
    SetRd(s, i, IF X2(s, i) = 0 THEN X1(s, i) ELSE X1(s, i) % X2(s, i))
REMW(s, i) ==
    LET a == SignedWord(X1(s, i)) b == SignedWord(X2(s, i))
    IN SetRd(s, i, IF b = 0 THEN a
                   ELSE IF a = -(2 ^ (WordLen - 1)) /\ b = -1 THEN 0
                   ELSE TruncRem(a, b))
REMUW(s, i) ==
    LET a == Low(X1(s, i), WordLen) b == Low(X2(s, i), WordLen)
    IN SetRd(s, i, SignedWord(IF b = 0 THEN a ELSE a % b))

(***************************************************************************)
(* Shifts: amounts are masked to log2(XLEN) bits, or to log2 of the word.  *)
(***************************************************************************)
SLL(s, i) == SetRd(s, i, X1(s, i) * 2 ^ (X2(s, i) % XLEN))
SLLI(s, i) == SetRd(s, i, X1(s, i) * 2 ^ (i.imm % XLEN))
SLLW(s, i) == SetRd(s, i, SignedWord(X1(s, i) * 2 ^ (X2(s, i) % WordLen)))
SLLIW(s, i) == SetRd(s, i, SignedWord(X1(s, i) * 2 ^ (i.imm % WordLen)))
SRL(s, i) == SetRd(s, i, ShiftRight(X1(s, i), X2(s, i) % XLEN))
SRLI(s, i) == SetRd(s, i, ShiftRight(X1(s, i), i.imm % XLEN))
SRLW(s, i) == SetRd(s, i, SignedWord(ShiftRight(Low(X1(s, i), WordLen), X2(s, i) % WordLen)))
SRLIW(s, i) == SetRd(s, i, SignedWord(ShiftRight(Low(X1(s, i), WordLen), i.imm % WordLen)))
SRA(s, i) == SetRd(s, i, ShiftRightArith(X1(s, i), X2(s, i) % XLEN, XLEN))
SRAI(s, i) == SetRd(s, i, ShiftRightArith(X1(s, i), i.imm % XLEN, XLEN))
SRAW(s, i) == SetRd(s, i, ShiftRightArith(X1(s, i), X2(s, i) % WordLen, WordLen))
SRAIW(s, i) == SetRd(s, i, ShiftRightArith(X1(s, i), i.imm % WordLen, WordLen))

(***************************************************************************)
(* Control transfer: pc is already past the instruction when exec runs.    *)
(***************************************************************************)
BEQ(s, i) == Jump(s, X1(s, i) = X2(s, i), Wrap(i.addr + i.imm))
BNE(s, i) == Jump(s, X1(s, i) # X2(s, i), Wrap(i.addr + i.imm))
BLT(s, i) == Jump(s, Signed(X1(s, i)) < Signed(X2(s, i)), Wrap(i.addr + i.imm))
BGE(s, i) == Jump(s, Signed(X1(s, i)) >= Signed(X2(s, i)), Wrap(i.addr + i.imm))
BLTU(s, i) == Jump(s, X1(s, i) < X2(s, i), Wrap(i.addr + i.imm))
BGEU(s, i) == Jump(s, X1(s, i) >= X2(s, i), Wrap(i.addr + i.imm))
JAL(s, i) ==
    LET t == IF i.rd # 0 THEN SetRd(s, i, s.pc) ELSE s
    IN [t EXCEPT !.pc = Wrap(i.addr + i.imm)]
JALR(s, i) ==
    LET target == Wrap(X1(s, i) + i.imm)
        t == IF i.rd # 0 THEN SetRd(s, i, s.pc) ELSE s
    IN [t EXCEPT !.pc = 2 * (target \div 2)]
\* a Jolt ECALL (cycle marker or print) is served by the host: no trap is taken
ECALL(s, i) == s
FENCE(s, i) == s

(***************************************************************************)
(* Loads, stores, reservations and read-modify-write instructions          *)
(***************************************************************************)
LB(s, i) == load_bytes(s, i, EffAddr(s, i), 1, TRUE)
LBU(s, i) == load_bytes(s, i, EffAddr(s, i), 1, FALSE)
LH(s, i) == load_bytes(s, i, EffAddr(s, i), 2, TRUE)
LHU(s, i) == load_bytes(s, i, EffAddr(s, i), 2, FALSE)
LW(s, i) == load_bytes(s, i, EffAddr(s, i), 4, TRUE)
LWU(s, i) == load_bytes(s, i, EffAddr(s, i), 4, FALSE)
LD(s, i) == load_bytes(s, i, EffAddr(s, i), 8, FALSE)
SB(s, i) == store_bytes(s, EffAddr(s, i), 1, X2(s, i))
SH(s, i) == store_bytes(s, EffAddr(s, i), 2, X2(s, i))
SW(s, i) == store_bytes(s, EffAddr(s, i), 4, X2(s, i))
SD(s, i) == store_bytes(s, EffAddr(s, i), 8, X2(s, i))

set_reservation(s, a) == [s EXCEPT !.res = IF s.ok THEN a ELSE @]
has_reservation(s, a) == s.res = a
clear_reservation(s) == [s EXCEPT !.res = IF s.ok THEN NoReservation ELSE @]
\* lr/sc are plain cycles of the tracer; their RAM access is not a dword write
LRW(s, i) == set_reservation(load_bytes(s, i, X1(s, i), 4, TRUE), X1(s, i))
LRD(s, i) == set_reservation(load_bytes(s, i, X1(s, i), 8, FALSE), X1(s, i))
SCW(s, i) ==
    IF has_reservation(s, X1(s, i))
    THEN SetRd(clear_reservation(store_bytes(s, X1(s, i), 4, X2(s, i))), i, 0)
    ELSE SetRd(s, i, 1)
SCD(s, i) ==
    IF has_reservation(s, X1(s, i))
    THEN SetRd(clear_reservation(store_bytes(s, X1(s, i), 8, X2(s, i))), i, 0)
    ELSE SetRd(s, i, 1)

\* an AMO loads n bytes, stores new(old, rs2) and puts the old value in rd;
\* rs2 is read before rd is written
Amo(s, i, n, new(_, _)) ==
    LET a == X1(s, i)
    IN IF ~accessible(a, n) THEN Panic(s)
       ELSE LET old == Sext(read_bytes(s.mem, a, n), n * ByteLen)
            IN SetRd(store_bytes(s, a, n, new(old, X2(s, i))), i, old)
MinOf(a, b, key(_)) == IF key(a) <= key(b) THEN a ELSE b
MaxOf(a, b, key(_)) == IF key(a) >= key(b) THEN a ELSE b
Unsigned(v) == v
UnsignedWord(v) == Low(v, WordLen)
AMOADDD(s, i) == LET new(o, v) == Wrap(o + v) IN Amo(s, i, 8, new)
AMOANDD(s, i) == LET new(o, v) == o & v IN Amo(s, i, 8, new)
AMOORD(s, i) == LET new(o, v) == o | v IN Amo(s, i, 8, new)
AMOXORD(s, i) == LET new(o, v) == o ^^ v IN Amo(s, i, 8, new)
AMOSWAPD(s, i) == LET new(o, v) == v IN Amo(s, i, 8, new)
AMOMIND(s, i) == LET new(o, v) == MinOf(o, v, Signed) IN Amo(s, i, 8, new)
AMOMAXD(s, i) == LET new(o, v) == MaxOf(o, v, Signed) IN Amo(s, i, 8, new)
AMOMINUD(s, i) == LET new(o, v) == MinOf(o, v, Unsigned) IN Amo(s, i, 8, new)
AMOMAXUD(s, i) == LET new(o, v) == MaxOf(o, v, Unsigned) IN Amo(s, i, 8, new)
AMOADDW(s, i) == LET new(o, v) == Wrap(o + v) IN Amo(s, i, 4, new)
AMOANDW(s, i) == LET new(o, v) == o & v IN Amo(s, i, 4, new)
AMOORW(s, i) == LET new(o, v) == o | v IN Amo(s, i, 4, new)
AMOXORW(s, i) == LET new(o, v) == o ^^ v IN Amo(s, i, 4, new)
AMOSWAPW(s, i) == LET new(o, v) == v IN Amo(s, i, 4, new)
AMOMINW(s, i) == LET new(o, v) == MinOf(o, v, SignedWord) IN Amo(s, i, 4, new)
AMOMAXW(s, i) == LET new(o, v) == MaxOf(o, v, SignedWord) IN Amo(s, i, 4, new)
AMOMINUW(s, i) == LET new(o, v) == MinOf(o, v, UnsignedWord) IN Amo(s, i, 4, new)
AMOMAXUW(s, i) == LET new(o, v) == MaxOf(o, v, UnsignedWord) IN Amo(s, i, 4, new)

(***************************************************************************)
(* Virtual instructions: they occur only inside inline sequences.          *)
(***************************************************************************)
VirtualAdvice(s, i) == IF i.adv = NoAdvice THEN Panic(s) ELSE SetRd(s, i, i.adv)
VirtualMove(s, i) == SetRd(s, i, X1(s, i))
VirtualMovsign(s, i) == SetRd(s, i, IF Signed(X1(s, i)) < 0 THEN Ones ELSE 0)
VirtualMULI(s, i) == SetRd(s, i, X1(s, i) * i.imm)
VirtualPow2(s, i) == SetRd(s, i, 2 ^ (X1(s, i) % XLEN))
VirtualPow2W(s, i) == SetRd(s, i, 2 ^ (X1(s, i) % WordLen))
VirtualPow2I(s, i) == SetRd(s, i, 2 ^ (i.imm % XLEN))
VirtualPow2IW(s, i) == SetRd(s, i, 2 ^ (i.imm % WordLen))
VirtualShiftRightBitmask(s, i) == SetRd(s, i, ShiftBitmask(X1(s, i) % XLEN, XLEN))
VirtualShiftRightBitmaskI(s, i) == SetRd(s, i, ShiftBitmask(i.imm % XLEN, XLEN))
VirtualSignExtendWord(s, i) == SetRd(s, i, SignedWord(X1(s, i)))
VirtualZeroExtendWord(s, i) == SetRd(s, i, Low(X1(s, i), WordLen))
VirtualSRA(s, i) == SetRd(s, i, ShiftRightArith(X1(s, i), TrailingZeros(X2(s, i)), XLEN))
VirtualSRAI(s, i) == SetRd(s, i, ShiftRightArith(X1(s, i), TrailingZeros(i.imm), XLEN))
VirtualSRL(s, i) == SetRd(s, i, ShiftRight(X1(s, i), TrailingZeros(X2(s, i))))
VirtualSRLI(s, i) == SetRd(s, i, ShiftRight(X1(s, i), TrailingZeros(i.imm)))
VirtualROTRI(s, i) == SetRd(s, i, RotateRight(X1(s, i), TrailingZeros(i.imm), XLEN))
VirtualROTRIW(s, i) ==
    LET k == IF TrailingZeros(i.imm) < WordLen THEN TrailingZeros(i.imm) ELSE WordLen
    IN SetRd(s, i, RotateRight(X1(s, i), k, WordLen))
VirtualRev8W(s, i) ==
    SetRd(s, i, SwapBytes(Low(X1(s, i), WordLen), WordLen)
                + SwapBytes(ShiftRight(X1(s, i), WordLen), WordLen) * 2 ^ WordLen)
\* VirtualXORROT32, 24, 16, 63 and VirtualXORROTW16, 12, 8, 7: imm is the rotation
VirtualXORROT(s, i) == SetRd(s, i, RotateRight(X1(s, i) ^^ X2(s, i), i.imm, XLEN))
VirtualXORROTW(s, i) ==
    SetRd(s, i, RotateRight(Low(X1(s, i) ^^ X2(s, i), WordLen), i.imm, WordLen))
VirtualChangeDivisor(s, i) ==
    SetRd(s, i, IF X1(s, i) = IntMin /\ X2(s, i) = Ones THEN 1 ELSE X2(s, i))
VirtualChangeDivisorW(s, i) ==
    SetRd(s, i, IF /\ SignedWord(X1(s, i)) = -(2 ^ (WordLen - 1))
                   /\ SignedWord(X2(s, i)) = -1
                THEN 1 ELSE SignedWord(X2(s, i)))
VirtualAssertEQ(s, i) == Assert_(s, X1(s, i) = X2(s, i))
VirtualAssertLTE(s, i) == Assert_(s, X1(s, i) <= X2(s, i))
VirtualAssertValidDiv0(s, i) == Assert_(s, X1(s, i) = 0 => X2(s, i) = Ones)
VirtualAssertValidUnsignedRemainder(s, i) ==
    Assert_(s, X2(s, i) = 0 \/ X1(s, i) < X2(s, i))
VirtualAssertMulUNoOverflow(s, i) == Assert_(s, X1(s, i) * X2(s, i) < Base)
VirtualAssertHalfwordAlignment(s, i) == Assert_(s, EffAddr(s, i) % 2 = 0)
VirtualAssertWordAlignment(s, i) == Assert_(s, EffAddr(s, i) % 4 = 0)

\* Instruction::execute: dispatch on the instruction's variant
execute(s, i) ==
    CASE i.op = "ADD" -> ADD(s, i)
      [] i.op = "ADDI" -> ADDI(s, i)
      [] i.op = "SUB" -> SUB(s, i)
      [] i.op = "AND" -> AND(s, i)
      [] i.op = "ANDI" -> ANDI(s, i)
      [] i.op = "ANDN" -> ANDN(s, i)
      [] i.op = "OR" -> OR(s, i)
      [] i.op = "ORI" -> ORI(s, i)
      [] i.op = "XOR" -> XOR(s, i)
      [] i.op = "XORI" -> XORI(s, i)
      [] i.op = "SLT" -> SLT(s, i)
      [] i.op = "SLTI" -> SLTI(s, i)
      [] i.op = "SLTU" -> SLTU(s, i)
      [] i.op = "SLTIU" -> SLTIU(s, i)
      [] i.op = "LUI" -> LUI(s, i)
      [] i.op = "AUIPC" -> AUIPC(s, i)
      [] i.op = "ADDIW" -> ADDIW(s, i)
      [] i.op = "ADDW" -> ADDW(s, i)
      [] i.op = "SUBW" -> SUBW(s, i)
      [] i.op = "MUL" -> MUL(s, i)
      [] i.op = "MULH" -> MULH(s, i)
      [] i.op = "MULHU" -> MULHU(s, i)
      [] i.op = "MULHSU" -> MULHSU(s, i)
      [] i.op = "MULW" -> MULW(s, i)
      [] i.op = "DIV" -> DIV(s, i)
      [] i.op = "DIVU" -> DIVU(s, i)
      [] i.op = "DIVW" -> DIVW(s, i)
      [] i.op = "DIVUW" -> DIVUW(s, i)
      [] i.op = "REM" -> REM(s, i)
      [] i.op = "REMU" -> REMU(s, i)
      [] i.op = "REMW" -> REMW(s, i)
      [] i.op = "REMUW" -> REMUW(s, i)
      [] i.op = "SLL" -> SLL(s, i)
      [] i.op = "SLLI" -> SLLI(s, i)
      [] i.op = "SLLW" -> SLLW(s, i)
      [] i.op = "SLLIW" -> SLLIW(s, i)
      [] i.op = "SRL" -> SRL(s, i)
      [] i.op = "SRLI" -> SRLI(s, i)
      [] i.op = "SRLW" -> SRLW(s, i)
      [] i.op = "SRLIW" -> SRLIW(s, i)
      [] i.op = "SRA" -> SRA(s, i)
      [] i.op = "SRAI" -> SRAI(s, i)
      [] i.op = "SRAW" -> SRAW(s, i)
      [] i.op = "SRAIW" -> SRAIW(s, i)
      [] i.op = "BEQ" -> BEQ(s, i)
      [] i.op = "BNE" -> BNE(s, i)
      [] i.op = "BLT" -> BLT(s, i)
      [] i.op = "BGE" -> BGE(s, i)
      [] i.op = "BLTU" -> BLTU(s, i)
      [] i.op = "BGEU" -> BGEU(s, i)
      [] i.op = "JAL" -> JAL(s, i)
      [] i.op = "JALR" -> JALR(s, i)
      [] i.op = "ECALL" -> ECALL(s, i)
      [] i.op = "FENCE" -> FENCE(s, i)
      [] i.op = "LB" -> LB(s, i)
      [] i.op = "LBU" -> LBU(s, i)
      [] i.op = "LH" -> LH(s, i)
      [] i.op = "LHU" -> LHU(s, i)
      [] i.op = "LW" -> LW(s, i)
      [] i.op = "LWU" -> LWU(s, i)
      [] i.op = "LD" -> LD(s, i)
      [] i.op = "SB" -> SB(s, i)
      [] i.op = "SH" -> SH(s, i)
      [] i.op = "SW" -> SW(s, i)
      [] i.op = "SD" -> SD(s, i)
      [] i.op = "LRW" -> LRW(s, i)
      [] i.op = "LRD" -> LRD(s, i)
      [] i.op = "SCW" -> SCW(s, i)
      [] i.op = "SCD" -> SCD(s, i)
      [] i.op = "AMOADDD" -> AMOADDD(s, i)
      [] i.op = "AMOANDD" -> AMOANDD(s, i)
      [] i.op = "AMOORD" -> AMOORD(s, i)
      [] i.op = "AMOXORD" -> AMOXORD(s, i)
      [] i.op = "AMOSWAPD" -> AMOSWAPD(s, i)
      [] i.op = "AMOMIND" -> AMOMIND(s, i)
      [] i.op = "AMOMAXD" -> AMOMAXD(s, i)
      [] i.op = "AMOMINUD" -> AMOMINUD(s, i)
      [] i.op = "AMOMAXUD" -> AMOMAXUD(s, i)
      [] i.op = "AMOADDW" -> AMOADDW(s, i)
      [] i.op = "AMOANDW" -> AMOANDW(s, i)
      [] i.op = "AMOORW" -> AMOORW(s, i)
      [] i.op = "AMOXORW" -> AMOXORW(s, i)
      [] i.op = "AMOSWAPW" -> AMOSWAPW(s, i)
      [] i.op = "AMOMINW" -> AMOMINW(s, i)
      [] i.op = "AMOMAXW" -> AMOMAXW(s, i)
      [] i.op = "AMOMINUW" -> AMOMINUW(s, i)
      [] i.op = "AMOMAXUW" -> AMOMAXUW(s, i)
      [] i.op = "VirtualAdvice" -> VirtualAdvice(s, i)
      [] i.op = "VirtualMove" -> VirtualMove(s, i)
      [] i.op = "VirtualMovsign" -> VirtualMovsign(s, i)
      [] i.op = "VirtualMULI" -> VirtualMULI(s, i)
      [] i.op = "VirtualPow2" -> VirtualPow2(s, i)
      [] i.op = "VirtualPow2W" -> VirtualPow2W(s, i)
      [] i.op = "VirtualPow2I" -> VirtualPow2I(s, i)
      [] i.op = "VirtualPow2IW" -> VirtualPow2IW(s, i)
      [] i.op = "VirtualShiftRightBitmask" -> VirtualShiftRightBitmask(s, i)
      [] i.op = "VirtualShiftRightBitmaskI" -> VirtualShiftRightBitmaskI(s, i)
      [] i.op = "VirtualSignExtendWord" -> VirtualSignExtendWord(s, i)
      [] i.op = "VirtualZeroExtendWord" -> VirtualZeroExtendWord(s, i)
      [] i.op = "VirtualSRA" -> VirtualSRA(s, i)
      [] i.op = "VirtualSRAI" -> VirtualSRAI(s, i)
      [] i.op = "VirtualSRL" -> VirtualSRL(s, i)
      [] i.op = "VirtualSRLI" -> VirtualSRLI(s, i)
      [] i.op = "VirtualROTRI" -> VirtualROTRI(s, i)
      [] i.op = "VirtualROTRIW" -> VirtualROTRIW(s, i)
      [] i.op = "VirtualRev8W" -> VirtualRev8W(s, i)
      [] i.op = "VirtualXORROT" -> VirtualXORROT(s, i)
      [] i.op = "VirtualXORROTW" -> VirtualXORROTW(s, i)
      [] i.op = "VirtualChangeDivisor" -> VirtualChangeDivisor(s, i)
      [] i.op = "VirtualChangeDivisorW" -> VirtualChangeDivisorW(s, i)
      [] i.op = "VirtualAssertEQ" -> VirtualAssertEQ(s, i)
      [] i.op = "VirtualAssertLTE" -> VirtualAssertLTE(s, i)
      [] i.op = "VirtualAssertValidDiv0" -> VirtualAssertValidDiv0(s, i)
      [] i.op = "VirtualAssertValidUnsignedRemainder" -> VirtualAssertValidUnsignedRemainder(s, i)
      [] i.op = "VirtualAssertMulUNoOverflow" -> VirtualAssertMulUNoOverflow(s, i)
      [] i.op = "VirtualAssertHalfwordAlignment" -> VirtualAssertHalfwordAlignment(s, i)
      [] i.op = "VirtualAssertWordAlignment" -> VirtualAssertWordAlignment(s, i)
=============================================================================
