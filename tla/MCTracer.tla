------------------------------ MODULE MCTracer ------------------------------
(***************************************************************************)
(* The programs TLC traces: one instruction under test at address 128, a    *)
(* second instruction that reads what it wrote, and a jump to itself.      *)
(* Registers are 8 bits wide, so that a byte of memory is one bit.         *)
(***************************************************************************)
EXTENDS Tracer

Text == 128
Ins(op, rd, rs1, rs2, imm) ==
    [op |-> op, rd |-> rd, rs1 |-> rs1, rs2 |-> rs2, imm |-> imm,
     addr |-> Text, rem |-> -1, comp |-> FALSE, adv |-> NoAdvice]
Compressed(i) == [i EXCEPT !.comp = TRUE]
\* the code: i, then j, then the jump to itself
Code(i, j) ==
    LET second == Text + (IF i.comp THEN 2 ELSE 4)
        third == second + (IF j.comp THEN 2 ELSE 4)
    IN << i, [j EXCEPT !.addr = second],
          [Ins("JAL", 0, 0, 0, 0) EXCEPT !.addr = third] >>
Follow == Ins("ADD", 1, 3, 2, 0)

\* registers x1, x2, x3 of the guest and memory, one bit a byte: 16..23 and 24..31
File(a, b, c) == [r \in Regs |-> CASE r = 1 -> a [] r = 2 -> b [] r = 3 -> c [] OTHER -> 0]
Memory(lo, hi) == write_bytes(write_bytes([b \in Dram |-> 0], 16, 8, lo), 24, 8, hi)
Program(i, j, a, b) == [code |-> Code(i, j), x |-> File(a, b, 90), mem |-> Memory(178, 105)]

Edge == {0, 1, 7, 127, 128, 200, 255}
Few == {0, 5, 128, 255}
Triples == {<< 3, 1, 2 >>, << 1, 1, 2 >>, << 2, 1, 2 >>, << 3, 1, 1 >>}

RegisterOps == {"ADD", "SUB", "AND", "OR", "XOR", "SLT", "SLTU", "MUL", "MULH", "MULHU",
                "MULHSU", "MULW", "ADDW", "SUBW", "SLL", "SLLW", "SRL", "SRLW", "SRA", "SRAW"}
RegisterCases ==
    {Program(Ins(op, 3, 1, 2, 0), Follow, a, b) : op \in RegisterOps, a \in Edge, b \in Edge}
    \cup {Program(Ins(op, t[1], t[2], t[3], 0), Follow, a, 5) :
              op \in RegisterOps, t \in Triples, a \in {3, 251}}

DivisionTriples == {<< 3, 1, 2 >>, << 1, 1, 2 >>, << 2, 1, 2 >>}
DivisionCases ==
    {Program(Ins(op, t[1], t[2], t[3], 0), Follow, a, b) :
        op \in {"DIV", "REM", "DIVU", "REMU", "DIVW", "REMW", "DIVUW", "REMUW"},
        t \in DivisionTriples, a \in Edge \cup {8, 248}, b \in Edge \cup {5, 15}}

ImmediateOps == {"ADDI", "ANDI", "ORI", "XORI", "SLTI", "SLTIU", "ADDIW"}
ShiftOps == {"SLLI", "SRLI", "SRAI", "SLLIW", "SRLIW", "SRAIW"}
ImmediateCases ==
    {Program(Ins(op, rd, 1, 0, imm), Follow, a, 1) :
        op \in ImmediateOps, rd \in {1, 3}, a \in Edge, imm \in {0, 1, 127, 128, 255}}
    \cup {Program(Ins(op, rd, 1, 0, imm), Follow, a, 1) :
        op \in ShiftOps, rd \in {1, 3}, a \in Edge, imm \in {0, 1, 3, 7}}
    \cup {Program(Ins(op, 3, 0, 0, imm), Follow, 9, 1) :
        op \in {"LUI", "AUIPC"}, imm \in {0, 16, 240}}
    \cup {Program(Ins(op, 0, 0, 0, 0), Follow, 9, 1) : op \in {"FENCE", "ECALL"}}
    \cup {Program(Compressed(Ins(op, 3, 1, 2, 1)), Compressed(Follow), 200, 100) :
        op \in {"ADD", "ADDI", "ADDW", "SUBW", "SRAI", "MUL"}}

ControlCases ==
    {Program(c, Follow, a, b) :
        c \in {Ins(op, 0, 1, 2, imm) :
                  op \in {"BEQ", "BNE", "BLT", "BGE", "BLTU", "BGEU"}, imm \in {4, 8}},
        a \in Few, b \in Few}
    \cup {Program(Compressed(Ins("BEQ", 0, 1, 0, 6)), Follow, a, 0) : a \in {0, 1}}
    \cup {Program(Ins("JAL", rd, 0, 0, imm), Follow, 3, 4) : rd \in {0, 3}, imm \in {4, 8}}
    \cup {Program(Ins("JALR", rd, 1, 0, imm), Follow, a, 4) :
              rd \in {0, 1, 3}, a \in {132, 136}, imm \in {0}}
    \cup {Program(Ins("JALR", 3, 1, 0, 255), Follow, 137, 4)}
    \cup {Program(Compressed(Ins("JALR", 1, 2, 0, 0)), Follow, 0, 134)}
    \* the second instruction jumps back to the first, which then skips it
    \cup {Program(Ins("BNE", 0, 1, 2, 8), Ins("JALR", 1, 3, 0, 38), 7, 7)}

Loads == {"LB", "LBU", "LH", "LHU", "LW", "LWU", "LD"}
Stores == {"SB", "SH", "SW", "SD"}
MemoryCases ==
    {Program(Ins(op, rd, 1, 0, imm), Follow, 24, 9) : op \in Loads, rd \in {1, 3}, imm \in -8 .. 7}
    \cup {Program(Ins(op, 0, 1, 2, imm), Ins("LD", 3, 1, 0, 0), 24, b) :
              op \in Stores, imm \in -8 .. 7, b \in {0, 90, 255}}
    \cup {Program(Ins(op, 3, 1, 2, 0), Follow, 240, 9) : op \in Loads \cup Stores}

AmoOps == {"AMOADDD", "AMOANDD", "AMOORD", "AMOXORD", "AMOSWAPD", "AMOMIND", "AMOMAXD",
           "AMOMINUD", "AMOMAXUD", "AMOADDW", "AMOANDW", "AMOORW", "AMOXORW", "AMOSWAPW",
           "AMOMINW", "AMOMAXW", "AMOMINUW", "AMOMAXUW"}
AtomicCases ==
    {Program(Ins(op, t[1], 1, t[2], 0), Ins("LD", 3, 1, 0, 0), a, b) :
        op \in AmoOps, t \in {<< 3, 2 >>, << 2, 2 >>}, a \in {16, 24}, b \in {0, 90, 178, 255}}
    \cup {Program(Ins(op, 3, 1, 2, 0), Follow, a, 90) : op \in AmoOps, a \in {17, 20, 28, 240}}
    \cup {Program(Ins(lr, 3, 1, 0, 0), Ins(sc, 2, 1, 3, 0), a, 5) :
        lr \in {"LRW", "LRD"}, sc \in {"SCW", "SCD"}, a \in {16, 20, 24, 240}}
    \cup {Program(Ins(sc, 3, 1, 2, 0), Follow, 16, 5) : sc \in {"SCW", "SCD"}}

\* an inline of the guest's own: the virtual instructions no expansion uses
Vr(k) == allocate_for_inline(k)
MCUserBuilder(i) ==
    Alloc(3, << emit_vshift_i("VirtualROTRI", Vr(0), i.rs1, 248),
                emit_vshift_i("VirtualROTRIW", Vr(1), i.rs1, 12),
                emit_r("ANDN", Vr(1), Vr(1), i.rs2),
                Emit("VirtualXORROT", Vr(2), i.rs1, i.rs2, 3),
                Emit("VirtualXORROTW", Vr(2), i.rs1, i.rs2, 1),
                emit_i("VirtualRev8W", Vr(0), Vr(0), 0),
                emit_i("VirtualMULI", Vr(1), Vr(0), 5),
                emit_u("VirtualPow2I", Vr(1), 6),
                emit_u("VirtualPow2IW", Vr(1), 6),
                emit_u("VirtualShiftRightBitmaskI", Vr(2), 3),
                emit_r("AND", Vr(2), i.rs1, i.rs2),
                emit_b("VirtualAssertLTE", Vr(2), i.rs1),
                emit_r("MULH", Vr(0), i.rs1, i.rs2) >>)
Inline(key, rd, rs1, rs2) ==
    [op |-> "INLINE", rd |-> rd, rs1 |-> rs1, rs2 |-> rs2, imm |-> 0, addr |-> Text,
     rem |-> -1, comp |-> FALSE, adv |-> NoAdvice, key |-> key]
\* factors at 16 and 32, product at 48
BigProgram(a, b) ==
    [code |-> Code(Inline("bigint_mul", 3, 1, 2), Ins("LD", 1, 3, 0, 24)), x |-> File(16, 32, 48),
     mem |-> write_bytes(write_bytes(write_bytes(write_bytes([c \in Dram |-> 1],
                 16, 8, a[1]), 24, 8, a[2]), 32, 8, b[1]), 40, 8, b[2])]
\* Montgomery multiplication of a number by itself, context at 16, factor at 80;
\* ra is the value of x1, which the sequence reads: the return address of the guest
\* function that multiplies, or what _start left in x1
Modulus == << 253, 255, 171 >>      \* m and n0inv
MontProgram(key, a, m, ra) ==
    LET dwords == << 0, 0, m[1], m[2], m[3], 0, 0, 0, a[1], a[2], 0, 0 >>
    IN [code |-> Code(Inline(key, 3, 2, 2), Ins("ADDI", 2, 1, 0, 0)), x |-> File(ra, 80, 16),
        mem |-> [c \in Dram |-> Bit(dwords[(c - 16) \div 8 + 1], (c - 16) % 8)]]
InlineCases ==
    {Program(Inline("user", 0, 1, 2), Inline("user", 0, 3, 2), a, b) : a \in Edge, b \in Edge}
    \cup {MontProgram(key, a, Modulus, ra) : key \in {"mont_mul", "mont_square"},
              ra \in {0, 1, Text},
              a \in {<< 5, 0 >>, << 200, 7 >>, << 252, 255 >>, << 1, 255 >>, << 77, 130 >>}}
    \cup {BigProgram(a, b) : a, b \in {<< 255, 255 >>, << 1, 0 >>, << 3, 254 >>, << 255, 1 >>}}

\* x0 as the destination
ZeroCases ==
    {Program(Ins(op, 0, 1, 2, 0), Follow, a, b) :
        op \in RegisterOps \cup {"DIV", "REM", "DIVU", "REMU", "DIVW", "REMW", "DIVUW", "REMUW"},
        a \in Few, b \in Few}
    \cup {Program(Ins(op, 0, 1, 0, imm), Follow, 200, 3) :
        op \in ImmediateOps \cup ShiftOps, imm \in {0, 3}}
    \cup {Program(Ins(op, 0, 1, 0, 1), Follow, 24, 9) : op \in {"LB", "LBU"}}
    \cup {Program(Ins(op, 0, 1, 0, 0), Follow, 24, 9) : op \in Loads}
    \cup {Program(Ins(op, 0, 1, 2, 0), Follow, 24, 9) : op \in AmoOps}

AllCases == ZeroCases \cup RegisterCases \cup DivisionCases \cup ImmediateCases \cup ControlCases
            \cup MemoryCases \cup AtomicCases \cup InlineCases
=============================================================================
