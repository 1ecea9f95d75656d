---------------------------- MODULE MCSharedTrace ----------------------------
(***************************************************************************)
(* Two cycles of one instruction around a third of another, then a NoOp.     *)
(***************************************************************************)
EXTENDS SharedTrace

MCDraw(i, t) == ((i * 131 + (t % 9973) * 37 + 17) * ((t % 97) * 13 + i * 5 + 3)) % 65521

\* rs1, rs2, a small immediate and a shift amount
Samples == << << 128, 255, 255, 3 >>, << 200, 200, 248, 1 >>, << 255, 16, 0, 0 >>, << 3, 0, 250, 6 >> >>
Word64Only == {"VirtualPow2W", "VirtualPow2IW", "VirtualROTRIW", "VirtualXORROTW", "VirtualSignExtendWord",
               "VirtualZeroExtendWord", "VirtualChangeDivisorW", "LD", "SD"}
Word32Only == {"VirtualLW", "VirtualSW"}
Ops(b) == IF b THEN V!Queried ELSE (V!Queried \ Word64Only) \cup Word32Only
Bitmask(n) == (2 ^ (XLEN - n) - 1) * 2 ^ n
Instr(op, imm, adv) ==
    [op |-> op, rd |-> 5, rs1 |-> 6, rs2 |-> 7, imm |-> imm, addr |-> 64, adv |-> adv, rem |-> -1, comp |-> FALSE]
Cycle(op, s) ==
    LET names == operands_of(op)
        has(n) == \E k \in DOMAIN names : names[k] = n
        imm == CASE op \in {"VirtualSRAI", "VirtualSRLI", "VirtualROTRI", "VirtualROTRIW"} -> Bitmask(s[4])
                 [] op \in {"VirtualMove", "VirtualSignExtendWord", "VirtualZeroExtendWord", "VirtualRev8W",
                            "VirtualPow2", "VirtualPow2W", "VirtualShiftRightBitmask", "VirtualMovsign"} -> 0
                 [] op \in {"VirtualPow2I", "VirtualPow2IW", "VirtualShiftRightBitmaskI", "VirtualXORROT",
                            "VirtualXORROTW"} -> s[4]
                 [] OTHER -> s[3]
        ram == CASE op \in Loads -> [kind |-> "read", addr |-> 24, pre |-> s[2], post |-> s[2]]
                 [] op \in Stores -> [kind |-> "write", addr |-> 32, pre |-> s[1], post |-> s[2]]
                 [] OTHER -> [kind |-> "none", addr |-> 0, pre |-> 0, post |-> 0]
    IN [i |-> Instr(op, imm, IF op = "VirtualAdvice" THEN s[2] ELSE 0),
        rs1 |-> IF has("rs1") THEN s[1] ELSE 0,
        rs2 |-> IF ~has("rs2") THEN 0 ELSE IF op \in {"VirtualSRL", "VirtualSRA"} THEN Bitmask(s[4]) ELSE s[2],
        rdpre |-> IF has("rdpre") THEN s[2] ELSE 0,
        rdpost |-> IF has("rdpost") THEN s[1] ELSE 0,
        ram |-> ram]
NoOpCycle ==
    [i |-> [Instr("NoOp", 0, 0) EXCEPT !.rd = 0, !.addr = 0], rs1 |-> 0, rs2 |-> 0, rdpre |-> 0, rdpost |-> 0,
     ram |-> [kind |-> "none", addr |-> 0, pre |-> 0, post |-> 0]]
NextOf(n) == (n % Len(Samples)) + 1
MCTraces(b) ==
    {<< Cycle(op, Samples[n]), Cycle("SLT", Samples[NextOf(n)]), Cycle(op, Samples[NextOf(NextOf(n))]), NoOpCycle >> :
        op \in Ops(b), n \in DOMAIN Samples}
=============================================================================
