-------------------------------- MODULE R1cs --------------------------------
(***************************************************************************)
(* The uniform R1CS of jolt-core: the row of inputs a prover takes from two*)
(* consecutive cycles of the trace, and the 26 constraints every row must  *)
(* satisfy.  A constraint is a triple <<A, B, C>> of linear combinations of*)
(* the row, satisfied when A * B = C; `eval_az_by_name` and               *)
(* `eval_bz_by_name` are the prover's hand-written evaluations of A and B.*)
(* Values are the integers the code turns into field elements.            *)
(***************************************************************************)
EXTENDS Lookups

\* what every trace is padded with
NoOpCycle ==
    [i |-> [op |-> "NoOp", rd |-> 0, rs1 |-> 0, rs2 |-> 0, imm |-> 0, addr |-> 0,
            rem |-> -1, comp |-> FALSE, adv |-> -1],
     rs1 |-> 0, rs2 |-> 0, rdpre |-> 0, rdpost |-> 0,
     ram |-> [kind |-> "none", addr |-> 0, pre |-> 0, post |-> 0]]
NoOpQuery == Query("none", {"IsNoop"}, << 0, 0 >>, 0)
QueryOf(c) == IF c.i.op = "NoOp" THEN NoOpQuery ELSE query(c)

\* Fault: ShouldJump does not look at the next cycle.
from_traceJumpAlways(c, n, pc, nextPc) ==
    LET q == QueryOf(c)
        flags == circuit_flags(c)
        operands == to_lookup_operands(q, c)
        on(flag, v) == IF flag \in flags THEN v ELSE 0
    IN [flags |-> flags,
        LeftInstructionInput |-> q.left, RightInstructionInput |-> q.right,
        Product |-> q.left * q.right,
        LeftLookupOperand |-> operands[1], RightLookupOperand |-> operands[2],
        LookupOutput |-> q.out,
        Rd |-> c.i.rd, Rs1Value |-> c.rs1, Rs2Value |-> c.rs2, RdWriteValue |-> c.rdpost,
        RamAddress |-> c.ram.addr, RamReadValue |-> c.ram.pre, RamWriteValue |-> c.ram.post,
        PC |-> pc, NextPC |-> nextPc,
        UnexpandedPC |-> c.i.addr, NextUnexpandedPC |-> n.i.addr, Imm |-> c.i.imm,
        NextIsNoop |-> BoolBit("IsNoop" \in circuit_flags(n)),
        ShouldJump |-> on("Jump", 1), ShouldBranch |-> on("Branch", q.out),
        WriteLookupOutputToRD |-> on("WriteLookupOutputToRD", c.i.rd),
        WritePCtoRD |-> on("Jump", c.i.rd)]
\* R1CSCycleInputs::from_trace: cycle c, the next cycle n, and their bytecode pcs
from_trace(c, n, pc, nextPc) ==
    LET q == QueryOf(c)
        flags == circuit_flags(c)
        operands == to_lookup_operands(q, c)
        on(flag, v) == IF flag \in flags THEN v ELSE 0
    IN [flags |-> flags,
        LeftInstructionInput |-> q.left, RightInstructionInput |-> q.right,
        Product |-> q.left * q.right,
        LeftLookupOperand |-> operands[1], RightLookupOperand |-> operands[2],
        LookupOutput |-> q.out,
        Rd |-> c.i.rd, Rs1Value |-> c.rs1, Rs2Value |-> c.rs2, RdWriteValue |-> c.rdpost,
        RamAddress |-> c.ram.addr, RamReadValue |-> c.ram.pre, RamWriteValue |-> c.ram.post,
        PC |-> pc, NextPC |-> nextPc,
        UnexpandedPC |-> c.i.addr, NextUnexpandedPC |-> n.i.addr, Imm |-> c.i.imm,
        NextIsNoop |-> BoolBit("IsNoop" \in circuit_flags(n)),
        ShouldJump |-> on("Jump", BoolBit("IsNoop" \notin circuit_flags(n))),
        ShouldBranch |-> on("Branch", q.out),
        WriteLookupOutputToRD |-> on("WriteLookupOutputToRD", c.i.rd),
        WritePCtoRD |-> on("Jump", c.i.rd)]

Flag(r, f) == BoolBit(f \in r.flags)
\* Fault: "neither" is computed as "not both".
NotAllOf(r, fs) == BoolBit(~(fs \subseteq r.flags))
NoneOf(r, fs) == BoolBit(r.flags \cap fs = {})
SomeOf(r, fs) == BoolBit(r.flags \cap fs # {})

\* the forms of the constraint builders
r1cs_eq_conditional(cond, left, right) == << cond, left - right, 0 >>
r1cs_if_else(cond, then, else, result) == << cond, then - else, result - else >>
r1cs_prod(left, right, result) == << left, right, result >>

\* UNIFORM_R1CS: the constraints, by name
UNIFORM_R1CS(r) ==
    [LeftInputEqRs1 |->
        r1cs_eq_conditional(Flag(r, "LeftOperandIsRs1Value"), r.LeftInstructionInput, r.Rs1Value),
     LeftInputEqPC |->
        r1cs_eq_conditional(Flag(r, "LeftOperandIsPC"), r.LeftInstructionInput, r.UnexpandedPC),
     LeftInputZeroOtherwise |->
        r1cs_eq_conditional(1 - Flag(r, "LeftOperandIsRs1Value") - Flag(r, "LeftOperandIsPC"),
                            r.LeftInstructionInput, 0),
     RightInputEqRs2 |->
        r1cs_eq_conditional(Flag(r, "RightOperandIsRs2Value"), r.RightInstructionInput, r.Rs2Value),
     RightInputEqImm |->
        r1cs_eq_conditional(Flag(r, "RightOperandIsImm"), r.RightInstructionInput, r.Imm),
     RightInputZeroOtherwise |->
        r1cs_eq_conditional(1 - Flag(r, "RightOperandIsRs2Value") - Flag(r, "RightOperandIsImm"),
                            r.RightInstructionInput, 0),
     RamAddrEqRs1PlusImmIfLoadStore |->
        r1cs_if_else(Flag(r, "Load") + Flag(r, "Store"), r.Rs1Value + r.Imm, 0, r.RamAddress),
     RamReadEqRamWriteIfLoad |->
        r1cs_eq_conditional(Flag(r, "Load"), r.RamReadValue, r.RamWriteValue),
     RamReadEqRdWriteIfLoad |->
        r1cs_eq_conditional(Flag(r, "Load"), r.RamReadValue, r.RdWriteValue),
     Rs2EqRamWriteIfStore |->
        r1cs_eq_conditional(Flag(r, "Store"), r.Rs2Value, r.RamWriteValue),
     LeftLookupZeroUnlessAddSubMul |->
        r1cs_if_else(Flag(r, "AddOperands") + Flag(r, "SubtractOperands") + Flag(r, "MultiplyOperands"),
                     0, r.LeftInstructionInput, r.LeftLookupOperand),
     RightLookupAdd |->
        r1cs_eq_conditional(Flag(r, "AddOperands"), r.RightLookupOperand,
                            r.LeftInstructionInput + r.RightInstructionInput),
     RightLookupSub |->
        r1cs_eq_conditional(Flag(r, "SubtractOperands"), r.RightLookupOperand,
                            r.LeftInstructionInput - r.RightInstructionInput + Base),
     RightLookupEqProductIfMul |->
        r1cs_eq_conditional(Flag(r, "MultiplyOperands"), r.RightLookupOperand, r.Product),
     RightLookupEqRightInputOtherwise |->
        r1cs_eq_conditional(1 - Flag(r, "AddOperands") - Flag(r, "SubtractOperands")
                              - Flag(r, "MultiplyOperands") - Flag(r, "Advice"),
                            r.RightLookupOperand, r.RightInstructionInput),
     AssertLookupOne |-> r1cs_eq_conditional(Flag(r, "Assert"), r.LookupOutput, 1),
     WriteLookupOutputToRDDef |->
        r1cs_prod(r.Rd, Flag(r, "WriteLookupOutputToRD"), r.WriteLookupOutputToRD),
     RdWriteEqLookupIfWriteLookupToRd |->
        r1cs_eq_conditional(r.WriteLookupOutputToRD, r.RdWriteValue, r.LookupOutput),
     WritePCtoRDDef |-> r1cs_prod(r.Rd, Flag(r, "Jump"), r.WritePCtoRD),
     RdWriteEqPCPlusConstIfWritePCtoRD |->
        r1cs_eq_conditional(r.WritePCtoRD, r.RdWriteValue,
                            r.UnexpandedPC + 4 - 2 * Flag(r, "IsCompressed")),
     ShouldJumpDef |-> r1cs_prod(Flag(r, "Jump"), 1 - r.NextIsNoop, r.ShouldJump),
     NextUnexpPCEqLookupIfShouldJump |->
        r1cs_eq_conditional(r.ShouldJump, r.NextUnexpandedPC, r.LookupOutput),
     ShouldBranchDef |-> r1cs_prod(Flag(r, "Branch"), r.LookupOutput, r.ShouldBranch),
     NextUnexpPCEqPCPlusImmIfShouldBranch |->
        r1cs_eq_conditional(r.ShouldBranch, r.NextUnexpandedPC, r.UnexpandedPC + r.Imm),
     NextUnexpPCUpdateOtherwise |->
        r1cs_eq_conditional(1 - r.ShouldBranch - Flag(r, "Jump"), r.NextUnexpandedPC,
                            r.UnexpandedPC + 4 - 4 * Flag(r, "DoNotUpdateUnexpandedPC")
                                               - 2 * Flag(r, "IsCompressed")),
     NextPCEqPCPlusOneIfInline |->
        r1cs_eq_conditional(Flag(r, "InlineSequenceInstruction"), r.NextPC, r.PC + 1)]

LeftFlags == {"LeftOperandIsRs1Value", "LeftOperandIsPC"}
RightFlags == {"RightOperandIsRs2Value", "RightOperandIsImm"}
\* eval_az_by_name: the A side as the prover computes it from the flags
eval_az_by_name(r) ==
    [LeftInputEqRs1 |-> Flag(r, "LeftOperandIsRs1Value"),
     LeftInputEqPC |-> Flag(r, "LeftOperandIsPC"),
     LeftInputZeroOtherwise |-> NoneOf(r, LeftFlags),
     RightInputEqRs2 |-> Flag(r, "RightOperandIsRs2Value"),
     RightInputEqImm |-> Flag(r, "RightOperandIsImm"),
     RightInputZeroOtherwise |-> NoneOf(r, RightFlags),
     RamAddrEqRs1PlusImmIfLoadStore |-> SomeOf(r, {"Load", "Store"}),
     RamReadEqRamWriteIfLoad |-> Flag(r, "Load"),
     RamReadEqRdWriteIfLoad |-> Flag(r, "Load"),
     Rs2EqRamWriteIfStore |-> Flag(r, "Store"),
     LeftLookupZeroUnlessAddSubMul |-> SomeOf(r, Arithmetic),
     RightLookupAdd |-> Flag(r, "AddOperands"),
     RightLookupSub |-> Flag(r, "SubtractOperands"),
     RightLookupEqProductIfMul |-> Flag(r, "MultiplyOperands"),
     RightLookupEqRightInputOtherwise |-> NoneOf(r, Arithmetic \cup {"Advice"}),
     AssertLookupOne |-> Flag(r, "Assert"),
     WriteLookupOutputToRDDef |-> r.Rd,
     RdWriteEqLookupIfWriteLookupToRd |-> r.WriteLookupOutputToRD,
     WritePCtoRDDef |-> r.Rd,
     RdWriteEqPCPlusConstIfWritePCtoRD |-> r.WritePCtoRD,
     ShouldJumpDef |-> Flag(r, "Jump"),
     NextUnexpPCEqLookupIfShouldJump |-> r.ShouldJump,
     ShouldBranchDef |-> Flag(r, "Branch"),
     NextUnexpPCEqPCPlusImmIfShouldBranch |-> r.ShouldBranch,
     NextUnexpPCUpdateOtherwise |-> (1 - Flag(r, "Jump")) - r.ShouldBranch,
     NextPCEqPCPlusOneIfInline |-> Flag(r, "InlineSequenceInstruction")]

\* eval_bz_by_name: the B side
eval_bz_by_name(r) ==
    [LeftInputEqRs1 |-> r.LeftInstructionInput - r.Rs1Value,
     LeftInputEqPC |-> r.LeftInstructionInput - r.UnexpandedPC,
     LeftInputZeroOtherwise |-> r.LeftInstructionInput,
     RightInputEqRs2 |-> r.RightInstructionInput - r.Rs2Value,
     RightInputEqImm |-> r.RightInstructionInput - r.Imm,
     RightInputZeroOtherwise |-> r.RightInstructionInput,
     RamAddrEqRs1PlusImmIfLoadStore |-> r.Rs1Value + r.Imm,
     RamReadEqRamWriteIfLoad |-> r.RamReadValue - r.RamWriteValue,
     RamReadEqRdWriteIfLoad |-> r.RamReadValue - r.RdWriteValue,
     Rs2EqRamWriteIfStore |-> r.Rs2Value - r.RamWriteValue,
     LeftLookupZeroUnlessAddSubMul |-> -r.LeftInstructionInput,
     RightLookupAdd |-> r.RightLookupOperand - (r.LeftInstructionInput + r.RightInstructionInput),
     RightLookupSub |->
        r.RightLookupOperand - (r.LeftInstructionInput - r.RightInstructionInput + 2 ^ XLEN),
     RightLookupEqProductIfMul |-> r.RightLookupOperand - r.Product,
     RightLookupEqRightInputOtherwise |-> r.RightLookupOperand - r.RightInstructionInput,
     AssertLookupOne |-> r.LookupOutput - 1,
     WriteLookupOutputToRDDef |-> Flag(r, "WriteLookupOutputToRD"),
     RdWriteEqLookupIfWriteLookupToRd |-> r.RdWriteValue - r.LookupOutput,
     WritePCtoRDDef |-> Flag(r, "Jump"),
     RdWriteEqPCPlusConstIfWritePCtoRD |->
        r.RdWriteValue - (r.UnexpandedPC + (IF "IsCompressed" \in r.flags THEN 2 ELSE 4)),
     ShouldJumpDef |-> BoolBit(r.NextIsNoop = 0),
     NextUnexpPCEqLookupIfShouldJump |-> r.NextUnexpandedPC - r.LookupOutput,
     ShouldBranchDef |-> r.LookupOutput,
     NextUnexpPCEqPCPlusImmIfShouldBranch |-> r.NextUnexpandedPC - (r.UnexpandedPC + r.Imm),
     NextUnexpPCUpdateOtherwise |->
        r.NextUnexpandedPC - (r.UnexpandedPC
            + (4 - (IF "DoNotUpdateUnexpandedPC" \in r.flags THEN 4 ELSE 0)
                 - (IF "IsCompressed" \in r.flags THEN 2 ELSE 0))),
     NextPCEqPCPlusOneIfInline |-> r.NextPC - (r.PC + 1)]

Satisfied(t) == t[1] * t[2] = t[3]
\* the names of the constraints a row violates
Violated(r) == LET u == UNIFORM_R1CS(r) IN {n \in DOMAIN u : ~Satisfied(u[n])}
=============================================================================
