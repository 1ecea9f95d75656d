------------------------------- MODULE Tracer -------------------------------
(***************************************************************************)
(* The emulator producing an execution trace: fetch and decode, expansion  *)
(* into the inline sequence, one captured cycle per emitted instruction,   *)
(* the reset of x0, and the end of the trace when the guest jumps to       *)
(* itself.  Beside it run `want`, what `execute` (the untraced mode of the *)
(* same emulator) makes of the instruction, and `reg` and `ram`, the       *)
(* register file and the memory as the constraint system sees them: zero   *)
(* registers, the initial memory, and the writes of the traced cycles.     *)
(***************************************************************************)
EXTENDS Inlines, R1cs

\* Programs: a set of records [code, x, mem]; the code holds decoded
\* instructions with their addresses, ends in a jump to itself and never runs
\* past its end
CONSTANT Programs

VARIABLES
    code,     \* the decoded text of the program being traced
    bytecode, \* the preprocessed bytecode the verifier commits to
    pcMap,    \* its BytecodePCMapper
    s,        \* the machine state (cpu.x, memory, reservation, pc)
    prevPc,   \* LazyTraceIterator.prev_pc
    todo,     \* the instructions of the current sequence still to be run
    want,     \* the state `execute` gives for the current instruction
    row,      \* the last two cycles of the trace, NoOpCycle before it begins
    held,     \* virtual registers the current expansion holds at its deepest
    output,   \* for an INLINE: where its output goes, what the host computes and
              \* whether the borrow test of its reduction is misread
    reg,      \* register values by the traced writes
    ram,      \* doublewords by the traced writes
    status    \* "run", "halt" or "panic"
vars == << code, bytecode, pcMap, s, prevPc, todo, want, row, held, output, reg, ram, status >>

Regs == 0 .. RegisterCount + ReservedCount + InlineCount - 1
DwordAddrs == {a \in Dram : a % DwordBytes = 0}

(***************************************************************************)
(* Decoding and the virtual program counter                                *)
(***************************************************************************)
\* Instruction::inline_sequence of a decoded instruction, numbered
Numbered(i, e, allowed) ==
    [regs |-> e.regs, allowed |-> allowed,
     code |-> IF i.op \in Expanded \cup {"INLINE"} THEN finalize(i, e.code) ELSE <<i>>]
InlineSequence(i, a) == Numbered(i, expand_all(finalize_inline(a), 0), inline_allowed(a))
Sequence(i) ==
    IF i.op = "INLINE" THEN InlineSequence(i, INLINE_sequence(i))
    ELSE Numbered(i, expand(i, 0), TRUE)
\* guest::decode: every instruction expanded, a NoOp in front
decode(text) == FlattenSeq([k \in DOMAIN text |-> Sequence(text[k]).code])
\* BytecodePCMapper::new: first virtual pc and largest countdown of an address
pc_map(seq) ==
    [a \in {seq[k].addr : k \in DOMAIN seq} |->
        LET first == CHOOSE k \in DOMAIN seq :
                        seq[k].addr = a /\ \A j \in 1 .. k - 1 : seq[j].addr # a
        IN << first, IF seq[first].rem = -1 THEN 0 ELSE seq[first].rem >>]
\* Fault: the countdown is added instead of what has been counted down.
get_pcCountdown(c) ==
    IF c.i.op = "NoOp" THEN 0
    ELSE pcMap[c.i.addr][1] + (IF c.i.rem = -1 THEN 0 ELSE c.i.rem)
\* BytecodePreprocessing::get_pc: 0 for a NoOp, whose place is before the code
get_pc(c) ==
    IF c.i.op = "NoOp" THEN 0
    ELSE LET m == pcMap[c.i.addr]
         IN m[1] + (m[2] - (IF c.i.rem = -1 THEN 0 ELSE c.i.rem))

fetch(a) ==
    code[CHOOSE k \in DOMAIN code : code[k].addr = a]

(***************************************************************************)
(* Capturing a cycle: which registers a format reads and writes            *)
(***************************************************************************)
FormatUJ == {"LUI", "AUIPC", "JAL", "VirtualAdvice", "VirtualPow2I", "VirtualPow2IW",
             "VirtualShiftRightBitmaskI"}
FormatBS == {"BEQ", "BNE", "BLT", "BGE", "BLTU", "BGEU", "SB", "SH", "SW", "SD",
             "VirtualAssertEQ", "VirtualAssertLTE", "VirtualAssertValidDiv0",
             "VirtualAssertValidUnsignedRemainder", "VirtualAssertMulUNoOverflow"}
FormatAlign == {"VirtualAssertHalfwordAlignment", "VirtualAssertWordAlignment"}
FormatR == {"ADD", "SUB", "MUL", "MULHU", "AND", "ANDN", "OR", "XOR", "SLT", "SLTU",
            "VirtualSRA", "VirtualSRL", "VirtualXORROT", "VirtualXORROTW",
            "VirtualChangeDivisor", "VirtualChangeDivisorW", "SCW", "SCD"}
WritesRd(i) == i.op \notin FormatBS \cup FormatAlign
\* Fault: the value rd is left with is captured before the instruction runs.
captureEarly(i, before, after) ==
    [i |-> i,
     rs1 |-> IF i.op \in FormatUJ THEN 0 ELSE before.x[i.rs1],
     rs2 |-> IF i.op \in FormatBS \cup FormatR THEN before.x[i.rs2] ELSE 0,
     rdpre |-> IF WritesRd(i) THEN before.x[i.rd] ELSE 0,
     rdpost |-> IF WritesRd(i) THEN before.x[i.rd] ELSE 0,
     ram |-> after.ram]
capture(i, before, after) ==
    [i |-> i,
     rs1 |-> IF i.op \in FormatUJ THEN 0 ELSE before.x[i.rs1],
     rs2 |-> IF i.op \in FormatBS \cup FormatR THEN before.x[i.rs2] ELSE 0,
     rdpre |-> IF WritesRd(i) THEN before.x[i.rd] ELSE 0,
     rdpost |-> IF WritesRd(i) THEN after.x[i.rd] ELSE 0,
     ram |-> after.ram]

(***************************************************************************)
(* The actions                                                             *)
(***************************************************************************)
\* an `advised` sequence has its first two instructions' advice filled in
WithAdvice(i, seq) ==
    LET a == advice(s, i)
    IN [k \in DOMAIN seq |->
            IF k \in {1, 2} THEN [seq[k] EXCEPT !.adv = Wrap(a[k])] ELSE seq[k]]
ZeroX0(m) == [m EXCEPT !.x[0] = 0]

Init ==
    /\ \E p \in Programs :
        /\ code = p.code
        /\ bytecode = decode(p.code)
        /\ pcMap = pc_map(bytecode)
        /\ s = [x |-> p.x, mem |-> p.mem, res |-> NoReservation,
                pc |-> p.code[1].addr, ram |-> NoRam, ok |-> TRUE]
        /\ reg = p.x
        /\ ram = [a \in DwordAddrs |-> read_bytes(p.mem, a, DwordBytes)]
    /\ prevPc = 0 /\ todo = << >> /\ want = s
    /\ row = << NoOpCycle, NoOpCycle >> /\ held = 0 /\ output = << 0, << >>, FALSE >>
    /\ status = "run"

\* step_emulator, Cpu::tick_operate up to the first traced cycle, and
\* Instruction::trace: with rd = x0 the plain sequence is run, so that
\* the advice the instruction's own `trace` computes is not filled in
Tick ==
    /\ status = "run" /\ todo = << >> /\ s.pc # prevPc
    /\ \E i \in {fetch(s.pc)} : \E seq \in {Sequence(i)} :
        LET m == [s EXCEPT !.pc = s.pc + (IF i.comp THEN 2 ELSE 4)]
        IN /\ s' = m
           /\ want' = IF i.op = "INLINE" THEN m ELSE ZeroX0(execute(m, i))
           /\ output' = IF i.op = "INLINE"
                        THEN << s.x[i.rd], host_output(s, i), BorrowMisread(s, i) >>
                        ELSE << 0, << >>, FALSE >>
           /\ todo' = IF i.op \in Advised /\ i.rd # 0 THEN WithAdvice(i, seq.code) ELSE seq.code
           /\ held' = IF seq.allowed THEN seq.regs ELSE ReservedCount + 1
    /\ prevPc' = s.pc
    /\ UNCHANGED << code, bytecode, pcMap, row, reg, ram, status >>

\* RISCVTrace::trace of the next instruction of the sequence: capture, execute,
\* capture, push.  The last one is followed by the reset of x0.
Cycle ==
    /\ status = "run" /\ todo # << >>
    /\ \E i \in {Head(todo)} : \E after \in {execute([s EXCEPT !.ram = NoRam], i)} :
       LET c == capture(i, s, after)
       IN IF ~after.ok
          THEN /\ status' = "panic"
               /\ todo' = << >>
               /\ UNCHANGED << s, row, reg, ram >>
          ELSE /\ s' = IF Len(todo) = 1 THEN ZeroX0(after) ELSE after
               /\ todo' = Tail(todo)
               /\ row' = << row[2], c >>
               /\ reg' = IF WritesRd(i) THEN [reg EXCEPT ![i.rd] = c.rdpost] ELSE reg
               /\ ram' = IF c.ram.kind = "write" THEN [ram EXCEPT ![c.ram.addr] = c.ram.post]
                         ELSE ram
               /\ UNCHANGED status
    /\ UNCHANGED << code, bytecode, pcMap, prevPc, want, held, output >>

\* the pc did not move: the iterator is finished, and the trace is padded
Halt ==
    /\ status = "run" /\ todo = << >> /\ s.pc = prevPc
    /\ status' = "halt"
    /\ row' = << row[2], NoOpCycle >>
    /\ UNCHANGED << code, bytecode, pcMap, s, prevPc, todo, want, held, output, reg, ram >>

Done == status \in {"halt", "panic"} /\ UNCHANGED vars

Next == Tick \/ Cycle \/ Halt \/ Done
Spec == Init /\ [][Next]_vars

(***************************************************************************)
(* Properties                                                              *)
(***************************************************************************)
TypeOK ==
    /\ s.x \in [Regs -> Words] /\ s.pc \in Words
    /\ reg \in [Regs -> Words] /\ ram \in [DwordAddrs -> Words]
    /\ status \in {"run", "halt", "panic"}

\* a division into x0: Instruction::trace runs its plain sequence, without advice,
\* and VirtualAdvice panics
Unadvised(i) == i.op \in Advised /\ i.rd = 0
\* Once its whole sequence has run, an instruction has left the registers of the
\* guest, memory, the reservation and the pc exactly as `execute` would have; and
\* the sequence panics if and only if `execute` does, or a division is Unadvised.
\* (INLINE has no `execute`: it leaves the guest's registers, the reservation and the
\* pc alone.)
TraceMatchesExecute ==
    todo = << >> =>
        /\ status = "panic" <=> ~want.ok \/ (prevPc # 0 /\ Unadvised(fetch(prevPc)))
        /\ status # "panic" =>
            /\ \A r \in 0 .. RegisterCount - 1 : s.x[r] = want.x[r]
            /\ output[2] = << >> => s.mem = want.mem
            /\ s.res = want.res
            /\ (row[2].i.op # "NoOp" => s.pc = want.pc)

\* An INLINE leaves in memory what the host function of its SDK computes, whatever
\* return address x1 holds; a Montgomery multiplication whose final borrow test x1
\* misleads leaves something else.
InlineMatchesHost ==
    todo = << >> /\ status # "panic" /\ output[2] # << >> =>
        (LoadLimbs(s.mem, output[1], Len(output[2])) = output[2]) = ~output[3]

\* No expansion, however nested, holds more virtual registers than the allocator
\* has (VirtualRegisterAllocator::allocate panics when none is free), and no inline
\* writes registers other than its own.  Between instructions the registers of
\* inlines are zero: the next inline finds them as the first one did.
RegistersSuffice ==
    /\ held <= ReservedCount
    /\ todo = << >> /\ status # "panic" =>
        \A k \in 0 .. InlineCount - 1 : s.x[allocate_for_inline(k)] = 0

Provable(c) == c.i.op \in Queried
\* MIN / -1: to_lookup_output of VirtualChangeDivisor compares the zero-extended
\* divisor with -1, so that its output is the divisor where the emulator wrote 1
OverflowDivisor(c) == c.i.op = "VirtualChangeDivisor" /\ c.rs1 = IntMin /\ c.rs2 = Ones
\* The values the lookup argument commits to: what the emulator writes to rd is the
\* entry of the cycle's table at to_lookup_index, the entry of an assertion that held
\* is 1, and to_lookup_output is that entry, for every cycle but an OverflowDivisor.
LookupIsEntry ==
    LET c == row[2]
    IN Provable(c) =>
        \A q \in {query(c)} : q.table # "none" =>
            \A entry \in {materialize_entry(q.table, to_lookup_index(q, c), c.i.imm)} :
                /\ entry = q.out \/ OverflowDivisor(c)
                /\ "WriteLookupOutputToRD" \in q.flags => c.rdpost = entry
                /\ "Assert" \in q.flags => entry = 1

Row == from_trace(row[1], row[2], get_pc(row[1]), get_pc(row[2]))
Rowed == row[1].i.op # "NoOp" /\ Provable(row[1]) /\ (Provable(row[2]) \/ row[2].i.op = "NoOp")
\* VirtualChangeDivisorW takes the low words of its operands for its instruction
\* inputs, and is flagged to take the registers: the constraints a negative one breaks.
DivisorInputs(c) ==
    IF c.i.op # "VirtualChangeDivisorW" THEN {}
    ELSE (IF Signed(c.rs1) < 0 THEN {"LeftInputEqRs1"} ELSE {})
         \cup (IF Signed(c.rs2) < 0 THEN {"RightInputEqRs2", "RightLookupEqRightInputOtherwise"} ELSE {})
\* Every row of the trace satisfies every constraint of the uniform R1CS, except that
\* an OverflowDivisor does not write its lookup output and that DivisorInputs fail.
R1csSatisfied ==
    Rowed => Violated(Row) \subseteq
                 DivisorInputs(row[1])
                 \cup (IF OverflowDivisor(row[1]) THEN {"RdWriteEqLookupIfWriteLookupToRd"} ELSE {})

\* The prover's evaluations of the A and B sides are those of the constraints.
AgreeOn(u, az, bz) == \A n \in DOMAIN u : az[n] = u[n][1] /\ bz[n] = u[n][2]
EvaluatorsAgree ==
    Rowed => \E r \in {Row} : AgreeOn(UNIFORM_R1CS(r), eval_az_by_name(r), eval_bz_by_name(r))

\* Offline memory checking can succeed: the values a cycle reads from registers
\* other than x0, and the doubleword it finds in RAM, are the ones the traced
\* cycles before it left there.
ReadsSeeTracedWrites ==
    [][LET c == row'[2]
       IN row' # row /\ c.i.op # "NoOp" =>
            /\ c.i.rs1 # 0 /\ c.i.op \notin FormatUJ => c.rs1 = reg[c.i.rs1]
            /\ c.i.rs2 # 0 /\ c.i.op \in FormatBS \cup FormatR => c.rs2 = reg[c.i.rs2]
            /\ c.i.rd # 0 /\ WritesRd(c.i) => c.rdpre = reg[c.i.rd]
            /\ Provable(c) /\ c.ram.kind # "none" => c.ram.pre = ram[c.ram.addr]]_vars

\* The bytecode the verifier commits to holds, at the virtual pc of a cycle, the
\* instruction the tracer ran, advice aside.
CycleIsInBytecode ==
    LET c == row[2]
    IN c.i.op # "NoOp" =>
        [c.i EXCEPT !.adv = NoAdvice] = bytecode[get_pc(c)]
=============================================================================
