--------------------------- MODULE WorkerSumchecks ---------------------------
(***************************************************************************)
(* The workers' sumcheck instances (provia-worker/src/zkvm and, for the     *)
(* public ones that party 0 proves in the clear, jolt-core/src/zkvm).  A    *)
(* worker holds polynomials, so for each instance this module says what     *)
(* they really sum to over the hypercube (sum) and, after the challenges r  *)
(* are bound in the order the code binds them, the claims it sends, the     *)
(* value its last round message reduces to (final) and what it files in its *)
(* own accumulator (calls).  The input is the claim the coordinator sent.   *)
(*                                                                         *)
(* The three workers hold shares of the same values; the values are shown. *)
(***************************************************************************)
EXTENDS Openings

CONSTANT WORKER_SWITCH   \* the worker's own switch index: log2 of T / threads

Worker(name, degree, rounds, gamma, points, input, sum) ==
    [name |-> name, degree |-> degree, rounds |-> rounds, public |-> FALSE,
     gamma |-> gamma, points |-> points, input |-> input, sum |-> sum]
Bound(claims, final, calls) == [claims |-> claims, final |-> final, calls |-> calls]
Product(factors) == {Term({}, factors)}
EvalsAt(polys, point) == [i \in 1 .. Len(polys) |-> Eval(polys[i], point)]
Named(names) == [i \in 1 .. Len(names) |-> Poly(names[i])]

\* The big-endian point that binding r leaves a polynomial at.
HighToLow(r) == r
LowToHigh(r) == Reverse(r)

-----------------------------------------------------------------------------
(* Rep3OpeningAccumulatorWorker: no transcript, no point index.  Public     *)
(* one-hot openings get a reduction but are not stored.                     *)

EmptyWorkerAccumulator == [openings |-> << >>, sumchecks |-> << >>]
\* Mutant: public openings are stored and not reduced.
WorkerAppendPublicUnreduced(acc, call, public) ==
    [openings |-> Folded(LAMBDA o, i : Put(o, Id(call.polys[i], call.id),
                             [point |-> call.point, claim |-> call.claims[i]]),
                         acc.openings, [i \in 1 .. Len(call.polys) |-> i]),
     sumchecks |-> IF public THEN acc.sumchecks ELSE acc.sumchecks \o ReductionsOf(call)]
WorkerAppend(acc, call, public) ==
    [openings |-> IF public /\ call.how = "sparse" THEN acc.openings
                  ELSE Folded(LAMBDA o, i : Put(o, Id(call.polys[i], call.id),
                                    [point |-> call.point, claim |-> call.claims[i]]),
                                acc.openings, [i \in 1 .. Len(call.polys) |-> i]),
     sumchecks |-> acc.sumchecks \o ReductionsOf(call)]
WorkerPoint(acc, poly, id) == acc.openings[Id(poly, id)].point
WorkerClaim(acc, poly, id) == acc.openings[Id(poly, id)].claim

-----------------------------------------------------------------------------
(* spartan *)

Rep3InnerSumcheckWorker(gamma, input_claim, outer_sumcheck_r) ==
    Worker("inner", 2, LOG_VARS, <<gamma>>, <<outer_sumcheck_r>>, input_claim,
           Weighted(gamma, EvalsAt(Named(<<"SpartanAz", "SpartanBz", "SpartanCz">>), outer_sumcheck_r)))
Rep3InnerSumcheckWorker_bound(inst, acc, r) ==
    LET rx_var == Drop(inst.points[1], LOG_T)
        claimed_witness_evals == EvalsAt(ALL_R1CS_INPUTS, Take(inst.points[1], LOG_T))
        y == HighToLow(r) IN
    Bound(<<>>, Times({SegmentEvals(claimed_witness_evals, y)},
                      Weighted(inst.gamma[1], [m \in 1 .. 3 |-> UniformEval(m, rx_var, y)])), <<>>)

PCSumcheckProver(acc, gamma, input_claim) ==
    LET r_cycle == WorkerPoint(acc, Poly("NextPC"), Outer) IN
    Worker("pc", 2, Len(r_cycle), <<gamma>>, <<r_cycle>>, input_claim,
           Weighted(gamma, EvalsAt(Named(<<"NextUnexpandedPC", "NextPC", "NextIsNoop">>), r_cycle)))
PCSumcheckProver_bound(inst, acc, r) ==
    LET polys == <<Poly("UnexpandedPC"), Poly("PC"), IsNoop>>
        claims == EvalsAt(polys, HighToLow(r)) IN
    Bound(claims, Times({EqPlusOneAt(inst.points[1], HighToLow(r))}, Weighted(inst.gamma[1], claims)),
          [i \in 1 .. 3 |-> Virtual(polys[i], "SpartanShift", r, claims[i])])

Rep3ProductVirtualizationSumcheckWorker(acc, input_claim) ==
    LET r_cycle == WorkerPoint(acc, Poly("Product"), Outer) IN
    Worker("product", 3, Len(r_cycle), <<>>, <<r_cycle>>, input_claim,
           Product({Eval(Poly("Product"), r_cycle)}))
Rep3ProductVirtualizationSumcheckWorker_bound(inst, acc, r) ==
    LET polys == Named(<<"LeftInstructionInput", "RightInstructionInput">>)
        claims == EvalsAt(polys, LowToHigh(r)) IN
    Bound(claims, Product(EqAt(inst.points[1], LowToHigh(r)) \union Range(claims)),
          <<Dense(polys, "ProductVirtualization", Reverse(r), claims)>>)

-----------------------------------------------------------------------------
(* registers *)

\* Mutant: phase 2 binds the remaining cycle variables from the low end too.
BoundReadWriteLow(r) ==
    HighToLow(Drop(r, LOG_T)) \o LowToHigh(Take(r, LOG_T))
\* Phase 1 binds the cycle variables of a chunk from the low end, phase 2 the
\* remaining ones and phase 3 the address from the high end.
BoundReadWrite(r) ==
    HighToLow(Drop(r, LOG_T)) \o HighToLow(SubSeq(r, WORKER_SWITCH + 1, LOG_T))
    \o LowToHigh(Take(r, WORKER_SWITCH))

Rep3RegistersReadWriteCheckingWorker(acc, gamma, input_claim) ==
    LET r_cycle == WorkerPoint(acc, Poly("Rs1Value"), Outer) IN
    Worker("registers_rwc", 3, LOG_REGISTERS + LOG_T, <<gamma>>, <<r_cycle>>, input_claim,
           Weighted(gamma, EvalsAt(Named(<<"RdWriteValue", "Rs1Value", "Rs2Value">>), r_cycle)))
Rep3RegistersReadWriteCheckingWorker_bound(inst, acc, r) ==
    LET point == BoundReadWrite(r)
        r_cycle == Drop(point, LOG_REGISTERS)
        polys == Named(<<"RegistersVal", "Rs1Ra", "Rs2Ra", "RdWa">>)
        claims == EvalsAt(polys, point) \o <<Eval(Poly("RdInc"), r_cycle)>>
        eq == EqAt(inst.points[1], r_cycle)
        g(e) == Pow(inst.gamma[1], e) IN
    Bound(claims,
          {Term({}, eq \union {claims[4], claims[5]}), Term({}, eq \union {claims[4], claims[1]}),
           Term(g(1), eq \union {claims[2], claims[1]}), Term(g(2), eq \union {claims[3], claims[1]})},
          [i \in 1 .. 4 |-> Virtual(polys[i], RegRWC, point, claims[i])]
          \o <<Dense(<<Poly("RdInc")>>, RegRWC, r_cycle, <<claims[5]>>)>>)

Rep3ValEvaluationWorker(acc, input_claim) ==
    LET point == WorkerPoint(acc, Poly("RegistersVal"), RegRWC) IN
    Worker("registers_val", 3, LOG_T, <<>>, <<Take(point, LOG_REGISTERS), Drop(point, LOG_REGISTERS)>>,
           input_claim, Product({Eval(Poly("RegistersVal"), point)}))
Rep3ValEvaluationWorker_bound(inst, acc, r) ==
    LET r_cycle_prime == HighToLow(r)
        claims == <<Eval(Poly("RdInc"), r_cycle_prime), Eval(Poly("RdWa"), inst.points[1] \o r_cycle_prime)>> IN
    Bound(claims, Product(Range(claims) \union {LtAt(r_cycle_prime, inst.points[2])}),
          <<Dense(<<Poly("RdInc")>>, RegVal, r, <<claims[1]>>),
            Virtual(Poly("RdWa"), RegVal, inst.points[1] \o r, claims[2])>>)

-----------------------------------------------------------------------------
(* ram, stages 2 and 3 *)

\* The only instance whose input claim is the worker's own share.
Rep3RafEvaluationWorker(acc) ==
    LET r_cycle == WorkerPoint(acc, Poly("RamAddress"), Outer) IN
    Worker("ram_raf", 2, LOG_K_RAM, <<>>, <<r_cycle>>, Product({WorkerClaim(acc, Poly("RamAddress"), Outer)}),
           Product({Eval(Poly("RamAddress"), r_cycle)}))
Rep3RafEvaluationWorker_bound(inst, acc, r) ==
    LET ra == Eval(Poly("RamRa"), HighToLow(r) \o inst.points[1]) IN
    Bound(<<ra>>, Product({Eval(Poly("unmap_ram_address"), HighToLow(r)), ra}),
          <<Virtual(Poly("RamRa"), "RamRafEvaluation", r \o WorkerPoint(acc, Poly("RamAddress"), Outer), ra)>>)

Rep3RamReadWriteCheckingWorker(acc, gamma, input_claim) ==
    LET r_cycle == WorkerPoint(acc, Poly("RamReadValue"), Outer) IN
    Worker("ram_rwc", 3, LOG_K_RAM + LOG_T, <<gamma>>, <<r_cycle>>, input_claim,
           Weighted(gamma, EvalsAt(Named(<<"RamReadValue", "RamWriteValue">>), r_cycle)))
Rep3RamReadWriteCheckingWorker_bound(inst, acc, r) ==
    LET point == BoundReadWrite(r)
        r_cycle == Drop(point, LOG_K_RAM)
        claims == <<Eval(Poly("RamVal"), point), Eval(Poly("RamRa"), point), Eval(Poly("RamInc"), r_cycle)>>
        eq == EqAt(inst.points[1], r_cycle)
        g == Pow(inst.gamma[1], 1) IN
    Bound(claims,
          {Term({}, eq \union {claims[2], claims[1]}), Term(g, eq \union {claims[2], claims[1]}),
           Term(g, eq \union {claims[2], claims[3]})},
          <<Virtual(Poly("RamVal"), RamRWC, point, claims[1]), Virtual(Poly("RamRa"), RamRWC, point, claims[2]),
            Dense(<<Poly("RamInc")>>, RamRWC, r_cycle, <<claims[3]>>)>>)

Rep3OutputSumcheckWorker(r_address) ==
    Worker("output", 3, LOG_K_RAM, <<>>, <<r_address>>, {}, {})
Rep3OutputSumcheckWorker_bound(inst, acc, r) ==
    LET r_prime == HighToLow(r)
        claims == EvalsAt(Named(<<"RamValFinal", "RamValInit">>), r_prime)
        mask == EqAt(inst.points[1], r_prime) \union {Eval(Poly("io_mask"), r_prime)} IN
    Bound(claims,
          {Term({}, mask \union {claims[1]}), Term(Neg, mask \union {Eval(Poly("val_io"), r_prime)})},
          <<Virtual(Poly("RamValFinal"), Output, r, claims[1]),
            Virtual(Poly("RamValInit"), Output, r, claims[2])>>)

\* eval_val_init at RamVal's address: what a worker sends before stage 3.
eval_val_init(acc) == Eval(Poly("RamValInit"), Take(WorkerPoint(acc, Poly("RamVal"), RamRWC), LOG_K_RAM))

Rep3RamValEvaluationWorker(acc, input_claim) ==
    LET point == WorkerPoint(acc, Poly("RamVal"), RamRWC)
        r_address == Take(point, LOG_K_RAM) IN
    Worker("ram_val", 3, LOG_T, <<>>, <<r_address, Drop(point, LOG_K_RAM)>>, input_claim,
           {Term({}, {Eval(Poly("RamVal"), point)}), Term(Neg, {Eval(Poly("RamValInit"), r_address)})})
Rep3RamValEvaluationWorker_bound(inst, acc, r) ==
    LET r_cycle_prime == HighToLow(r)
        claims == <<Eval(Poly("RamInc"), r_cycle_prime), Eval(Poly("RamRa"), inst.points[1] \o r_cycle_prime)>> IN
    Bound(claims, Product(Range(claims) \union {LtAt(r_cycle_prime, inst.points[2])}),
          <<Virtual(Poly("RamRa"), "RamValEvaluation", inst.points[1] \o r, claims[2]),
            Dense(<<Poly("RamInc")>>, "RamValEvaluation", r, <<claims[1]>>)>>)

Rep3ValFinalSumcheckWorker(acc, input_claim) ==
    LET r_address == WorkerPoint(acc, Poly("RamValFinal"), Output) IN
    Worker("ram_val_final", 2, LOG_T, <<>>, <<r_address>>, input_claim,
           {Term({}, {Eval(Poly("RamValFinal"), r_address)}), Term(Neg, {Eval(Poly("RamValInit"), r_address)})})
Rep3ValFinalSumcheckWorker_bound(inst, acc, r) ==
    LET r_cycle_prime == HighToLow(r)
        claims == <<Eval(Poly("RamInc"), r_cycle_prime), Eval(Poly("RamRa"), inst.points[1] \o r_cycle_prime)>> IN
    Bound(claims, Product(Range(claims)),
          <<Dense(<<Poly("RamInc")>>, "RamValFinalEvaluation", r, <<claims[1]>>),
            Virtual(Poly("RamRa"), "RamValFinalEvaluation", inst.points[1] \o r, claims[2])>>)

HammingBooleanityProver(acc) ==
    LET r_cycle == WorkerPoint(acc, Poly("LookupOutput"), Outer) IN
    Worker("ram_hamming_booleanity", 3, Len(r_cycle), <<>>, <<r_cycle>>, {}, {})
HammingBooleanityProver_bound(inst, acc, r) ==
    LET claims == <<Eval(Poly("RamHammingWeight"), LowToHigh(r))>> IN
    Bound(claims, Times(EqAt(inst.points[1], LowToHigh(r)), BooleanityOf(1, claims)),
          <<Virtual(Poly("RamHammingWeight"), HammingBooleanity, Reverse(r), claims[1])>>)

-----------------------------------------------------------------------------
(* instruction lookups *)

Rep3BooleanitySumcheckWorker(acc, gamma, r_address) ==
    LET r_cycle == WorkerPoint(acc, Poly("LookupOutput"), Outer) IN
    Worker("lookups_booleanity", 3, LOG_K_CHUNK + Len(r_cycle), <<gamma>>, <<r_address, r_cycle>>, {}, {})
Rep3BooleanitySumcheckWorker_bound(inst, acc, r) ==
    LET r_address == LowToHigh(Take(r, LOG_K_CHUNK))
        r_cycle == LowToHigh(Drop(r, LOG_K_CHUNK))
        claims == EvalsAt(InstructionRas, r_address \o r_cycle) IN
    Bound(claims,
          Times(EqAt(inst.points[1], r_address) \union EqAt(inst.points[2], r_cycle),
                BooleanityOf(inst.gamma[1], claims)),
          <<Sparse(InstructionRas, "InstructionBooleanity",
                   Reverse(Take(r, LOG_K_CHUNK)) \o Reverse(Drop(r, LOG_K_CHUNK)), claims)>>)

\* The input claim is rv_claim + gamma * raf_claim, both from the coordinator.
Rep3ReadRafSumcheckWorker(acc, gamma, rv_claim, raf_claim) ==
    LET r_cycle == WorkerPoint(acc, Poly("LookupOutput"), Outer) IN
    Worker("lookups_read_raf", 3, LOG_K + Len(r_cycle), <<gamma>>, <<r_cycle>>,
           rv_claim \union {Term({<<gamma, 1 + (IF t[1] = {} THEN 0 ELSE 1)>>}, t[2]) : t \in raf_claim},
           Weighted(gamma, EvalsAt(Named(<<"LookupOutput", "LeftLookupOperand", "RightLookupOperand">>), r_cycle)))
Rep3ReadRafSumcheckWorker_bound(inst, acc, r) ==
    LET r_address == HighToLow(Take(r, LOG_K))
        r_cycle == HighToLow(Drop(r, LOG_K))
        flags == EvalsAt(LookupTableFlags, r_cycle)
        ra == Eval(Poly("InstructionRa"), r_address \o r_cycle)
        raf == Eval(Poly("InstructionRafFlag"), r_cycle)
        left == Eval(Poly("left_operand"), r_address)
        right == Eval(Poly("right_operand"), r_address)
        g(e) == Pow(inst.gamma[1], e) IN
    Bound(flags \o <<ra, raf>>,
          Times(EqAt(inst.points[1], r_cycle) \union {ra},
                {Term({}, {Eval(<<"lookup_table", i - 1>>, r_address), flags[i]}) : i \in 1 .. NUM_TABLES}
                \union {Term(g(1), {left}), Term(g(2), {right}), Term(g(1) \union Neg, {left, raf}),
                        Term(g(2) \union Neg, {right, raf}),
                        Term(g(2), {raf, Eval(Poly("identity"), r_address)})}),
          [i \in 1 .. NUM_TABLES |-> Virtual(LookupTableFlag(i - 1), ReadRaf, r_cycle, flags[i])]
          \o <<Virtual(Poly("InstructionRa"), ReadRaf, r, ra),
               Virtual(Poly("InstructionRafFlag"), ReadRaf, r_cycle, raf)>>)

Rep3HammingWeightSumcheckWorker(acc, gamma) ==
    Worker("lookups_hamming", 1, LOG_K_CHUNK, <<gamma>>, <<WorkerPoint(acc, Poly("LookupOutput"), Outer)>>,
           GammaSum(gamma, D), GammaSum(gamma, D))
Rep3HammingWeightSumcheckWorker_bound(inst, acc, r) ==
    LET claims == EvalsAt(InstructionRas, LowToHigh(r) \o inst.points[1]) IN
    Bound(claims, Weighted(inst.gamma[1], claims),
          <<Sparse(InstructionRas, "InstructionHammingWeight",
                   Reverse(r) \o WorkerPoint(acc, Poly("LookupOutput"), Outer), claims)>>)

Rep3InstructionRaSumcheckWorker(r_address, r_cycle, input_claim) ==
    Worker("lookups_ra", D + 1, Len(r_cycle), <<>>, <<r_cycle>> \o ChunksOf(r_address, LOG_K_CHUNK),
           input_claim, Product({Eval(Poly("InstructionRa"), r_address \o r_cycle)}))
Rep3InstructionRaSumcheckWorker_bound(inst, acc, r) ==
    LET claims == [i \in 1 .. D |-> Eval(InstructionRa(i - 1), inst.points[i + 1] \o HighToLow(r))] IN
    Bound(claims, Product(EqAt(inst.points[1], HighToLow(r)) \union Range(claims)),
          [i \in 1 .. D |-> Sparse(<<InstructionRa(i - 1)>>, RaVirtual, inst.points[i + 1] \o r, <<claims[i]>>)])

-----------------------------------------------------------------------------
(* ram, stage 4: public *)

RamHammingWeightProver(acc, gamma, input_claim) ==
    LET r_cycle == WorkerPoint(acc, Poly("RamHammingWeight"), HammingBooleanity) IN
    Worker("ram_hamming", 1, RAM_CHUNK, <<gamma>>, <<r_cycle>>, input_claim,
           Times({Eval(Poly("RamHammingWeight"), r_cycle)}, GammaSum(gamma, RAM_D)))
RamHammingWeightProver_bound(inst, acc, r) ==
    LET claims == EvalsAt(RamRas, LowToHigh(r) \o inst.points[1]) IN
    Bound(claims, Weighted(inst.gamma[1], claims),
          <<Sparse(RamRas, "RamHammingWeight",
                   Reverse(r) \o WorkerPoint(acc, Poly("RamHammingWeight"), HammingBooleanity), claims)>>)

RamBooleanityProver(gamma, r_cycle, r_address) ==
    Worker("ram_booleanity", 3, RAM_CHUNK + LOG_T, <<gamma>>, <<r_cycle, r_address>>, {}, {})
RamBooleanityProver_bound(inst, acc, r) ==
    LET r_address == LowToHigh(Take(r, RAM_CHUNK))
        r_cycle == LowToHigh(Drop(r, RAM_CHUNK))
        claims == EvalsAt(RamRas, r_address \o r_cycle) IN
    Bound(claims,
          Times(EqAt(inst.points[2], r_address) \union EqAt(inst.points[1], r_cycle),
                BooleanityOf(inst.gamma[1], claims)),
          <<Sparse(RamRas, "RamBooleanity", Reverse(Take(r, RAM_CHUNK)) \o Reverse(Drop(r, RAM_CHUNK)), claims)>>)

\* r_address_chunks cover RAM_D chunks; the leading zeros are the padding.
RamRaProver(gamma, input_claim, r_cycles, r_address_chunks) ==
    LET padded == FlattenSeq(r_address_chunks)
        r_address == Drop(padded, Len(padded) - LOG_K_RAM) IN
    Worker("ram_ra", RAM_D + 1, LOG_T, <<gamma>>, r_cycles \o r_address_chunks, input_claim,
           Weighted(gamma, [k \in 1 .. 3 |-> Eval(Poly("RamRa"), r_address \o r_cycles[k])]))
RamRaProver_bound(inst, acc, r) ==
    LET claims == [i \in 1 .. RAM_D |-> Eval(RamRa(i - 1), inst.points[i + 3] \o LowToHigh(r))] IN
    Bound(claims,
          {Term(Pow(inst.gamma[1], k - 1), EqAt(inst.points[k], LowToHigh(r)) \union Range(claims)) : k \in 1 .. 3},
          [i \in 1 .. RAM_D |-> Sparse(<<RamRa(i - 1)>>, "RamRaVirtualization",
                                       inst.points[i + 3] \o Reverse(r), <<claims[i]>>)])

-----------------------------------------------------------------------------
(* bytecode: public *)

\* r_cycles and, inside val_polys, the register points come from the
\* coordinator; a register read is at its register point and the cycle.
BytecodeReadRafProver(gamma, input_claim, r_cycles, r_registers) ==
    LET at(k, id) ==
            LET register == id[1] \in {"RdWa", "Rs1Ra", "Rs2Ra"} IN
            Eval(underlying_polynomial_id(id), (IF register THEN r_registers[k] ELSE <<>>) \o r_cycles[k])
        reads == [k \in 1 .. 3 |-> [i \in 1 .. Len(BytecodeReads[k]) |-> at(k, BytecodeReads[k][i])]]
        pcs == <<Eval(Poly("PC"), r_cycles[1]), Eval(Poly("PC"), r_cycles[3])>> IN
    Worker("bytecode_read_raf", BYTECODE_D + 1, LOG_K_BYTECODE + LOG_T, gamma, r_cycles \o r_registers,
           input_claim, BytecodeTerms(gamma, reads, pcs))
BytecodeReadRafProver_bound(inst, acc, r) ==
    LET r_address == HighToLow(Take(r, LOG_K_BYTECODE))
        r_cycle == LowToHigh(Drop(r, LOG_K_BYTECODE))
        chunks == ChunksOf(r_address, BYTECODE_CHUNK)
        claims == [i \in 1 .. BYTECODE_D |-> Eval(BytecodeRa(i - 1), chunks[i] \o r_cycle)]
        at(k) == EqAt(inst.points[k], r_cycle) \union Range(claims)
        int == Eval(Poly("identity"), r_address)
        g(e) == Pow(inst.gamma[1], e) IN
    Bound(claims,
          {Term(g(k - 1), at(k) \union {BytecodeVal(k, inst.gamma[k + 1], inst.points[k + 3], r_address)})
             : k \in 1 .. 3}
          \union {Term(g(3), at(1) \union {int}), Term(g(4), at(3) \union {int})},
          [i \in 1 .. BYTECODE_D |->
              Sparse(<<BytecodeRa(i - 1)>>, "BytecodeReadRaf",
                     chunks[i] \o Reverse(Drop(r, LOG_K_BYTECODE)), <<claims[i]>>)])

BytecodeBooleanityProver(acc, gamma, r_address) ==
    Worker("bytecode_booleanity", 3, BYTECODE_CHUNK + LOG_T, <<gamma>>,
           <<r_address, WorkerPoint(acc, Poly("UnexpandedPC"), Outer)>>, {}, {})
BytecodeBooleanityProver_bound(inst, acc, r) ==
    LET r_address == LowToHigh(Take(r, BYTECODE_CHUNK))
        r_cycle == LowToHigh(Drop(r, BYTECODE_CHUNK))
        claims == EvalsAt(BytecodeRas, r_address \o r_cycle) IN
    Bound(claims,
          Times(EqAt(inst.points[1], r_address) \union EqAt(inst.points[2], r_cycle),
                BooleanityOf(inst.gamma[1], claims)),
          <<Sparse(BytecodeRas, "BytecodeBooleanity",
                   Reverse(Take(r, BYTECODE_CHUNK)) \o Reverse(Drop(r, BYTECODE_CHUNK)), claims)>>)

\* The histograms F are at UnexpandedPC's cycle, the opening is filed at
\* LookupOutput's.
BytecodeHammingWeightProver(acc, gamma) ==
    Worker("bytecode_hamming", 1, BYTECODE_CHUNK, <<gamma>>, <<WorkerPoint(acc, Poly("UnexpandedPC"), Outer)>>,
           GammaSum(gamma, BYTECODE_D), GammaSum(gamma, BYTECODE_D))
BytecodeHammingWeightProver_bound(inst, acc, r) ==
    LET claims == EvalsAt(BytecodeRas, LowToHigh(r) \o inst.points[1]) IN
    Bound(claims, Weighted(inst.gamma[1], claims),
          <<Sparse(BytecodeRas, "BytecodeHammingWeight",
                   Reverse(r) \o WorkerPoint(acc, Poly("LookupOutput"), Outer), claims)>>)

-----------------------------------------------------------------------------
(* Rep3JoltDagStagesWorker: the instances of a stage, built from the        *)
(* coordinator's requests (gammas, claims, points) and the accumulator.     *)

AsPublic(instances) == [i \in 1 .. Len(instances) |-> [instances[i] EXCEPT !.public = TRUE]]

stage2_instances(acc, outer_sumcheck_r, reqs) ==
    LET spartan == reqs[1]
        registers == reqs[2]
        ram == reqs[3]
        lookups == reqs[4] IN
    <<Rep3InnerSumcheckWorker(spartan.gammas[1], spartan.claims[1], outer_sumcheck_r),
      Rep3RegistersReadWriteCheckingWorker(acc, registers.gammas[1], registers.claims[1]),
      Rep3RafEvaluationWorker(acc),
      Rep3RamReadWriteCheckingWorker(acc, ram.gammas[1], ram.claims[1]),
      Rep3OutputSumcheckWorker(ram.points[1]),
      Rep3BooleanitySumcheckWorker(acc, lookups.gammas[1], lookups.points[1])>>

stage3_instances(acc, reqs) ==
    LET spartan == reqs[1]
        claims == reqs[2]
        read_raf == reqs[3] IN
    AsPublic(<<PCSumcheckProver(acc, spartan.gammas[1], spartan.claims[1])>>)
    \o <<Rep3ProductVirtualizationSumcheckWorker(acc, spartan.claims[2]),
         Rep3ValEvaluationWorker(acc, claims.claims[1]),
         Rep3ReadRafSumcheckWorker(acc, read_raf.gammas[1], read_raf.claims[1], read_raf.claims[2]),
         Rep3HammingWeightSumcheckWorker(acc, claims.gammas[1]),
         Rep3RamValEvaluationWorker(acc, claims.claims[3]),
         Rep3ValFinalSumcheckWorker(acc, claims.claims[2])>>
    \o AsPublic(<<HammingBooleanityProver(acc)>>)

stage4_instances(acc, reqs) ==
    LET ram == reqs[1].ram
        bytecode == reqs[1].bytecode
        lookups == reqs[1].lookups IN
    AsPublic(<<RamHammingWeightProver(acc, ram.gammas[1], ram.claims[1]),
               RamBooleanityProver(ram.gammas[2], ram.points[1], ram.points[2]),
               RamRaProver(ram.gammas[3], ram.claims[2], SubSeq(ram.points, 3, 5), Drop(ram.points, 5)),
               BytecodeReadRafProver(SubSeq(bytecode.gammas, 1, 4), bytecode.claims[1],
                                     SubSeq(bytecode.points, 1, 3), SubSeq(bytecode.points, 4, 6)),
               BytecodeBooleanityProver(acc, bytecode.gammas[5], bytecode.points[7]),
               BytecodeHammingWeightProver(acc, bytecode.gammas[6])>>)
    \o <<Rep3InstructionRaSumcheckWorker(lookups.points[1], lookups.points[2], lookups.claims[1])>>

\* What an instance's code does at the end of the sumcheck.
bound(inst, acc, r) ==
    CASE inst.name = "inner" -> Rep3InnerSumcheckWorker_bound(inst, acc, r)
      [] inst.name = "pc" -> PCSumcheckProver_bound(inst, acc, r)
      [] inst.name = "product" -> Rep3ProductVirtualizationSumcheckWorker_bound(inst, acc, r)
      [] inst.name = "registers_rwc" -> Rep3RegistersReadWriteCheckingWorker_bound(inst, acc, r)
      [] inst.name = "registers_val" -> Rep3ValEvaluationWorker_bound(inst, acc, r)
      [] inst.name = "ram_raf" -> Rep3RafEvaluationWorker_bound(inst, acc, r)
      [] inst.name = "ram_rwc" -> Rep3RamReadWriteCheckingWorker_bound(inst, acc, r)
      [] inst.name = "output" -> Rep3OutputSumcheckWorker_bound(inst, acc, r)
      [] inst.name = "ram_val" -> Rep3RamValEvaluationWorker_bound(inst, acc, r)
      [] inst.name = "ram_val_final" -> Rep3ValFinalSumcheckWorker_bound(inst, acc, r)
      [] inst.name = "ram_hamming_booleanity" -> HammingBooleanityProver_bound(inst, acc, r)
      [] inst.name = "lookups_booleanity" -> Rep3BooleanitySumcheckWorker_bound(inst, acc, r)
      [] inst.name = "lookups_read_raf" -> Rep3ReadRafSumcheckWorker_bound(inst, acc, r)
      [] inst.name = "lookups_hamming" -> Rep3HammingWeightSumcheckWorker_bound(inst, acc, r)
      [] inst.name = "lookups_ra" -> Rep3InstructionRaSumcheckWorker_bound(inst, acc, r)
      [] inst.name = "ram_hamming" -> RamHammingWeightProver_bound(inst, acc, r)
      [] inst.name = "ram_booleanity" -> RamBooleanityProver_bound(inst, acc, r)
      [] inst.name = "ram_ra" -> RamRaProver_bound(inst, acc, r)
      [] inst.name = "bytecode_read_raf" -> BytecodeReadRafProver_bound(inst, acc, r)
      [] inst.name = "bytecode_booleanity" -> BytecodeBooleanityProver_bound(inst, acc, r)
      [] inst.name = "bytecode_hamming" -> BytecodeHammingWeightProver_bound(inst, acc, r)
=============================================================================
