-------------------------- MODULE VerifierSumchecks --------------------------
(***************************************************************************)
(* The verifier's sumcheck instances (jolt-core/src/zkvm): the same four    *)
(* definitions per instance as the coordinator's, translated from the       *)
(* verifier's own code.  cache_openings_verifier files points only: the     *)
(* claims came with the proof.                                              *)
(***************************************************************************)
EXTENDS Openings

VirtualAt(poly, id, point) == Virtual(poly, id, point, Zero)
DenseAt(polys, id, point) == Dense(polys, id, point, <<>>)
SparseAt(polys, id, point) == Sparse(polys, id, point, <<>>)

-----------------------------------------------------------------------------
(* spartan *)

InnerSumcheck(acc, gamma) ==
    Instance("inner", 2, LOG_VARS, <<gamma>>, <<PointOf(acc, Poly("SpartanAz"), Outer)>>,
             Weighted(gamma, OuterClaims(acc, <<"SpartanAz", "SpartanBz", "SpartanCz">>)))
InnerSumcheck_expected(inst, acc, r) ==
    LET rx_var == Drop(inst.points[1], LOG_T)
        left == Weighted(inst.gamma[1], [m \in 1 .. 3 |-> UniformEval(m, rx_var, r)]) IN
    Times({SegmentEvals(ClaimsOf(acc, ALL_R1CS_INPUTS, Outer), r)}, left)
InnerSumcheck_cache(inst, acc, r) == <<>>
InnerSumcheck_constraint(inst) ==
    Weighted(inst.gamma[1], Ids(<<"SpartanAz", "SpartanBz", "SpartanCz">>, Outer))

PCSumcheck(acc, gamma) ==
    Instance("pc", 2, Len(PointOf(acc, Poly("NextPC"), Outer)), <<gamma>>, <<>>,
             Weighted(gamma, OuterClaims(acc, <<"NextUnexpandedPC", "NextPC", "NextIsNoop">>)))
ShiftedPolys == <<Poly("UnexpandedPC"), Poly("PC"), IsNoop>>
PCSumcheck_expected(inst, acc, r) ==
    LET r_cycle == Take(PointOf(acc, Poly("NextPC"), Outer), inst.rounds) IN
    Times({EqPlusOneAt(r_cycle, r)},
          Weighted(inst.gamma[1], ClaimsOf(acc, ShiftedPolys, "SpartanShift")))
PCSumcheck_cache(inst, acc, r) ==
    [i \in 1 .. 3 |-> VirtualAt(ShiftedPolys[i], "SpartanShift", r)]
PCSumcheck_constraint(inst) ==
    Weighted(inst.gamma[1], Ids(<<"NextUnexpandedPC", "NextPC", "NextIsNoop">>, Outer))

ProductFactors == <<Poly("LeftInstructionInput"), Poly("RightInstructionInput")>>
ProductVirtualizationSumcheck(acc) ==
    Instance("product", 3, Len(PointOf(acc, Poly("Product"), Outer)), <<>>,
             <<PointOf(acc, Poly("Product"), Outer)>>, {Term({}, {OuterClaim(acc, "Product")})})
ProductVirtualizationSumcheck_expected(inst, acc, r) ==
    LET r_cycle == Take(PointOf(acc, Poly("Product"), Outer), inst.rounds) IN
    {Term({}, EqAt(Reverse(r), r_cycle) \union Range(ClaimsOf(acc, ProductFactors, "ProductVirtualization")))}
ProductVirtualizationSumcheck_cache(inst, acc, r) ==
    <<DenseAt(ProductFactors, "ProductVirtualization", Reverse(r))>>
ProductVirtualizationSumcheck_constraint(inst) == {Term({}, {Id(Poly("Product"), Outer)})}

-----------------------------------------------------------------------------
(* registers *)

\* normalize_opening_point and the eq of expected_output_claim (mle_endian) of
\* both read-write checkings.
ReadWritePoint(r) ==
    Drop(r, LOG_T) \o SubSeq(r, SWITCH + 1, LOG_T) \o Reverse(Take(r, SWITCH))
ReadWriteEq(r_prime, r) ==
    EqAt(Reverse(r_prime), Take(r, SWITCH) \o Reverse(SubSeq(r, SWITCH + 1, LOG_T)))

RegistersReadWriteChecking(acc, gamma) ==
    Instance("registers_rwc", 3, LOG_REGISTERS + LOG_T, <<gamma>>, <<PointOf(acc, Poly("Rs1Value"), Outer)>>,
             Weighted(gamma, OuterClaims(acc, <<"RdWriteValue", "Rs1Value", "Rs2Value">>)))
RegistersReadWriteChecking_expected(inst, acc, r) ==
    LET claim(name) == ClaimOf(acc, Poly(name), RegRWC)
        g(e) == Pow(inst.gamma[1], e) IN
    Times(ReadWriteEq(PointOf(acc, Poly("Rs1Value"), Outer), r),
          {Term({}, {claim("RdWa"), claim("RdInc")}),
           Term({}, {claim("RdWa"), claim("RegistersVal")}),
           Term(g(1), {claim("Rs1Ra"), claim("RegistersVal")}),
           Term(g(2), {claim("Rs2Ra"), claim("RegistersVal")})})
RegistersReadWriteChecking_cache(inst, acc, r) ==
    LET point == ReadWritePoint(r)
        polys == <<"RegistersVal", "Rs1Ra", "Rs2Ra", "RdWa">> IN
    [i \in 1 .. 4 |-> VirtualAt(Poly(polys[i]), RegRWC, point)]
    \o <<DenseAt(<<Poly("RdInc")>>, RegRWC, Drop(point, LOG_REGISTERS))>>
RegistersReadWriteChecking_constraint(inst) ==
    Weighted(inst.gamma[1], Ids(<<"RdWriteValue", "Rs1Value", "Rs2Value">>, Outer))

RegistersValPoint(acc) == PointOf(acc, Poly("RegistersVal"), RegRWC)
RegistersValEvaluation(acc) ==
    Instance("registers_val", 3, LOG_T, <<>>, <<Drop(RegistersValPoint(acc), LOG_REGISTERS)>>,
             {Term({}, {ClaimOf(acc, Poly("RegistersVal"), RegRWC)})})
RegistersValEvaluation_expected(inst, acc, r) ==
    {Term({}, {ClaimOf(acc, Poly("RdInc"), RegVal), ClaimOf(acc, Poly("RdWa"), RegVal),
               LtAt(r, Drop(RegistersValPoint(acc), LOG_REGISTERS))})}
RegistersValEvaluation_cache(inst, acc, r) ==
    <<DenseAt(<<Poly("RdInc")>>, RegVal, r),
      VirtualAt(Poly("RdWa"), RegVal, Take(RegistersValPoint(acc), LOG_REGISTERS) \o r)>>
RegistersValEvaluation_constraint(inst) == {Term({}, {Id(Poly("RegistersVal"), RegRWC)})}

-----------------------------------------------------------------------------
(* ram *)

\* The ra claim is read when the instance is made.
RafEvaluationSumcheck(acc) ==
    Instance("ram_raf", 2, LOG_K_RAM, <<>>, << <<ClaimOf(acc, Poly("RamRa"), "RamRafEvaluation")>> >>,
             {Term({}, {OuterClaim(acc, "RamAddress")})})
RafEvaluationSumcheck_expected(inst, acc, r) ==
    {Term({}, {Eval(Poly("unmap_ram_address"), r), inst.points[1][1]})}
RafEvaluationSumcheck_cache(inst, acc, r) ==
    <<VirtualAt(Poly("RamRa"), "RamRafEvaluation", r \o PointOf(acc, Poly("RamAddress"), Outer))>>
RafEvaluationSumcheck_constraint(inst) == {Term({}, {Id(Poly("RamAddress"), Outer)})}

RamReadWriteChecking(acc, gamma) ==
    Instance("ram_rwc", 3, LOG_K_RAM + LOG_T, <<gamma>>, <<PointOf(acc, Poly("RamReadValue"), Outer)>>,
             Weighted(gamma, OuterClaims(acc, <<"RamReadValue", "RamWriteValue">>)))
RamReadWriteChecking_expected(inst, acc, r) ==
    LET claim(name) == ClaimOf(acc, Poly(name), RamRWC)
        g == Pow(inst.gamma[1], 1) IN
    Times(ReadWriteEq(inst.points[1], r) \union {claim("RamRa")},
          {Term({}, {claim("RamVal")}), Term(g, {claim("RamVal")}), Term(g, {claim("RamInc")})})
RamReadWriteChecking_cache(inst, acc, r) ==
    LET point == ReadWritePoint(r) IN
    <<VirtualAt(Poly("RamVal"), RamRWC, point), VirtualAt(Poly("RamRa"), RamRWC, point),
      DenseAt(<<Poly("RamInc")>>, RamRWC, Drop(point, LOG_K_RAM))>>
RamReadWriteChecking_constraint(inst) ==
    Weighted(inst.gamma[1], Ids(<<"RamReadValue", "RamWriteValue">>, Outer))

OutputSumcheck(r_address) == Instance("output", 3, LOG_K_RAM, <<>>, <<r_address>>, {})
OutputSumcheck_expected(inst, acc, r) ==
    LET r_address_prime == Take(r, Len(inst.points[1])) IN
    Times(EqAt(inst.points[1], r_address_prime) \union {Eval(Poly("io_mask"), r_address_prime)},
          {Term({}, {ClaimOf(acc, Poly("RamValFinal"), Output)}),
           Term(Neg, {Eval(Poly("val_io"), r_address_prime)})})
OutputSumcheck_cache(inst, acc, r) ==
    <<VirtualAt(Poly("RamValFinal"), Output, r), VirtualAt(Poly("RamValInit"), Output, r)>>

\* calculate_advice_memory_evaluation of each present advice plus the public
\* initial memory.
VerifierInitEval(advice, r_address) ==
    Comb("init_public", r_address, [a \in DOMAIN advice |-> Comb("block_eq", r_address, <<advice[a]>>)])

ValEvaluationSumcheck(acc, advice) ==
    LET point == PointOf(acc, Poly("RamVal"), RamRWC) IN
    Instance("ram_val", 3, LOG_T, <<>>, <<Drop(point, LOG_K_RAM)>>,
             {Term({}, {ClaimOf(acc, Poly("RamVal"), RamRWC)}),
              Term(Neg, {VerifierInitEval(advice, Take(point, LOG_K_RAM))})})
ValEvaluationSumcheck_expected(inst, acc, r) ==
    {Term({}, {ClaimOf(acc, Poly("RamInc"), "RamValEvaluation"),
               ClaimOf(acc, Poly("RamRa"), "RamValEvaluation"),
               LtAt(r, Drop(PointOf(acc, Poly("RamVal"), RamRWC), LOG_K_RAM))})}
ValEvaluationSumcheck_cache(inst, acc, r) ==
    LET point == PointOf(acc, Poly("RamVal"), RamRWC) IN
    <<VirtualAt(Poly("RamRa"), "RamValEvaluation", Take(point, Len(point) - Len(r)) \o r),
      DenseAt(<<Poly("RamInc")>>, "RamValEvaluation", r)>>
ValEvaluationSumcheck_constraint(inst) ==
    {Term({}, {Id(Poly("RamVal"), RamRWC)}), Term(Neg, {Id(Poly("RamValInit"), Output)})}

\* assert_eq!: RamVal and RamValFinal were opened at the same address.
SameAddress(acc) ==
    Take(PointOf(acc, Poly("RamVal"), RamRWC), LOG_K_RAM) = PointOf(acc, Poly("RamValFinal"), Output)
ValFinalSumcheck(acc, advice) ==
    Instance("ram_val_final", 2, LOG_T, <<>>, <<>>,
             {Term({}, {ClaimOf(acc, Poly("RamValFinal"), Output)}),
              Term(Neg, {VerifierInitEval(advice, PointOf(acc, Poly("RamValFinal"), Output))})})
ValFinalSumcheck_expected(inst, acc, r) ==
    {Term({}, {ClaimOf(acc, Poly("RamInc"), "RamValFinalEvaluation"),
               ClaimOf(acc, Poly("RamRa"), "RamValFinalEvaluation")})}
ValFinalSumcheck_cache(inst, acc, r) ==
    <<DenseAt(<<Poly("RamInc")>>, "RamValFinalEvaluation", r),
      VirtualAt(Poly("RamRa"), "RamValFinalEvaluation", PointOf(acc, Poly("RamValFinal"), Output) \o r)>>
ValFinalSumcheck_constraint(inst) ==
    {Term({}, {Id(Poly("RamValFinal"), Output)}), Term(Neg, {Id(Poly("RamValInit"), Output)})}

HammingBooleanitySumcheck == Instance("ram_hamming_booleanity", 3, LOG_T, <<>>, <<>>, {})
HammingBooleanitySumcheck_expected(inst, acc, r) ==
    Times(EqAt(r, Reverse(LookupCycle(acc))),
          BooleanityOf(1, <<ClaimOf(acc, Poly("RamHammingWeight"), HammingBooleanity)>>))
HammingBooleanitySumcheck_cache(inst, acc, r) ==
    <<VirtualAt(Poly("RamHammingWeight"), HammingBooleanity, Reverse(r))>>

RamHammingWeightSumcheck(acc, gamma) ==
    Instance("ram_hamming", 1, RAM_CHUNK, <<gamma>>, <<>>,
             Times({ClaimOf(acc, Poly("RamHammingWeight"), HammingBooleanity)}, GammaSum(gamma, RAM_D)))
RamHammingWeightSumcheck_expected(inst, acc, r) ==
    Weighted(inst.gamma[1], ClaimsOf(acc, RamRas, "RamHammingWeight"))
RamHammingWeightSumcheck_cache(inst, acc, r) ==
    <<SparseAt(RamRas, "RamHammingWeight",
               Reverse(r) \o PointOf(acc, Poly("RamHammingWeight"), HammingBooleanity))>>
RamHammingWeightSumcheck_constraint(inst) ==
    Times({Id(Poly("RamHammingWeight"), HammingBooleanity)}, GammaSum(inst.gamma[1], RAM_D))

RamBooleanitySumcheck(gamma, r_cycle, r_address) ==
    Instance("ram_booleanity", 3, RAM_CHUNK + LOG_T, <<gamma>>, <<r_cycle, r_address>>, {})
RamBooleanitySumcheck_expected(inst, acc, r) ==
    Times(EqAt(inst.points[2], Reverse(Take(r, RAM_CHUNK)))
          \union EqAt(inst.points[1], Reverse(Drop(r, RAM_CHUNK))),
          BooleanityOf(inst.gamma[1], ClaimsOf(acc, RamRas, "RamBooleanity")))
RamBooleanitySumcheck_cache(inst, acc, r) ==
    <<SparseAt(RamRas, "RamBooleanity", Reverse(Take(r, RAM_CHUNK)) \o Reverse(Drop(r, RAM_CHUNK)))>>

RaSumcheck(acc, gamma) ==
    LET address == Take(PointOf(acc, Poly("RamRa"), RamRaIds[1]), LOG_K_RAM)
        pad == (RAM_CHUNK - (Len(address) % RAM_CHUNK)) % RAM_CHUNK IN
    Instance("ram_ra", RAM_D + 1, LOG_T, <<gamma>>,
             [k \in 1 .. 3 |-> Drop(PointOf(acc, Poly("RamRa"), RamRaIds[k]), LOG_K_RAM)]
             \o ChunksOf([i \in 1 .. pad |-> 0] \o address, RAM_CHUNK),
             Weighted(gamma, [k \in 1 .. 3 |-> ClaimOf(acc, Poly("RamRa"), RamRaIds[k])]))
RaSumcheck_expected(inst, acc, r) ==
    LET product == Range(ClaimsOf(acc, RamRas, "RamRaVirtualization")) IN
    {Term(Pow(inst.gamma[1], k - 1), EqAt(inst.points[k], Reverse(r)) \union product) : k \in 1 .. 3}
RaSumcheck_cache(inst, acc, r) ==
    [i \in 1 .. RAM_D |-> SparseAt(<<RamRa(i - 1)>>, "RamRaVirtualization", inst.points[i + 3] \o Reverse(r))]
RaSumcheck_constraint(inst) ==
    Weighted(inst.gamma[1], [k \in 1 .. 3 |-> Id(Poly("RamRa"), RamRaIds[k])])

-----------------------------------------------------------------------------
(* instruction lookups *)

BooleanitySumcheck(acc, gamma, r_address) ==
    Instance("lookups_booleanity", 3, LOG_K_CHUNK + Len(LookupCycle(acc)), <<gamma>>, <<r_address>>, {})
BooleanitySumcheck_expected(inst, acc, r) ==
    Times(EqAt(r, Reverse(inst.points[1]) \o Reverse(LookupCycle(acc))),
          BooleanityOf(inst.gamma[1], ClaimsOf(acc, InstructionRas, "InstructionBooleanity")))
BooleanitySumcheck_cache(inst, acc, r) ==
    <<SparseAt(InstructionRas, "InstructionBooleanity",
               Reverse(Take(r, LOG_K_CHUNK)) \o Reverse(Drop(r, LOG_K_CHUNK)))>>

LookupClaims == <<"LookupOutput", "LeftLookupOperand", "RightLookupOperand">>
\* rv + gamma * (left + gamma * right).
ReadRafSumcheck(acc, gamma) ==
    Instance("lookups_read_raf", 3, LOG_K + Len(LookupCycle(acc)), <<gamma>>, <<>>,
             Weighted(gamma, OuterClaims(acc, LookupClaims)))
ReadRafSumcheck_expected(inst, acc, r) ==
    LET r_address == Take(r, LOG_K)
        operand(side) == Eval(Poly(side), r_address)
        flag == ClaimOf(acc, Poly("InstructionRafFlag"), ReadRaf)
        table(i) == Eval(<<"lookup_table", i>>, r_address)
        operands == {Term(Pow(inst.gamma[1], 1), {operand("left_operand")}),
                     Term(Pow(inst.gamma[1], 2), {operand("right_operand")})} IN
    Times(EqAt(LookupCycle(acc), Drop(r, LOG_K)) \union {ClaimOf(acc, Poly("InstructionRa"), ReadRaf)},
          {Term({}, {table(i), ClaimOf(acc, LookupTableFlag(i), ReadRaf)}) : i \in 0 .. NUM_TABLES - 1}
          \* (1 - flag) * operands + flag * gamma^2 * identity
          \union operands \union Scaled(Neg, Times({flag}, operands))
          \union {Term(Pow(inst.gamma[1], 2), {flag, operand("identity")})})
ReadRafSumcheck_cache(inst, acc, r) ==
    LET r_cycle == Drop(r, LOG_K) IN
    [i \in 1 .. NUM_TABLES |-> VirtualAt(LookupTableFlag(i - 1), ReadRaf, r_cycle)]
    \o <<VirtualAt(Poly("InstructionRa"), ReadRaf, r), VirtualAt(Poly("InstructionRafFlag"), ReadRaf, r_cycle)>>
ReadRafSumcheck_constraint(inst) == Weighted(inst.gamma[1], Ids(LookupClaims, Outer))

HammingWeightSumcheck(gamma) ==
    Instance("lookups_hamming", 1, LOG_K_CHUNK, <<gamma>>, <<>>, GammaSum(gamma, D))
HammingWeightSumcheck_expected(inst, acc, r) ==
    Weighted(inst.gamma[1], ClaimsOf(acc, InstructionRas, "InstructionHammingWeight"))
HammingWeightSumcheck_cache(inst, acc, r) ==
    <<SparseAt(InstructionRas, "InstructionHammingWeight", Reverse(r) \o LookupCycle(acc))>>
HammingWeightSumcheck_constraint(inst) == GammaSum(inst.gamma[1], D)

InstructionRaSumcheck(acc) ==
    LET ra_point == PointOf(acc, Poly("InstructionRa"), ReadRaf) IN
    Instance("lookups_ra", D + 1, Len(Drop(ra_point, LOG_K)), <<>>,
             <<Drop(ra_point, LOG_K)>> \o ChunksOf(Take(ra_point, LOG_K), LOG_K_CHUNK),
             {Term({}, {ClaimOf(acc, Poly("InstructionRa"), ReadRaf)})})
InstructionRaSumcheck_expected(inst, acc, r) ==
    {Term({}, EqAt(inst.points[1], r) \union Range(ClaimsOf(acc, InstructionRas, RaVirtual)))}
InstructionRaSumcheck_cache(inst, acc, r) ==
    [i \in 1 .. D |-> SparseAt(<<InstructionRa(i - 1)>>, RaVirtual, inst.points[i + 1] \o r)]
InstructionRaSumcheck_constraint(inst) == {Term({}, {Id(Poly("InstructionRa"), ReadRaf)})}

-----------------------------------------------------------------------------
(* bytecode *)

\* val_polys: the rows of the bytecode folded with the stage's gamma powers
\* and, in stages 2 and 3, with the register point.
BytecodeReadRafSumcheck(acc, gamma) ==
    LET claims(ids) == [i \in 1 .. Len(ids) |-> Opening(acc, ids[i]).claim]
        r_register(id) == Take(PointOf(acc, Poly("RdWa"), id), LOG_REGISTERS) IN
    Instance("bytecode_read_raf", BYTECODE_D + 1, LOG_K_BYTECODE + LOG_T, gamma,
             << <<>>, r_register(RegRWC), r_register(RegVal)>>,
             BytecodeTerms(gamma, [k \in 1 .. 3 |-> claims(BytecodeReads[k])], claims(BytecodePCs)))
get_r_cycle_verif(acc) ==
    <<PointOf(acc, Poly("Imm"), Outer),
      Drop(PointOf(acc, Poly("Rs1Ra"), RegRWC), LOG_REGISTERS),
      Drop(PointOf(acc, Poly("RdWa"), RegVal), LOG_REGISTERS)>>
BytecodeReadRafSumcheck_expected(inst, acc, r) ==
    LET r_address == Take(r, LOG_K_BYTECODE)
        r_cycles == get_r_cycle_verif(acc)
        int == Eval(Poly("identity"), r_address)
        g(e) == Pow(inst.gamma[1], e)
        \* gamma^0 * gamma^3 * int for stage 1, gamma^2 * gamma^2 * int for stage 3.
        raf == << {Term(g(3), {int})}, {}, {Term(g(4), {int})} >>
        val(k) == {Term(g(k - 1), {BytecodeVal(k, inst.gamma[k + 1], inst.points[k], r_address)})} IN
    Times(Range(ClaimsOf(acc, BytecodeRas, "BytecodeReadRaf")),
          UNION {Times(EqAt(r_cycles[k], Reverse(Drop(r, LOG_K_BYTECODE))), val(k) \union raf[k])
                   : k \in 1 .. 3})
BytecodeReadRafSumcheck_cache(inst, acc, r) ==
    LET r_address == ChunksOf(Take(r, LOG_K_BYTECODE), BYTECODE_CHUNK)
        r_cycle == Reverse(Drop(r, LOG_K_BYTECODE)) IN
    [i \in 1 .. BYTECODE_D |-> SparseAt(<<BytecodeRa(i - 1)>>, "BytecodeReadRaf", r_address[i] \o r_cycle)]
BytecodeReadRafSumcheck_constraint(inst) == BytecodeTerms(inst.gamma, BytecodeReads, BytecodePCs)

BytecodeBooleanitySumcheck(gamma, r_address) ==
    Instance("bytecode_booleanity", 3, BYTECODE_CHUNK + LOG_T, <<gamma>>, <<r_address>>, {})
BytecodeBooleanitySumcheck_expected(inst, acc, r) ==
    Times(EqAt(r, Reverse(inst.points[1]) \o Reverse(LookupCycle(acc))),
          BooleanityOf(inst.gamma[1], ClaimsOf(acc, BytecodeRas, "BytecodeBooleanity")))
BytecodeBooleanitySumcheck_cache(inst, acc, r) ==
    <<SparseAt(BytecodeRas, "BytecodeBooleanity",
               Reverse(Take(r, BYTECODE_CHUNK)) \o Reverse(Drop(r, BYTECODE_CHUNK)))>>

BytecodeHammingWeightSumcheck(gamma) ==
    Instance("bytecode_hamming", 1, BYTECODE_CHUNK, <<gamma>>, <<>>, GammaSum(gamma, BYTECODE_D))
BytecodeHammingWeightSumcheck_expected(inst, acc, r) ==
    Weighted(inst.gamma[1], ClaimsOf(acc, BytecodeRas, "BytecodeHammingWeight"))
BytecodeHammingWeightSumcheck_cache(inst, acc, r) ==
    <<SparseAt(BytecodeRas, "BytecodeHammingWeight", Reverse(r) \o LookupCycle(acc))>>
BytecodeHammingWeightSumcheck_constraint(inst) == GammaSum(inst.gamma[1], BYTECODE_D)

-----------------------------------------------------------------------------
(* The stages: the components' instances in the order of verify, each        *)
(* drawing its challenges from the transcript as it is made.                 *)

\* The component's instances, and the transcript after its draws.
Made(tr, draws, instances) == [tr |-> WithChallenges(tr, draws), instances |-> instances]

SpartanDag_stage2(acc, tr) == Made(tr, 1, <<InnerSumcheck(acc, Len(tr) + 1)>>)
RegistersDag_stage2(acc, tr) == Made(tr, 1, <<RegistersReadWriteChecking(acc, Len(tr) + 1)>>)
RamDag_stage2(acc, tr) ==
    Made(tr, 1 + LOG_K_RAM,
         <<RafEvaluationSumcheck(acc), RamReadWriteChecking(acc, Len(tr) + 1),
           OutputSumcheck(DrawnAfter(tr, 1, LOG_K_RAM))>>)
LookupsDag_stage2(acc, tr) ==
    Made(tr, 1 + LOG_K_CHUNK, <<BooleanitySumcheck(acc, Len(tr) + 1, DrawnAfter(tr, 1, LOG_K_CHUNK))>>)

SpartanDag_stage3(acc, tr) ==
    Made(tr, 1, <<PCSumcheck(acc, Len(tr) + 1), ProductVirtualizationSumcheck(acc)>>)
RegistersDag_stage3(acc, tr) == Made(tr, 0, <<RegistersValEvaluation(acc)>>)
LookupsDag_stage3(acc, tr) ==
    Made(tr, 2, <<ReadRafSumcheck(acc, Len(tr) + 1), HammingWeightSumcheck(Len(tr) + 2)>>)
RamDag_stage3(acc, tr, advice) ==
    Made(tr, 0, <<ValEvaluationSumcheck(acc, advice), ValFinalSumcheck(acc, advice), HammingBooleanitySumcheck>>)

RamDag_stage4(acc, tr) ==
    Made(tr, 3 + LOG_T + RAM_CHUNK,
         <<RamHammingWeightSumcheck(acc, Len(tr) + 1),
           RamBooleanitySumcheck(Len(tr) + 2 + LOG_T + RAM_CHUNK, DrawnAfter(tr, 1, LOG_T),
                                 DrawnAfter(tr, 1 + LOG_T, RAM_CHUNK)),
           RaSumcheck(acc, Len(tr) + 3 + LOG_T + RAM_CHUNK)>>)
BytecodeDag_stage4(acc, tr) ==
    Made(tr, 6 + BYTECODE_CHUNK,
         <<BytecodeReadRafSumcheck(acc, DrawnAfter(tr, 0, 4)),
           BytecodeBooleanitySumcheck(Len(tr) + 5, DrawnAfter(tr, 5, BYTECODE_CHUNK)),
           BytecodeHammingWeightSumcheck(Len(tr) + 6 + BYTECODE_CHUNK)>>)
LookupsDag_stage4(acc, tr) == Made(tr, 0, <<InstructionRaSumcheck(acc)>>)

Chain(first, second) == [tr |-> second.tr, instances |-> first.instances \o second.instances]
stage2_instances(acc, tr) ==
    LET a == SpartanDag_stage2(acc, tr)
        b == Chain(a, RegistersDag_stage2(acc, a.tr))
        c == Chain(b, RamDag_stage2(acc, b.tr)) IN
    Chain(c, LookupsDag_stage2(acc, c.tr))
stage3_instances(acc, tr, advice) ==
    LET a == SpartanDag_stage3(acc, tr)
        b == Chain(a, RegistersDag_stage3(acc, a.tr))
        c == Chain(b, LookupsDag_stage3(acc, b.tr)) IN
    Chain(c, RamDag_stage3(acc, c.tr, advice))
stage4_instances(acc, tr) ==
    LET a == RamDag_stage4(acc, tr)
        b == Chain(a, BytecodeDag_stage4(acc, a.tr)) IN
    Chain(b, LookupsDag_stage4(acc, b.tr))

-----------------------------------------------------------------------------
(* SumcheckInstance: the methods of an instance by its type *)

expected_output_claim(inst, acc, r) ==
    CASE inst.name = "inner" -> InnerSumcheck_expected(inst, acc, r)
      [] inst.name = "pc" -> PCSumcheck_expected(inst, acc, r)
      [] inst.name = "product" -> ProductVirtualizationSumcheck_expected(inst, acc, r)
      [] inst.name = "registers_rwc" -> RegistersReadWriteChecking_expected(inst, acc, r)
      [] inst.name = "registers_val" -> RegistersValEvaluation_expected(inst, acc, r)
      [] inst.name = "ram_raf" -> RafEvaluationSumcheck_expected(inst, acc, r)
      [] inst.name = "ram_rwc" -> RamReadWriteChecking_expected(inst, acc, r)
      [] inst.name = "output" -> OutputSumcheck_expected(inst, acc, r)
      [] inst.name = "ram_val_final" -> ValFinalSumcheck_expected(inst, acc, r)
      [] inst.name = "ram_val" -> ValEvaluationSumcheck_expected(inst, acc, r)
      [] inst.name = "ram_hamming_booleanity" -> HammingBooleanitySumcheck_expected(inst, acc, r)
      [] inst.name = "lookups_booleanity" -> BooleanitySumcheck_expected(inst, acc, r)
      [] inst.name = "lookups_read_raf" -> ReadRafSumcheck_expected(inst, acc, r)
      [] inst.name = "lookups_hamming" -> HammingWeightSumcheck_expected(inst, acc, r)
      [] inst.name = "lookups_ra" -> InstructionRaSumcheck_expected(inst, acc, r)
      [] inst.name = "ram_hamming" -> RamHammingWeightSumcheck_expected(inst, acc, r)
      [] inst.name = "ram_booleanity" -> RamBooleanitySumcheck_expected(inst, acc, r)
      [] inst.name = "ram_ra" -> RaSumcheck_expected(inst, acc, r)
      [] inst.name = "bytecode_read_raf" -> BytecodeReadRafSumcheck_expected(inst, acc, r)
      [] inst.name = "bytecode_booleanity" -> BytecodeBooleanitySumcheck_expected(inst, acc, r)
      [] inst.name = "bytecode_hamming" -> BytecodeHammingWeightSumcheck_expected(inst, acc, r)

\* normalize_opening_point and cache_openings_verifier.
cache_openings_verifier(inst, acc, r) ==
    CASE inst.name = "inner" -> InnerSumcheck_cache(inst, acc, r)
      [] inst.name = "pc" -> PCSumcheck_cache(inst, acc, r)
      [] inst.name = "product" -> ProductVirtualizationSumcheck_cache(inst, acc, r)
      [] inst.name = "registers_rwc" -> RegistersReadWriteChecking_cache(inst, acc, r)
      [] inst.name = "registers_val" -> RegistersValEvaluation_cache(inst, acc, r)
      [] inst.name = "ram_raf" -> RafEvaluationSumcheck_cache(inst, acc, r)
      [] inst.name = "ram_rwc" -> RamReadWriteChecking_cache(inst, acc, r)
      [] inst.name = "output" -> OutputSumcheck_cache(inst, acc, r)
      [] inst.name = "ram_val_final" -> ValFinalSumcheck_cache(inst, acc, r)
      [] inst.name = "ram_val" -> ValEvaluationSumcheck_cache(inst, acc, r)
      [] inst.name = "ram_hamming_booleanity" -> HammingBooleanitySumcheck_cache(inst, acc, r)
      [] inst.name = "lookups_booleanity" -> BooleanitySumcheck_cache(inst, acc, r)
      [] inst.name = "lookups_read_raf" -> ReadRafSumcheck_cache(inst, acc, r)
      [] inst.name = "lookups_hamming" -> HammingWeightSumcheck_cache(inst, acc, r)
      [] inst.name = "lookups_ra" -> InstructionRaSumcheck_cache(inst, acc, r)
      [] inst.name = "ram_hamming" -> RamHammingWeightSumcheck_cache(inst, acc, r)
      [] inst.name = "ram_booleanity" -> RamBooleanitySumcheck_cache(inst, acc, r)
      [] inst.name = "ram_ra" -> RaSumcheck_cache(inst, acc, r)
      [] inst.name = "bytecode_read_raf" -> BytecodeReadRafSumcheck_cache(inst, acc, r)
      [] inst.name = "bytecode_booleanity" -> BytecodeBooleanitySumcheck_cache(inst, acc, r)
      [] inst.name = "bytecode_hamming" -> BytecodeHammingWeightSumcheck_cache(inst, acc, r)

\* The instances whose output_claim_constraint is not None.
OutputConstrained == {"product", "registers_rwc", "registers_val", "ram_raf", "ram_rwc", "output", "ram_val_final",
                      "ram_val"}

input_claim_constraint(inst) ==
    CASE inst.name = "inner" -> InnerSumcheck_constraint(inst)
      [] inst.name = "pc" -> PCSumcheck_constraint(inst)
      [] inst.name = "product" -> ProductVirtualizationSumcheck_constraint(inst)
      [] inst.name = "registers_rwc" -> RegistersReadWriteChecking_constraint(inst)
      [] inst.name = "registers_val" -> RegistersValEvaluation_constraint(inst)
      [] inst.name = "ram_raf" -> RafEvaluationSumcheck_constraint(inst)
      [] inst.name = "ram_rwc" -> RamReadWriteChecking_constraint(inst)
      [] inst.name = "ram_val_final" -> ValFinalSumcheck_constraint(inst)
      [] inst.name = "ram_val" -> ValEvaluationSumcheck_constraint(inst)
      [] inst.name = "lookups_read_raf" -> ReadRafSumcheck_constraint(inst)
      [] inst.name = "lookups_hamming" -> HammingWeightSumcheck_constraint(inst)
      [] inst.name = "lookups_ra" -> InstructionRaSumcheck_constraint(inst)
      [] inst.name = "ram_hamming" -> RamHammingWeightSumcheck_constraint(inst)
      [] inst.name = "ram_ra" -> RaSumcheck_constraint(inst)
      [] inst.name = "bytecode_read_raf" -> BytecodeReadRafSumcheck_constraint(inst)
      [] inst.name = "bytecode_hamming" -> BytecodeHammingWeightSumcheck_constraint(inst)
      [] OTHER -> NoConstraint
=============================================================================
