--------------------------- MODULE CoordSumchecks ---------------------------
(***************************************************************************)
(* The coordinator's sumcheck instances (provia-coordinator/src/zkvm): what *)
(* each claims (input), how many rounds it runs, which claims it expects of *)
(* the workers at the end and under which ids and points it files them, the *)
(* output claim it expects, and the BlindFold constraint of its input.      *)
(* Four definitions per instance: the constructor, _expected, _cache        *)
(* (normalize_opening_point and cache_openings) and, when the input is not  *)
(* public, _constraint.                                                     *)
(***************************************************************************)
EXTENDS Openings

-----------------------------------------------------------------------------
(* spartan *)

Rep3InnerSumcheck(acc, gamma) ==
    Instance("inner", 2, LOG_VARS, <<gamma>>, <<PointOf(acc, Poly("SpartanAz"), Outer)>>,
             Weighted(gamma, OuterClaims(acc, <<"SpartanAz", "SpartanBz", "SpartanCz">>)))
Rep3InnerSumcheck_expected(inst, acc, r) ==
    LET rx_var == Drop(inst.points[1], LOG_T)
        z == SegmentEvals(ClaimsOf(acc, ALL_R1CS_INPUTS, Outer), r) IN
    Times({z}, Weighted(inst.gamma[1], <<UniformEval(1, rx_var, r), UniformEval(2, rx_var, r),
                                         UniformEval(3, rx_var, r)>>))
Rep3InnerSumcheck_cache(inst, acc, r, claims) == <<>>
Rep3InnerSumcheck_constraint(inst) ==
    Weighted(inst.gamma[1], Ids(<<"SpartanAz", "SpartanBz", "SpartanCz">>, Outer))

PCSumcheck(acc, gamma) ==
    Instance("pc", 2, Len(PointOf(acc, Poly("NextPC"), Outer)), <<gamma>>, <<>>,
             Weighted(gamma, OuterClaims(acc, <<"NextUnexpandedPC", "NextPC", "NextIsNoop">>)))
PCSumcheck_expected(inst, acc, r) ==
    Times({EqPlusOneAt(Take(PointOf(acc, Poly("NextPC"), Outer), inst.rounds), r)},
          Weighted(inst.gamma[1],
                   ClaimsOf(acc, <<Poly("UnexpandedPC"), Poly("PC"), IsNoop>>, "SpartanShift")))
PCSumcheck_cache(inst, acc, r, claims) ==
    <<Virtual(Poly("UnexpandedPC"), "SpartanShift", r, claims[1]),
      Virtual(Poly("PC"), "SpartanShift", r, claims[2]),
      Virtual(IsNoop, "SpartanShift", r, claims[3])>>
PCSumcheck_constraint(inst) ==
    Weighted(inst.gamma[1], Ids(<<"NextUnexpandedPC", "NextPC", "NextIsNoop">>, Outer))

ProductInputs == <<Poly("LeftInstructionInput"), Poly("RightInstructionInput")>>
Rep3ProductVirtualizationSumcheck(acc) ==
    LET r_cycle == PointOf(acc, Poly("Product"), Outer) IN
    Instance("product", 3, Len(r_cycle), <<>>, <<r_cycle>>,
             {Term({}, {OuterClaim(acc, "Product")})})
Rep3ProductVirtualizationSumcheck_expected(inst, acc, r) ==
    {Term({}, EqAt(Reverse(r), Take(PointOf(acc, Poly("Product"), Outer), inst.rounds))
              \union Range(ClaimsOf(acc, ProductInputs, "ProductVirtualization")))}
Rep3ProductVirtualizationSumcheck_cache(inst, acc, r, claims) ==
    <<Dense(ProductInputs, "ProductVirtualization", Reverse(r), claims)>>
Rep3ProductVirtualizationSumcheck_constraint(inst) ==
    {Term({}, {Id(Poly("Product"), Outer)})}

-----------------------------------------------------------------------------
(* registers *)


\* Both read-write checkings bind the first SWITCH cycle variables from the
\* low end, the rest and the address from the high end.
ReadWriteCycle(r, log_T) == SubSeq(r, SWITCH + 1, log_T) \o Reverse(Take(r, SWITCH))
\* mle_endian of a big-endian point and r[..switch] ++ rev(r[switch..]), which
\* is little endian.
EqReadWrite(r_prime, r, log_T) ==
    EqAt(r_prime, Reverse(Take(r, SWITCH) \o Reverse(SubSeq(r, SWITCH + 1, log_T))))

Rep3RegistersReadWriteChecking(acc, gamma) ==
    LET r_cycle == PointOf(acc, Poly("Rs1Value"), Outer) IN
    Instance("registers_rwc", 3, LOG_REGISTERS + Len(r_cycle), <<gamma>>, <<r_cycle>>,
             Weighted(gamma, OuterClaims(acc, <<"RdWriteValue", "Rs1Value", "Rs2Value">>)))
Rep3RegistersReadWriteChecking_expected(inst, acc, r) ==
    LET eq == EqReadWrite(PointOf(acc, Poly("Rs1Value"), Outer), r, Len(inst.points[1]))
        claim(name) == ClaimOf(acc, Poly(name), RegRWC)
        g == inst.gamma[1] IN
    {Term({}, eq \union {claim("RdWa"), claim("RdInc")}),
     Term({}, eq \union {claim("RdWa"), claim("RegistersVal")}),
     Term(Pow(g, 1), eq \union {claim("Rs1Ra"), claim("RegistersVal")}),
     Term(Pow(g, 2), eq \union {claim("Rs2Ra"), claim("RegistersVal")})}
Rep3RegistersReadWriteChecking_cache(inst, acc, r, claims) ==
    LET log_T == Len(inst.points[1])
        point == Drop(r, log_T) \o ReadWriteCycle(r, log_T) IN
    <<Virtual(Poly("RegistersVal"), RegRWC, point, claims[1]),
      Virtual(Poly("Rs1Ra"), RegRWC, point, claims[2]),
      Virtual(Poly("Rs2Ra"), RegRWC, point, claims[3]),
      Virtual(Poly("RdWa"), RegRWC, point, claims[4]),
      Dense(<<Poly("RdInc")>>, RegRWC, Drop(point, LOG_REGISTERS), <<claims[5]>>)>>
Rep3RegistersReadWriteChecking_constraint(inst) ==
    Weighted(inst.gamma[1], Ids(<<"RdWriteValue", "Rs1Value", "Rs2Value">>, Outer))

Rep3ValEvaluation(acc) ==
    LET point == PointOf(acc, Poly("RegistersVal"), RegRWC) IN
    Instance("registers_val", 3, Len(point) - LOG_REGISTERS, <<>>, <<Drop(point, LOG_REGISTERS)>>,
             {Term({}, {ClaimOf(acc, Poly("RegistersVal"), RegRWC)})})
Rep3ValEvaluation_expected(inst, acc, r) ==
    LET r_cycle == Drop(PointOf(acc, Poly("RegistersVal"), RegRWC), LOG_REGISTERS) IN
    {Term({}, {ClaimOf(acc, Poly("RdInc"), RegVal), ClaimOf(acc, Poly("RdWa"), RegVal),
               LtAt(r, r_cycle)})}
Rep3ValEvaluation_cache(inst, acc, r, claims) ==
    LET r_address == Take(PointOf(acc, Poly("RegistersVal"), RegRWC), LOG_REGISTERS) IN
    <<Dense(<<Poly("RdInc")>>, RegVal, r, <<claims[1]>>),
      Virtual(Poly("RdWa"), RegVal, r_address \o r, claims[2])>>
Rep3ValEvaluation_constraint(inst) == {Term({}, {Id(Poly("RegistersVal"), RegRWC)})}

-----------------------------------------------------------------------------
(* ram, stages 2 and 3 *)

Rep3RafEvaluation(acc) ==
    Instance("ram_raf", 2, LOG_K_RAM, <<>>, <<>>, {Term({}, {OuterClaim(acc, "RamAddress")})})
Rep3RafEvaluation_expected(inst, acc, r) ==
    {Term({}, {Eval(Poly("unmap_ram_address"), r), ClaimOf(acc, Poly("RamRa"), "RamRafEvaluation")})}
Rep3RafEvaluation_cache(inst, acc, r, claims) ==
    <<Virtual(Poly("RamRa"), "RamRafEvaluation",
              r \o PointOf(acc, Poly("RamAddress"), Outer), claims[1])>>
Rep3RafEvaluation_constraint(inst) == {Term({}, {Id(Poly("RamAddress"), Outer)})}

Rep3RamReadWriteChecking(acc, gamma) ==
    LET r_cycle == PointOf(acc, Poly("RamReadValue"), Outer) IN
    Instance("ram_rwc", 3, LOG_K_RAM + Len(r_cycle), <<gamma>>, <<r_cycle>>,
             Weighted(gamma, OuterClaims(acc, <<"RamReadValue", "RamWriteValue">>)))
Rep3RamReadWriteChecking_expected(inst, acc, r) ==
    LET eq == EqReadWrite(PointOf(acc, Poly("RamReadValue"), Outer), r, Len(inst.points[1]))
        claim(name) == ClaimOf(acc, Poly(name), RamRWC)
        g == Pow(inst.gamma[1], 1) IN
    {Term({}, eq \union {claim("RamRa"), claim("RamVal")}),
     Term(g, eq \union {claim("RamRa"), claim("RamVal")}),
     Term(g, eq \union {claim("RamRa"), claim("RamInc")})}
Rep3RamReadWriteChecking_cache(inst, acc, r, claims) ==
    LET log_T == Len(inst.points[1])
        point == Drop(r, log_T) \o ReadWriteCycle(r, log_T) IN
    <<Virtual(Poly("RamVal"), RamRWC, point, claims[1]),
      Virtual(Poly("RamRa"), RamRWC, point, claims[2]),
      Dense(<<Poly("RamInc")>>, RamRWC, Drop(point, LOG_K_RAM), <<claims[3]>>)>>
Rep3RamReadWriteChecking_constraint(inst) ==
    Weighted(inst.gamma[1], Ids(<<"RamReadValue", "RamWriteValue">>, Outer))

Rep3OutputSumcheck(r_address) == Instance("output", 3, LOG_K_RAM, <<>>, <<r_address>>, {})
Rep3OutputSumcheck_expected(inst, acc, r) ==
    LET r_address_prime == Take(r, Len(inst.points[1]))
        mask == EqAt(inst.points[1], r_address_prime) \union {Eval(Poly("io_mask"), r_address_prime)} IN
    {Term({}, mask \union {ClaimOf(acc, Poly("RamValFinal"), Output)}),
     Term(Neg, mask \union {Eval(Poly("val_io"), r_address_prime)})}
Rep3OutputSumcheck_cache(inst, acc, r, claims) ==
    <<Virtual(Poly("RamValFinal"), Output, r, claims[1]),
      Virtual(Poly("RamValInit"), Output, r, claims[2])>>

Rep3ValFinalSumcheck(acc) ==
    Instance("ram_val_final", 2, LOG_T, <<>>, <<>>,
             {Term({}, {ClaimOf(acc, Poly("RamValFinal"), Output)}),
              Term(Neg, {ClaimOf(acc, Poly("RamValInit"), Output)})})
Rep3ValFinalSumcheck_expected(inst, acc, r) ==
    {Term({}, {ClaimOf(acc, Poly("RamInc"), "RamValFinalEvaluation"),
               ClaimOf(acc, Poly("RamRa"), "RamValFinalEvaluation")})}
Rep3ValFinalSumcheck_cache(inst, acc, r, claims) ==
    <<Dense(<<Poly("RamInc")>>, "RamValFinalEvaluation", r, <<claims[1]>>),
      Virtual(Poly("RamRa"), "RamValFinalEvaluation",
              PointOf(acc, Poly("RamValFinal"), Output) \o r, claims[2])>>
Rep3ValFinalSumcheck_constraint(inst) ==
    {Term({}, {Id(Poly("RamValFinal"), Output)}), Term(Neg, {Id(Poly("RamValInit"), Output)})}

\* init_eval: the sum of the workers' shares of val_init at RamVal's address.
Rep3RamValEvaluation(acc, init_eval) ==
    LET point == PointOf(acc, Poly("RamVal"), RamRWC) IN
    Instance("ram_val", 3, Len(point) - LOG_K_RAM, <<>>, <<Drop(point, LOG_K_RAM)>>,
             {Term({}, {ClaimOf(acc, Poly("RamVal"), RamRWC)}), Term(Neg, {init_eval})})
Rep3RamValEvaluation_expected(inst, acc, r) ==
    {Term({}, {ClaimOf(acc, Poly("RamInc"), "RamValEvaluation"),
               ClaimOf(acc, Poly("RamRa"), "RamValEvaluation"),
               LtAt(r, Drop(PointOf(acc, Poly("RamVal"), RamRWC), LOG_K_RAM))})}
Rep3RamValEvaluation_cache(inst, acc, r, claims) ==
    LET r_address == Take(PointOf(acc, Poly("RamVal"), RamRWC), LOG_K_RAM) IN
    <<Virtual(Poly("RamRa"), "RamValEvaluation", r_address \o r, claims[2]),
      Dense(<<Poly("RamInc")>>, "RamValEvaluation", r, <<claims[1]>>)>>
Rep3RamValEvaluation_constraint(inst) ==
    {Term({}, {Id(Poly("RamVal"), RamRWC)}), Term(Neg, {Id(Poly("RamValInit"), Output)})}

RamHammingBooleanity == Instance("ram_hamming_booleanity", 3, LOG_T, <<>>, <<>>, {})
RamHammingBooleanity_expected(inst, acc, r) ==
    Times(EqAt(r, Reverse(PointOf(acc, Poly("LookupOutput"), Outer))),
          BooleanityOf(1, <<ClaimOf(acc, Poly("RamHammingWeight"), HammingBooleanity)>>))
RamHammingBooleanity_cache(inst, acc, r, claims) ==
    <<Virtual(Poly("RamHammingWeight"), HammingBooleanity, Reverse(r), claims[1])>>

-----------------------------------------------------------------------------
(* instruction lookups *)

Rep3BooleanitySumcheck(log_T, gamma, r_address) ==
    Instance("lookups_booleanity", 3, LOG_K_CHUNK + log_T, <<gamma>>, <<r_address>>, {})
Rep3BooleanitySumcheck_expected(inst, acc, r) ==
    Times(EqAt(r, Reverse(inst.points[1]) \o Reverse(LookupCycle(acc))),
          BooleanityOf(inst.gamma[1], ClaimsOf(acc, InstructionRas, "InstructionBooleanity")))
Rep3BooleanitySumcheck_cache(inst, acc, r, claims) ==
    <<Sparse(InstructionRas, "InstructionBooleanity",
             Reverse(Take(r, LOG_K_CHUNK)) \o Reverse(Drop(r, LOG_K_CHUNK)), claims)>>

Rep3ReadRafSumcheck(acc, gamma) ==
    Instance("lookups_read_raf", 3, LOG_K + Len(LookupCycle(acc)), <<gamma>>, <<>>,
             Weighted(gamma, OuterClaims(acc, <<"LookupOutput", "LeftLookupOperand",
                                                "RightLookupOperand">>)))
Rep3ReadRafSumcheck_expected(inst, acc, r) ==
    LET r_address == Take(r, LOG_K)
        raf == ClaimOf(acc, Poly("InstructionRafFlag"), ReadRaf)
        g(e) == Pow(inst.gamma[1], e)
        left == Eval(Poly("left_operand"), r_address)
        right == Eval(Poly("right_operand"), r_address) IN
    Times(EqAt(LookupCycle(acc), Drop(r, LOG_K)) \union {ClaimOf(acc, Poly("InstructionRa"), ReadRaf)},
          {Term({}, {Eval(<<"lookup_table", i>>, r_address), ClaimOf(acc, LookupTableFlag(i), ReadRaf)})
             : i \in 0 .. NUM_TABLES - 1}
          \union {Term(g(1), {left}), Term(g(2), {right}), Term(g(1) \union Neg, {left, raf}),
                  Term(g(2) \union Neg, {right, raf}),
                  Term(g(2), {raf, Eval(Poly("identity"), r_address)})})
Rep3ReadRafSumcheck_cache(inst, acc, r, claims) ==
    [i \in 1 .. NUM_TABLES |-> Virtual(LookupTableFlag(i - 1), ReadRaf, Drop(r, LOG_K), claims[i])]
    \o <<Virtual(Poly("InstructionRa"), ReadRaf, r, claims[NUM_TABLES + 1]),
         Virtual(Poly("InstructionRafFlag"), ReadRaf, Drop(r, LOG_K), claims[NUM_TABLES + 2])>>
Rep3ReadRafSumcheck_constraint(inst) ==
    Weighted(inst.gamma[1], Ids(<<"LookupOutput", "LeftLookupOperand", "RightLookupOperand">>, Outer))

Rep3HammingWeightSumcheck(gamma) ==
    Instance("lookups_hamming", 1, LOG_K_CHUNK, <<gamma>>, <<>>, GammaSum(gamma, D))
Rep3HammingWeightSumcheck_expected(inst, acc, r) ==
    Weighted(inst.gamma[1], ClaimsOf(acc, InstructionRas, "InstructionHammingWeight"))
Rep3HammingWeightSumcheck_cache(inst, acc, r, claims) ==
    <<Sparse(InstructionRas, "InstructionHammingWeight", Reverse(r) \o LookupCycle(acc), claims)>>
Rep3HammingWeightSumcheck_constraint(inst) == GammaSum(inst.gamma[1], D)

Rep3InstructionRaSumcheck(acc) ==
    LET point == PointOf(acc, Poly("InstructionRa"), ReadRaf) IN
    Instance("lookups_ra", D + 1, Len(point) - LOG_K, <<>>,
             <<Drop(point, LOG_K)>> \o ChunksOf(Take(point, LOG_K), LOG_K_CHUNK),
             {Term({}, {ClaimOf(acc, Poly("InstructionRa"), ReadRaf)})})
Rep3InstructionRaSumcheck_expected(inst, acc, r) ==
    {Term({}, EqAt(inst.points[1], r) \union Range(ClaimsOf(acc, InstructionRas, RaVirtual)))}
Rep3InstructionRaSumcheck_cache(inst, acc, r, claims) ==
    [i \in 1 .. D |-> Sparse(<<InstructionRa(i - 1)>>, RaVirtual, inst.points[i + 1] \o r, <<claims[i]>>)]
Rep3InstructionRaSumcheck_constraint(inst) == {Term({}, {Id(Poly("InstructionRa"), ReadRaf)})}

-----------------------------------------------------------------------------
(* ram, stage 4 *)

RamHammingWeightSumcheck(acc, gamma) ==
    Instance("ram_hamming", 1, RAM_CHUNK, <<gamma>>, <<>>,
             Times({ClaimOf(acc, Poly("RamHammingWeight"), HammingBooleanity)}, GammaSum(gamma, RAM_D)))
RamHammingWeightSumcheck_expected(inst, acc, r) ==
    Weighted(inst.gamma[1], ClaimsOf(acc, RamRas, "RamHammingWeight"))
RamHammingWeightSumcheck_cache(inst, acc, r, claims) ==
    <<Sparse(RamRas, "RamHammingWeight",
             Reverse(r) \o PointOf(acc, Poly("RamHammingWeight"), HammingBooleanity), claims)>>
RamHammingWeightSumcheck_constraint(inst) ==
    Times({Id(Poly("RamHammingWeight"), HammingBooleanity)}, GammaSum(inst.gamma[1], RAM_D))

RamBooleanitySumcheck(gamma, r_cycle, r_address) ==
    Instance("ram_booleanity", 3, RAM_CHUNK + LOG_T, <<gamma>>, <<r_cycle, r_address>>, {})
RamBooleanitySumcheck_expected(inst, acc, r) ==
    Times(EqAt(inst.points[2], Reverse(Take(r, RAM_CHUNK)))
          \union EqAt(inst.points[1], Reverse(Drop(r, RAM_CHUNK))),
          BooleanityOf(inst.gamma[1], ClaimsOf(acc, RamRas, "RamBooleanity")))
RamBooleanitySumcheck_cache(inst, acc, r, claims) ==
    <<Sparse(RamRas, "RamBooleanity",
             Reverse(Take(r, RAM_CHUNK)) \o Reverse(Drop(r, RAM_CHUNK)), claims)>>

\* An address whose length is not a multiple of the chunk is padded with zero
\* challenges in front.
PaddedAddress(r_address) ==
    LET rest == Len(r_address) % RAM_CHUNK IN
    IF rest = 0 THEN r_address ELSE [i \in 1 .. RAM_CHUNK - rest |-> 0] \o r_address
RaSumcheck(acc, gamma) ==
    LET point(k) == PointOf(acc, Poly("RamRa"), RamRaIds[k])
        claims == [k \in 1 .. 3 |-> ClaimOf(acc, Poly("RamRa"), RamRaIds[k])] IN
    Instance("ram_ra", RAM_D + 1, LOG_T, <<gamma>>,
             [k \in 1 .. 3 |-> Drop(point(k), LOG_K_RAM)]
             \o ChunksOf(PaddedAddress(Take(point(1), LOG_K_RAM)), RAM_CHUNK),
             Weighted(gamma, claims))
RaSumcheck_expected(inst, acc, r) ==
    {Term(Pow(inst.gamma[1], k - 1),
          EqAt(inst.points[k], Reverse(r)) \union Range(ClaimsOf(acc, RamRas, "RamRaVirtualization")))
       : k \in 1 .. 3}
RaSumcheck_cache(inst, acc, r, claims) ==
    [i \in 1 .. RAM_D |-> Sparse(<<RamRa(i - 1)>>, "RamRaVirtualization",
                                 inst.points[i + 3] \o Reverse(r), <<claims[i]>>)]
RaSumcheck_constraint(inst) ==
    Weighted(inst.gamma[1], [k \in 1 .. 3 |-> Id(Poly("RamRa"), RamRaIds[k])])

-----------------------------------------------------------------------------
(* bytecode *)

BytecodeReadRaf(acc, gamma) ==
    LET claimsOf(ids) == [i \in 1 .. Len(ids) |-> Opening(acc, ids[i]).claim]
        registers(id) == Take(PointOf(acc, Poly("RdWa"), id), LOG_REGISTERS) IN
    Instance("bytecode_read_raf", BYTECODE_D + 1, LOG_K_BYTECODE + LOG_T, gamma,
             <<PointOf(acc, Poly("Imm"), Outer),
               Drop(PointOf(acc, Poly("Rs1Ra"), RegRWC), LOG_REGISTERS),
               Drop(PointOf(acc, Poly("RdWa"), RegVal), LOG_REGISTERS),
               <<>>, registers(RegRWC), registers(RegVal)>>,
             BytecodeTerms(gamma, [k \in 1 .. 3 |-> claimsOf(BytecodeReads[k])], claimsOf(BytecodePCs)))
BytecodeReadRaf_expected(inst, acc, r) ==
    LET r_address == Take(r, LOG_K_BYTECODE)
        r_cycle == Reverse(Drop(r, LOG_K_BYTECODE))
        ras == Range(ClaimsOf(acc, BytecodeRas, "BytecodeReadRaf"))
        int == Eval(Poly("identity"), r_address)
        g(e) == Pow(inst.gamma[1], e)
        cycles == <<PointOf(acc, Poly("Imm"), Outer),
                    Drop(PointOf(acc, Poly("Rs1Ra"), RegRWC), LOG_REGISTERS),
                    Drop(PointOf(acc, Poly("RdWa"), RegVal), LOG_REGISTERS)>>
        at(k) == EqAt(cycles[k], r_cycle) \union ras IN
    {Term(g(k - 1), at(k) \union {BytecodeVal(k, inst.gamma[k + 1], inst.points[k + 3], r_address)})
       : k \in 1 .. 3}
    \* gamma^3 with stage 1, gamma^2 * gamma^2 with stage 3
    \union {Term(g(3), at(1) \union {int}), Term(g(4), at(3) \union {int})}
BytecodeReadRaf_cache(inst, acc, r, claims) ==
    LET chunks == ChunksOf(Take(r, LOG_K_BYTECODE), BYTECODE_CHUNK) IN
    [i \in 1 .. BYTECODE_D |->
        Sparse(<<BytecodeRa(i - 1)>>, "BytecodeReadRaf",
               chunks[i] \o Reverse(Drop(r, LOG_K_BYTECODE)), <<claims[i]>>)]
BytecodeReadRaf_constraint(inst) == BytecodeTerms(inst.gamma, BytecodeReads, BytecodePCs)

BytecodeBooleanity(gamma, r_address) ==
    Instance("bytecode_booleanity", 3, BYTECODE_CHUNK + LOG_T, <<gamma>>, <<r_address>>, {})
BytecodeBooleanity_expected(inst, acc, r) ==
    Times(EqAt(r, Reverse(inst.points[1]) \o Reverse(LookupCycle(acc))),
          BooleanityOf(inst.gamma[1], ClaimsOf(acc, BytecodeRas, "BytecodeBooleanity")))
BytecodeBooleanity_cache(inst, acc, r, claims) ==
    <<Sparse(BytecodeRas, "BytecodeBooleanity",
             Reverse(Take(r, BYTECODE_CHUNK)) \o Reverse(Drop(r, BYTECODE_CHUNK)), claims)>>

BytecodeHammingWeight(gamma) ==
    Instance("bytecode_hamming", 1, BYTECODE_CHUNK, <<gamma>>, <<>>, GammaSum(gamma, BYTECODE_D))
BytecodeHammingWeight_expected(inst, acc, r) ==
    Weighted(inst.gamma[1], ClaimsOf(acc, BytecodeRas, "BytecodeHammingWeight"))
BytecodeHammingWeight_cache(inst, acc, r, claims) ==
    <<Sparse(BytecodeRas, "BytecodeHammingWeight", Reverse(r) \o LookupCycle(acc), claims)>>
BytecodeHammingWeight_constraint(inst) == GammaSum(inst.gamma[1], BYTECODE_D)

-----------------------------------------------------------------------------
(* The stages: their instances, in order, and the challenges they draw *)

stage2_draws == 4 + LOG_K_RAM + LOG_K_CHUNK
stage2_instances(acc, tr) ==
    LET g(k) == Len(tr) + k IN
    <<Rep3InnerSumcheck(acc, g(1)), Rep3RegistersReadWriteChecking(acc, g(2)), Rep3RafEvaluation(acc),
      Rep3RamReadWriteChecking(acc, g(3)), Rep3OutputSumcheck(DrawnAfter(tr, 3, LOG_K_RAM)),
      Rep3BooleanitySumcheck(Len(LookupCycle(acc)), g(4 + LOG_K_RAM),
                             DrawnAfter(tr, 4 + LOG_K_RAM, LOG_K_CHUNK))>>

stage3_draws == 3
stage3_instances(acc, tr, init_eval) ==
    LET g(k) == Len(tr) + k IN
    <<Public(PCSumcheck(acc, g(1))), Rep3ProductVirtualizationSumcheck(acc), Rep3ValEvaluation(acc),
      Rep3ReadRafSumcheck(acc, g(2)), Rep3HammingWeightSumcheck(g(3)),
      Rep3RamValEvaluation(acc, init_eval), Rep3ValFinalSumcheck(acc), Public(RamHammingBooleanity)>>

RamStage4Draws == 3 + LOG_T + RAM_CHUNK
RamStage4(acc, tr) ==
    <<RamHammingWeightSumcheck(acc, Len(tr) + 1),
      RamBooleanitySumcheck(Len(tr) + 2 + LOG_T + RAM_CHUNK, DrawnAfter(tr, 1, LOG_T),
                            DrawnAfter(tr, 1 + LOG_T, RAM_CHUNK)),
      RaSumcheck(acc, Len(tr) + RamStage4Draws)>>
BytecodeStage4Draws == 6 + BYTECODE_CHUNK
BytecodeStage4(acc, tr) ==
    <<BytecodeReadRaf(acc, DrawnAfter(tr, 0, 4)),
      BytecodeBooleanity(Len(tr) + 5, DrawnAfter(tr, 5, BYTECODE_CHUNK)),
      BytecodeHammingWeight(Len(tr) + BytecodeStage4Draws)>>
stage4_draws == RamStage4Draws + BytecodeStage4Draws
\* eyre::ensure!: stage 3 must have opened InstructionRa.
stage4_ready(acc) == HasOpening(acc, Id(Poly("InstructionRa"), ReadRaf))
stage4_instances(acc, tr) ==
    LET public == RamStage4(acc, tr) \o BytecodeStage4(acc, WithChallenges(tr, RamStage4Draws)) IN
    [i \in 1 .. Len(public) |-> Public(public[i])] \o <<Rep3InstructionRaSumcheck(acc)>>

-----------------------------------------------------------------------------
(* BatchedSumcheckInstance: the methods of an instance by its type *)

expected_output_claim(inst, acc, r) ==
    CASE inst.name = "inner" -> Rep3InnerSumcheck_expected(inst, acc, r)
      [] inst.name = "pc" -> PCSumcheck_expected(inst, acc, r)
      [] inst.name = "product" -> Rep3ProductVirtualizationSumcheck_expected(inst, acc, r)
      [] inst.name = "registers_rwc" -> Rep3RegistersReadWriteChecking_expected(inst, acc, r)
      [] inst.name = "registers_val" -> Rep3ValEvaluation_expected(inst, acc, r)
      [] inst.name = "ram_raf" -> Rep3RafEvaluation_expected(inst, acc, r)
      [] inst.name = "ram_rwc" -> Rep3RamReadWriteChecking_expected(inst, acc, r)
      [] inst.name = "output" -> Rep3OutputSumcheck_expected(inst, acc, r)
      [] inst.name = "ram_val_final" -> Rep3ValFinalSumcheck_expected(inst, acc, r)
      [] inst.name = "ram_val" -> Rep3RamValEvaluation_expected(inst, acc, r)
      [] inst.name = "ram_hamming_booleanity" -> RamHammingBooleanity_expected(inst, acc, r)
      [] inst.name = "lookups_booleanity" -> Rep3BooleanitySumcheck_expected(inst, acc, r)
      [] inst.name = "lookups_read_raf" -> Rep3ReadRafSumcheck_expected(inst, acc, r)
      [] inst.name = "lookups_hamming" -> Rep3HammingWeightSumcheck_expected(inst, acc, r)
      [] inst.name = "lookups_ra" -> Rep3InstructionRaSumcheck_expected(inst, acc, r)
      [] inst.name = "ram_hamming" -> RamHammingWeightSumcheck_expected(inst, acc, r)
      [] inst.name = "ram_booleanity" -> RamBooleanitySumcheck_expected(inst, acc, r)
      [] inst.name = "ram_ra" -> RaSumcheck_expected(inst, acc, r)
      [] inst.name = "bytecode_read_raf" -> BytecodeReadRaf_expected(inst, acc, r)
      [] inst.name = "bytecode_booleanity" -> BytecodeBooleanity_expected(inst, acc, r)
      [] inst.name = "bytecode_hamming" -> BytecodeHammingWeight_expected(inst, acc, r)

cache_openings(inst, acc, r, claims) ==
    CASE inst.name = "inner" -> Rep3InnerSumcheck_cache(inst, acc, r, claims)
      [] inst.name = "pc" -> PCSumcheck_cache(inst, acc, r, claims)
      [] inst.name = "product" -> Rep3ProductVirtualizationSumcheck_cache(inst, acc, r, claims)
      [] inst.name = "registers_rwc" -> Rep3RegistersReadWriteChecking_cache(inst, acc, r, claims)
      [] inst.name = "registers_val" -> Rep3ValEvaluation_cache(inst, acc, r, claims)
      [] inst.name = "ram_raf" -> Rep3RafEvaluation_cache(inst, acc, r, claims)
      [] inst.name = "ram_rwc" -> Rep3RamReadWriteChecking_cache(inst, acc, r, claims)
      [] inst.name = "output" -> Rep3OutputSumcheck_cache(inst, acc, r, claims)
      [] inst.name = "ram_val_final" -> Rep3ValFinalSumcheck_cache(inst, acc, r, claims)
      [] inst.name = "ram_val" -> Rep3RamValEvaluation_cache(inst, acc, r, claims)
      [] inst.name = "ram_hamming_booleanity" -> RamHammingBooleanity_cache(inst, acc, r, claims)
      [] inst.name = "lookups_booleanity" -> Rep3BooleanitySumcheck_cache(inst, acc, r, claims)
      [] inst.name = "lookups_read_raf" -> Rep3ReadRafSumcheck_cache(inst, acc, r, claims)
      [] inst.name = "lookups_hamming" -> Rep3HammingWeightSumcheck_cache(inst, acc, r, claims)
      [] inst.name = "lookups_ra" -> Rep3InstructionRaSumcheck_cache(inst, acc, r, claims)
      [] inst.name = "ram_hamming" -> RamHammingWeightSumcheck_cache(inst, acc, r, claims)
      [] inst.name = "ram_booleanity" -> RamBooleanitySumcheck_cache(inst, acc, r, claims)
      [] inst.name = "ram_ra" -> RaSumcheck_cache(inst, acc, r, claims)
      [] inst.name = "bytecode_read_raf" -> BytecodeReadRaf_cache(inst, acc, r, claims)
      [] inst.name = "bytecode_booleanity" -> BytecodeBooleanity_cache(inst, acc, r, claims)
      [] inst.name = "bytecode_hamming" -> BytecodeHammingWeight_cache(inst, acc, r, claims)

\* The instances whose output_claim_constraint is not None.
OutputConstrained == {"product", "registers_rwc", "registers_val", "ram_raf", "ram_rwc", "output", "ram_val_final",
                      "ram_val"}

\* A public input has no constraint.
input_claim_constraint(inst) ==
    CASE inst.name = "inner" -> Rep3InnerSumcheck_constraint(inst)
      [] inst.name = "pc" -> PCSumcheck_constraint(inst)
      [] inst.name = "product" -> Rep3ProductVirtualizationSumcheck_constraint(inst)
      [] inst.name = "registers_rwc" -> Rep3RegistersReadWriteChecking_constraint(inst)
      [] inst.name = "registers_val" -> Rep3ValEvaluation_constraint(inst)
      [] inst.name = "ram_raf" -> Rep3RafEvaluation_constraint(inst)
      [] inst.name = "ram_rwc" -> Rep3RamReadWriteChecking_constraint(inst)
      [] inst.name = "ram_val_final" -> Rep3ValFinalSumcheck_constraint(inst)
      [] inst.name = "ram_val" -> Rep3RamValEvaluation_constraint(inst)
      [] inst.name = "lookups_read_raf" -> Rep3ReadRafSumcheck_constraint(inst)
      [] inst.name = "lookups_hamming" -> Rep3HammingWeightSumcheck_constraint(inst)
      [] inst.name = "lookups_ra" -> Rep3InstructionRaSumcheck_constraint(inst)
      [] inst.name = "ram_hamming" -> RamHammingWeightSumcheck_constraint(inst)
      [] inst.name = "ram_ra" -> RaSumcheck_constraint(inst)
      [] inst.name = "bytecode_read_raf" -> BytecodeReadRaf_constraint(inst)
      [] inst.name = "bytecode_hamming" -> BytecodeHammingWeight_constraint(inst)
      [] OTHER -> NoConstraint
=============================================================================
