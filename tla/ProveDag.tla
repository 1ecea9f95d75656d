------------------------------ MODULE ProveDag ------------------------------
(***************************************************************************)
(* One proof: the coordinator (JoltDag::prove), three workers               *)
(* (JoltDagWorker::prove) and the verifier of the result (jolt-core's       *)
(* JoltDAG::verify), in the zk build.  The coordinator owns the transcript: *)
(* it combines what the workers send, draws challenges and broadcasts them. *)
(* The verifier, which sees only the proof, must draw the same challenges,  *)
(* build the same sumcheck instances and file the same openings.            *)
(*                                                                         *)
(* A step of the coordinator or of a worker is what it does from one        *)
(* receive to the next.  Requests and responses are FIFO per party, and     *)
(* the coordinator reads one response of each party at a time.  The three   *)
(* workers hold shares of the same values: a combination is right exactly   *)
(* when the three shares are of the same value.                             *)
(***************************************************************************)
EXTENDS Openings

CONSTANTS
    WORKER_SWITCH,   \* sumcheck_switch_index as the workers compute it
    LOG_ADVICE       \* kind of advice |-> log2 of its padded size in words

ASSUME WorkerSwitchAssumption == WORKER_SWITCH \in 0 .. LOG_T
ASSUME AdviceAssumption ==
    /\ DOMAIN LOG_ADVICE = {"untrusted", "trusted"}
    /\ \A kind \in DOMAIN LOG_ADVICE : LOG_ADVICE[kind] \in 0 .. LOG_K_RAM

VARIABLES
    coord,       \* the coordinator: its StateManager and where it is in prove
    worker,      \* the workers, by party
    requests,    \* party |-> broadcasts it has not received
    responses,   \* party |-> responses the coordinator has not received
    verifier,    \* the verifier
    scenario     \* what the parties were started with

vars == <<coord, worker, requests, responses, verifier, scenario>>

C == INSTANCE CoordSumchecks
V == INSTANCE VerifierSumchecks
W == INSTANCE WorkerSumchecks

Party == 0 .. 2
Kinds == {"untrusted", "trusted"}

-----------------------------------------------------------------------------
(* What a scenario gives a party.  "trace_length": one party traced another *)
(* number of cycles; "advice": one party was given no advice; "crash": one  *)
(* party stops somewhere.                                                   *)

TraceLength(p) == IF scenario.odd = "trace_length" /\ p = 1 THEN 1 ELSE 0
\* the advice of the memory layout fits the generators of the padded trace
AdviceFits(advice) == \A kind \in advice : LOG_ADVICE[kind] <= LOG_T
AdviceOf(p) == IF scenario.odd = "advice" /\ p = 2 THEN {} ELSE scenario.advice
Honest == scenario.odd = "none" /\ AdviceFits(scenario.advice)

Commitment(poly) == Comb("commitment", <<>>, <<Eval(poly, <<>>)>>)
AdvicePoly(kind) == <<kind, 0>>
AdviceId(kind) == Id(AdvicePoly(kind), "Advice")

MaxRounds(insts) == Max({insts[i].rounds : i \in DOMAIN insts})
MaxDegree(insts) == Max({insts[i].degree : i \in DOMAIN insts})
\* The challenges of an instance: the last of the batch.
Slice(insts, i, r) == Drop(r, MaxRounds(insts) - insts[i].rounds)

next_power_of_two(n) == CHOOSE c \in {2^k : k \in 0 .. n} : c >= n /\ (c = 1 \/ c \div 2 < n)
div_ceil(n, c) == (n + c - 1) \div c

-----------------------------------------------------------------------------
(* Combining the parties' shares *)

Garbage == Comb("garbage", <<>>, <<>>)
Combined(share) == IF \A p \in Party : share[p] = share[0] THEN share[0] ELSE Garbage
\* combine_additive_vec
combine_additive_vec(shares) ==
    IF \A p \in Party : Len(shares[p]) = Len(shares[0])
    THEN [i \in 1 .. Len(shares[0]) |-> Combined([p \in Party |-> shares[p][i]])]
    ELSE [i \in 1 .. Len(shares[0]) |-> Garbage]

\* receive_hybrid_opening_claims: the secret claims of the parties combined, and
\* party 0's public ones, which are added to them when an instance has both (the
\* branch of several subnets ends in Dory's error and is left out).
SecretClaims(m, i) ==
    IF \A p \in Party : m[p][i].secret = <<>> THEN <<>> ELSE combine_additive_vec([p \in Party |-> m[p][i].secret])
hybrid_lengths_match(m) ==
    \A i \in 1 .. Len(m[0]) : \/ <<>> \in {SecretClaims(m, i), m[0][i].public}
                              \/ Len(SecretClaims(m, i)) = Len(m[0][i].public)
receive_hybrid_opening_claims(m) ==
    [i \in 1 .. Len(m[0]) |->
        LET secret == SecretClaims(m, i)
            public == m[0][i].public IN
        CASE secret = <<>> -> public
          [] secret # <<>> /\ public = <<>> -> secret
          [] secret # <<>> /\ public # <<>> -> [j \in 1 .. Len(secret) |-> Comb("sum", <<>>, <<secret[j], public[j]>>)]]

-----------------------------------------------------------------------------
(* The transcript up to stage 1, on both sides *)

fiat_shamir_preamble(trace_length) ==
    [i \in 1 .. 7 |-> Appended(<<"max_input_size", "max_output_size", "memory_size", "inputs",
                                 "outputs", "panic", "ram_K">>[i], Zero)]
    \o <<Appended("trace_length", Comb("trace_length", <<trace_length>>, <<>>))>>
append_commitments(tr, commitments) ==
    tr \o [i \in 1 .. Len(commitments) |-> Appended("serializable", commitments[i])]
\* The untrusted advice commitment goes first.
append_advice_commitments(tr, advice) ==
    tr \o SelectSeq([i \in 1 .. 2 |-> Appended("serializable", Commitment(AdvicePoly(<<"untrusted", "trusted">>[i])))],
                    LAMBDA a : \E kind \in advice : a.value = Commitment(AdvicePoly(kind)))
append_round_commitment(tr, commitment) ==
    append_serializable(append_message(tr, "sumcheck_commitment"), commitment)
append_output_claims(tr, rows) ==
    append_commitments(append_message(tr, "output_claims_coms"), rows)

\* Advice is opened at the low variables of RamVal's address.
advice_opening_point(acc, kind) ==
    LET r_address == Take(PointOf(acc, Poly("RamVal"), RamRWC), LOG_K_RAM) IN
    Drop(r_address, LOG_K_RAM - LOG_ADVICE[kind])
\* The columns of Dory's matrix: half of the variables, rounded up.
sigma(context) ==
    LET total_vars == IF context = "main" THEN LOG_K_CHUNK + LOG_T ELSE LOG_ADVICE[context] IN
    (total_vars + 1) \div 2
OpeningProof(point, claim) == [op |-> "opening_proof", i |-> 0, pt |-> point, of |-> claim]

-----------------------------------------------------------------------------
(* Stage 5: the reduction of the openings of committed polynomials *)

\* prepare_sumcheck: gammas[offset ..] weigh the polynomials of a reduction
\* that has several, a single polynomial has weight one.
Offset(sumchecks, i) == TotalGammas(Take(sumchecks, i - 1))
RlcCoeffs(sumchecks, gammas, i) ==
    LET n == Len(sumchecks[i].polys) IN
    [j \in 1 .. n |-> IF n > 1 THEN Pow(gammas[Offset(sumchecks, i) + j], 1) ELSE {}]
Reduced(coeffs, values) == {Term(coeffs[j], {values[j]}) : j \in 1 .. Len(coeffs)}
Reductions(sumchecks, gammas, claims) ==
    [i \in 1 .. Len(sumchecks) |->
        [name |-> "reduction", degree |-> 2, rounds |-> Len(sumchecks[i].point), public |-> FALSE,
         point |-> sumchecks[i].point, polys |-> sumchecks[i].polys,
         coeffs |-> RlcCoeffs(sumchecks, gammas, i),
         input |-> Reduced(RlcCoeffs(sumchecks, gammas, i), claims[i])]]

\* gamma^(i-1) times the product of 1 - r over the variables before the
\* opening's own.
ConstraintCoeffs(insts, gamma, r) ==
    [i \in 1 .. Len(insts) |->
        Term(Pow(gamma, i - 1), {Comb("one_minus", <<x>>, <<>>) : x \in Range(Take(r, Len(r) - insts[i].rounds))})]
\* The joint claim, and the RLC of each committed polynomial.
JointClaim(coeffs, claims) ==
    UNION {{Term(coeffs[i][1] \union t[1], coeffs[i][2] \union t[2]) : t \in claims[i]} : i \in 1 .. Len(coeffs)}
JointRlc(insts, gamma) ==
    UNION {{Term(Pow(gamma, i - 1) \union insts[i].coeffs[j], {Eval(insts[i].polys[j], <<>>)})
              : j \in 1 .. Len(insts[i].polys)} : i \in 1 .. Len(insts)}
ReducedOpeningClaim(i) == <<"ReducedOpeningClaim", i - 1, "OpeningReduction">>

-----------------------------------------------------------------------------
(* BlindFold: what both sides derive from a stage *)

\* A constraint evaluated over the openings it names.
ConstraintValue(constraint, acc) ==
    {Term(t[1], {Opening(acc, id).claim : id \in t[2]}) : t \in constraint}

\* OutputClaimConstraint::batch: a stage has an output constraint only if all of
\* its instances state one.
AllConstrained(insts, constrained) == \A i \in DOMAIN insts : insts[i].name \in constrained

-----------------------------------------------------------------------------
(* The coordinator.  A step maps its state and the message of each party   *)
(* to its next state and the requests it broadcasts.                       *)

\* next: what it waits for; insts, batching, r: the sumcheck in progress;
\* stages: the ZkStageData of the stages it has finished.
CoordInit ==
    [next |-> "trace_length", stage |-> 1, tr |-> <<>>, acc |-> NoOpenings, trace_length |-> 0,
     advice |-> {}, commitments |-> <<>>, tau |-> <<>>, dory |-> 0, insts |-> <<>>, batching |-> <<>>, r |-> <<>>,
     rounds |-> <<>>, final |-> <<>>, stages |-> <<>>, opened |-> <<>>,
     reduction |-> [rounds |-> <<>>, claims |-> <<>>, coeffs |-> <<>>, insts |-> <<>>]]

Does(c, sends) == [c |-> c, sends |-> sends]
Fails(c) == Does([c EXCEPT !.next = "failed"], <<>>)
Request(kind, gammas, claims, points) ==
    [kind |-> kind, gammas |-> gammas, claims |-> claims, points |-> points]
Challenge(kind, gammas) == Request(kind, gammas, <<>>, <<>>)

\* prove: all parties traced the same number of cycles.
receive_trace_length(c, m) ==
    IF \A p \in Party : m[p] = m[0]
    THEN Does([c EXCEPT !.next = "commitments", !.trace_length = m[0], !.tr = fiat_shamir_preamble(m[0])], <<>>)
    ELSE Fails(c)

receive_commitments(c, m) ==
    LET commitments == combine_additive_vec(m) IN
    Does([c EXCEPT !.next = "untrusted", !.commitments = commitments,
                   !.tr = append_commitments(@, commitments)], <<>>)

\* Advice is absent from every party or present at every party.
AdviceCommitted(c, kind, m) ==
    IF \A p \in Party : m[p] THEN [c EXCEPT !.advice = @ \union {kind}] ELSE c
receive_untrusted_advice_commitment(c, m) ==
    IF \A p \in Party : m[p] = m[0]
    THEN Does([AdviceCommitted(c, "untrusted", m) EXCEPT !.next = "trusted"], <<>>)
    ELSE Fails(c)
\* ... then the commitments are appended and stage 1 draws tau.
receive_trusted_advice_commitment(c, m) ==
    LET d == AdviceCommitted(c, "trusted", m)
        tr == append_advice_commitments(c.tr, d.advice)
        tau == challenge_vector(tr, LOG_T + LOG_ROWS) IN
    IF \A p \in Party : m[p] = m[0]
    THEN Does([d EXCEPT !.next = "round", !.tr = WithChallenges(tr, LOG_T + LOG_ROWS), !.tau = tau],
              <<Request("tau", <<>>, <<>>, <<tau>>)>>)
    ELSE Fails(c)

\* Mutant: the constant term of a round polynomial is forgotten.
generator_count_without_constant == next_power_of_two(Max({4, D, RAM_D, BYTECODE_D}))
\* blindfold_pedersen_generator_count: the generators a round polynomial or a
\* row of output claims may use.
blindfold_pedersen_generator_count ==
    next_power_of_two(Max({4, D + 1, RAM_D + 1, BYTECODE_D + 1}))

\* A round: the combined polynomial is committed to and the next challenge is
\* drawn; after the last round the opening claims follow.
DrawRound(c, tr, poly, last) ==
    LET r_j == Len(tr) + 1 IN
    Does([c EXCEPT !.tr = WithChallenges(tr, 1), !.r = Append(@, r_j), !.rounds = Append(@, poly),
                   !.next = IF Len(c.rounds) + 1 = last THEN "claims" ELSE "round"],
         <<Challenge("challenge", <<r_j>>)>>)
RoundPolys(m) == Combined([p \in Party |-> m[p].poly])
\* stage1_prove: each party sends two evaluations.
OuterRound(c, m) ==
    LET poly == RoundPolys(m) IN
    DrawRound(c, append_round_commitment(c.tr, poly), poly, LOG_T + LOG_ROWS)
\* HybridBatchedSumcheck::prove_zk: max_degree secret evaluations of each party,
\* and party 0's public ones.
HybridRound(c, m) ==
    LET poly == RoundPolys(m) IN
    IF m[0].evals = MaxDegree(c.insts) /\ m[0].public \in {0, m[0].evals}
       /\ MaxDegree(c.insts) + 1 <= blindfold_pedersen_generator_count
    THEN DrawRound(c, append_round_commitment(c.tr, poly), poly, MaxRounds(c.insts))
    ELSE Fails(c)

\* The pending claims are committed to in rows and the stage's data is kept.
EndStage(c, s, degree) ==
    LET rows == [i \in 1 .. div_ceil(Len(s.acc.pending), blindfold_pedersen_generator_count) |->
                    Comb("output_claims_row", <<c.stage, i>>, <<>>)] IN
    [c EXCEPT !.tr = append_output_claims(s.tr, rows),
              !.acc = [s.acc EXCEPT !.pending = <<>>, !.zk = FALSE],
              !.stages = Append(@, [insts |-> c.insts, batching |-> c.batching, r |-> c.r, rounds |-> c.rounds,
                                    degree |-> degree, rows |-> rows, tau |-> c.tau,
                                    oc_block |-> [i \in 1 .. Len(s.acc.pending) |-> s.acc.pending[i].key]]),
              !.r = <<>>, !.rounds = <<>>]
ZkMode(c) == [acc |-> [c.acc EXCEPT !.zk = TRUE], tr |-> c.tr]

\* The instances of a stage are announced, then the batching coefficients.
BeginSumcheck(c, tr, insts, sends) ==
    LET coeffs == challenge_vector(tr, Len(insts)) IN
    Does([c EXCEPT !.next = "round", !.stage = @ + 1, !.tr = WithChallenges(tr, Len(insts)),
                   !.insts = insts, !.batching = coeffs],
         Append(sends, Challenge("batching", coeffs)))

BeginStage2(c) ==
    LET insts == C!stage2_instances(c.acc, c.tr)
        inner == insts[1]
        registers == insts[2]
        ram_rwc == insts[4]
        output == insts[5]
        booleanity == insts[6] IN
    BeginSumcheck(c, WithChallenges(c.tr, C!stage2_draws), insts,
        <<Request("init", inner.gamma, <<inner.input>>, <<>>),
          Request("init", registers.gamma, <<registers.input>>, <<>>),
          Request("init", ram_rwc.gamma, <<ram_rwc.input>>, <<output.points[1]>>),
          Request("init", booleanity.gamma, <<>>, <<booleanity.points[1]>>)>>)

\* Stage 3 needs the workers' evaluation of the initial memory first.
receive_ram_init(c, m) ==
    LET insts == C!stage3_instances(c.acc, c.tr, Combined(m))
        claim(name) == {Term({}, {OuterClaim(c.acc, name)})}
        raf == insts[4].gamma[1] IN
    BeginSumcheck(c, WithChallenges(c.tr, C!stage3_draws), insts,
        <<Request("init", insts[1].gamma, <<insts[1].input, claim("Product")>>, <<>>),
          Request("init", insts[5].gamma, <<insts[3].input, insts[7].input, insts[6].input>>, <<>>),
          Request("init", insts[4].gamma,
                  <<claim("LookupOutput"),
                    Weighted(raf, OuterClaims(c.acc, <<"LeftLookupOperand", "RightLookupOperand">>))>>, <<>>)>>)

BeginStage4(c) ==
    LET insts == C!stage4_instances(c.acc, c.tr)
        parts == [kind |-> "init",
            ram |-> [gammas |-> insts[1].gamma \o insts[2].gamma \o insts[3].gamma,
                     claims |-> <<insts[1].input, insts[3].input>>,
                     points |-> insts[2].points \o insts[3].points],
            bytecode |-> [gammas |-> insts[4].gamma \o insts[5].gamma \o insts[6].gamma,
                          claims |-> <<insts[4].input>>,
                          points |-> insts[4].points \o <<insts[5].points[1]>>],
            lookups |-> [claims |-> <<insts[7].input>>,
                         points |-> <<FlattenSeq(Drop(insts[7].points, 1)), insts[7].points[1]>>]] IN
    IF C!stage4_ready(c.acc)
    THEN BeginSumcheck(c, WithChallenges(c.tr, C!stage4_draws), insts, <<parts>>)
    ELSE Fails(c)

\* reduce_and_prove up to the first round.  A claim is the one the opening was
\* filed with.
BeginStage5(c) ==
    LET gammas == challenge_vector(c.tr, TotalGammas(c.acc.sumchecks))
        tr == WithChallenges(c.tr, Len(gammas))
        claims == [i \in 1 .. Len(c.acc.sumchecks) |->
                      [j \in 1 .. Len(c.acc.sumchecks[i].polys) |->
                          c.acc.openings[Id(c.acc.sumchecks[i].polys[j], c.acc.sumchecks[i].id)].claim]]
        begun == BeginSumcheck(c, tr, Reductions(c.acc.sumchecks, gammas, claims),
                               <<Challenge("gammas", gammas)>>) IN
    [begun EXCEPT !.c.tr = append_scalars(@, [i \in 1 .. Len(claims) |-> begun.c.insts[i].input])]

\* Mutant: the untrusted advice is opened first.
NextOpeningUntrustedFirst(c) ==
    LET left == c.advice \ Range(c.opened)
        kind == IF "untrusted" \in left THEN "untrusted" ELSE "trusted" IN
    IF left = {} THEN BeginStage5(c)
    ELSE Does([c EXCEPT !.next = "advice_eval", !.opened = Append(@, kind)],
              <<Request("advice_point", <<>>, <<>>, <<advice_opening_point(c.acc, kind)>>)>>)
\* The advice proofs, the trusted one first, then stage 5.
NextOpening(c) ==
    LET left == c.advice \ Range(c.opened)
        kind == IF "trusted" \in left THEN "trusted" ELSE "untrusted" IN
    IF left = {} THEN BeginStage5(c)
    ELSE Does([c EXCEPT !.next = "advice_eval", !.opened = Append(@, kind)],
              <<Request("advice_point", <<>>, <<>>, <<advice_opening_point(c.acc, kind)>>)>>)

OuterFinal(c, m) == Does([c EXCEPT !.next = "claims_cycle", !.final = combine_additive_vec(m)], <<>>)
\* The evaluations of all R1CS inputs at r_cycle; then stage 2 begins.
OuterInputClaims(c, m) ==
    LET claims == combine_additive_vec(m)
        outer_sumcheck_r == Reverse(c.r)
        r_cycle == Take(outer_sumcheck_r, LOG_T)
        at(poly) == claims[CHOOSE i \in 1 .. Len(ALL_R1CS_INPUTS) : ALL_R1CS_INPUTS[i] = poly]
        calls == [i \in 1 .. 3 |-> Virtual(Poly(<<"SpartanAz", "SpartanBz", "SpartanCz">>[i]), Outer,
                                           outer_sumcheck_r, c.final[i])]
                 \o <<Dense(COMMITTED_R1CS_INPUTS, Outer, r_cycle,
                            [i \in 1 .. Len(COMMITTED_R1CS_INPUTS) |-> at(COMMITTED_R1CS_INPUTS[i])])>>
                 \o LET virtual == SelectSeq(ALL_R1CS_INPUTS, LAMBDA poly : ~IsCommittedInput(poly)) IN
                    [i \in 1 .. Len(virtual) |-> Virtual(virtual[i], Outer, r_cycle, at(virtual[i]))] IN
    IF Len(claims) = Len(ALL_R1CS_INPUTS)
    THEN BeginStage2(EndStage(c, Folded(CoordAppend, ZkMode(c), calls), 3))
    ELSE Fails(c)

\* Every instance files its openings; stage_data_from_instances asserts that
\* its input constraint gives its input claim.
CoordCached(c, claims) ==
    Folded(LAMBDA s, i :
                Folded(CoordAppend, s, C!cache_openings(c.insts[i], s.acc, Slice(c.insts, i, c.r), claims[i])),
             ZkMode(c), [i \in 1 .. Len(c.insts) |-> i])
stage_data_from_instances(insts, acc) ==
    \A i \in DOMAIN insts :
        insts[i].input = ConstraintValue(C!input_claim_constraint(insts[i]), acc)
HybridClaims(c, m) ==
    LET claims == receive_hybrid_opening_claims(m)
        s == CoordCached(c, claims)
        ended == EndStage(c, s, MaxDegree(c.insts)) IN
    IF ~hybrid_lengths_match(m) \/ Len(claims) # Len(c.insts) THEN Fails(c)
    ELSE IF s.acc.inconsistent \/ ~stage_data_from_instances(c.insts, ended.acc) THEN Fails(c)
    ELSE CASE c.stage = 2 -> Does([ended EXCEPT !.next = "ram_init"], <<>>)
           [] c.stage = 3 -> BeginStage4(ended)
           [] c.stage = 4 -> NextOpening(ended)

\* The opening is inserted without touching the transcript; the Dory
\* exchange follows.
AdviceEval(c, m) ==
    LET kind == Last(c.opened) IN
    Does([c EXCEPT !.next = "dory",
                   !.acc.openings = Put(@, AdviceId(kind), [point |-> advice_opening_point(c.acc, kind),
                                                            claim |-> Combined(m)])], <<>>)

\* Rep3BatchedSumcheck: the reduction's rounds are sent in the clear.
ReductionRound(c, m) ==
    LET poly == RoundPolys(m) IN
    IF m[0].evals = MaxDegree(c.insts)
    THEN DrawRound(c, append_serializable(c.tr, poly), poly, MaxRounds(c.insts))
    ELSE Fails(c)
ReductionClaims(c, m) ==
    LET claims == combine_additive_vec(m)
        tr == append_scalars(c.tr, claims)
        gamma == Len(tr) + 1
        coeffs == ConstraintCoeffs(c.insts, gamma, c.r) IN
    IF Len(claims) # Len(c.insts) THEN Fails(c)
    ELSE Does([c EXCEPT !.next = "dory", !.tr = WithChallenges(tr, 1),
                        !.reduction = [rounds |-> c.rounds, claims |-> claims, coeffs |-> coeffs,
                                       insts |-> c.insts],
                        !.acc.openings = Folded(LAMBDA o, i : Put(o, ReducedOpeningClaim(i),
                                                      [point |-> c.r, claim |-> claims[i]]),
                                                  @, [i \in 1 .. Len(claims) |-> i])],
              <<Challenge("gamma", <<gamma>>)>>)

\* coordinate_prove: the combined rows go back masked, the vector-matrix-vector
\* message follows, then sigma rounds of two messages with a challenge each, and
\* the last of v2.  sigma is that of the matrix that is opened: DoryGlobals'
\* context, which each side sets for itself.
coordinate_prove(c, m) ==
    Does([c EXCEPT !.next = "vmv", !.dory = sigma(IF c.stage = 5 THEN "main" ELSE Last(c.opened))],
         <<Challenge("rows", <<>>)>>)
ReduceOrEnd(c) == [c EXCEPT !.next = IF c.dory > 0 THEN "first" ELSE "dory_final"]
DoryVmv(c, m) == Does(ReduceOrEnd(c), <<>>)
DoryFirst(c, m) == Does([c EXCEPT !.next = "second"], <<Challenge("beta", <<>>)>>)
DorySecond(c, m) == Does(ReduceOrEnd([c EXCEPT !.dory = @ - 1]), <<Challenge("alpha", <<>>)>>)
OpenedBy(c) ==
    IF c.stage = 5
    THEN OpeningProof(c.r, JointClaim(c.reduction.coeffs, c.reduction.claims))
    ELSE OpeningProof(c.acc.openings[AdviceId(Last(c.opened))].point,
                      {Term({}, {c.acc.openings[AdviceId(Last(c.opened))].claim})})
\* prove_blindfold: the asserts on its witness.  The openings are the ones of the
\* end of the proof.  That a round's polynomial sums to the claim before it holds by
\* how the coordinator completes it (evaluation 1 is the claim minus evaluation 0);
\* a stage's last claim is what the workers' polynomials were bound to.
prove_blindfold(c) ==
    LET hyrax_c == next_power_of_two(Max({c.stages[k].degree + 1 : k \in 1 .. 4}))
        outer == c.stages[1]
        opened == [i \in 1 .. Len(c.reduction.claims) |-> c.acc.openings[ReducedOpeningClaim(i)].claim] IN
    /\ Len(c.stages) = 4
    \* the batched input constraints give the initial claims
    /\ \A k \in 2 .. 4 : stage_data_from_instances(c.stages[k].insts, c.acc)
    \* the output constraints give the last claims: eq(tau, r) (Az Bz - Cz) in stage 1
    /\ \A name \in {"SpartanAz", "SpartanBz", "SpartanCz"} :
           OuterClaim(c.acc, name) = Eval(Poly(name), Reverse(outer.r))
    /\ \A k \in 2 .. 4 : AllConstrained(c.stages[k].insts, C!OutputConstrained) =>
           \A i \in DOMAIN c.stages[k].insts :
               LET r == Slice(c.stages[k].insts, i, c.stages[k].r) IN
               C!expected_output_claim(c.stages[k].insts[i], c.acc, r)
               = W!bound(worker[0].history[k - 1].insts[i], worker[0].acc, r).final
    /\ JointClaim(c.reduction.coeffs, opened) = JointClaim(c.reduction.coeffs, c.reduction.claims)
    /\ \A k \in 1 .. 4 : Len(c.stages[k].rows) = div_ceil(Len(c.stages[k].oc_block), hyrax_c)
DoryFinal(c, m) ==
    LET proved == [c EXCEPT !.tr = append_serializable(@, OpenedBy(c))] IN
    IF c.stage # 5 THEN NextOpening(proved)
    ELSE IF prove_blindfold(c) THEN Does([proved EXCEPT !.next = "done"], <<>>)
    ELSE Fails(c)

-----------------------------------------------------------------------------
(* A worker.  A step maps its state and the request it receives to its next *)
(* state and the responses it sends.                                        *)

WorkerInit(p) ==
    [next |-> "start", stage |-> 1, acc |-> W!EmptyWorkerAccumulator, advice |-> AdviceOf(p), reqs |-> <<>>,
     insts |-> <<>>, r |-> <<>>, outer_r |-> <<>>, history |-> <<>>, context |-> "main", dory |-> 0]

Sends(w, sends) == [w |-> w, sends |-> sends]
Response(kind, body) == [kind |-> kind, body |-> body]

\* JoltDagWorker::prove up to the first request.
worker_prove(w, p) ==
    LET length == Response("trace_length", TraceLength(p))
        commitments == [i \in 1 .. Len(AllCommittedPolynomials) |-> Commitment(AllCommittedPolynomials[i])] IN
    IF AdviceFits(w.advice)
    THEN Sends([w EXCEPT !.next = "tau"],
               <<length, Response("commitments", commitments),
                 Response("untrusted", "untrusted" \in w.advice), Response("trusted", "trusted" \in w.advice)>>)
    ELSE Sends([w EXCEPT !.next = "failed"], <<length>>)

\* A round message; public evaluations come from party 0 of a hybrid sumcheck.
RoundMessage(w, p, evals) ==
    Response("round", [evals |-> evals, public |-> IF p = 0 /\ w.stage \in 2 .. 4 THEN evals ELSE 0,
                       poly |-> Comb("round_poly", <<w.stage>> \o w.r, <<>>)])
receive_tau(w, p, req) == Sends([w EXCEPT !.next = "challenge"], <<RoundMessage(w, p, 2)>>)

receive_batching(w, p, req) ==
    IF Len(req.gammas) = Len(w.insts)
    THEN Sends([w EXCEPT !.next = "challenge"], <<RoundMessage(w, p, MaxDegree(w.insts))>>)
    ELSE Sends([w EXCEPT !.next = "failed"], <<>>)

\* The number of initial requests of a stage.
InitRequests(stage) == <<0, 4, 3, 1>>[stage]
receive_init(w, p, req) ==
    LET reqs == Append(w.reqs, req)
        stage == w.stage + 1 IN
    IF Len(reqs) < InitRequests(stage) THEN Sends([w EXCEPT !.reqs = reqs], <<>>)
    ELSE Sends([w EXCEPT !.next = "batching", !.stage = stage, !.reqs = <<>>,
                    !.insts = CASE stage = 2 -> W!stage2_instances(w.acc, w.outer_r, reqs)
                                [] stage = 3 -> W!stage3_instances(w.acc, reqs)
                                [] stage = 4 -> W!stage4_instances(w.acc, reqs)], <<>>)

\* The end of stage 1: Az, Bz, Cz, then all inputs at r_cycle.
OuterBound(w, r) ==
    LET outer_r == Reverse(r)
        r_cycle == Take(outer_r, LOG_T)
        virtual == SelectSeq(ALL_R1CS_INPUTS, LAMBDA poly : ~IsCommittedInput(poly))
        calls == <<Dense(COMMITTED_R1CS_INPUTS, Outer, r_cycle, W!EvalsAt(COMMITTED_R1CS_INPUTS, r_cycle))>>
                 \o [i \in 1 .. Len(virtual) |-> Virtual(virtual[i], Outer, r_cycle, Eval(virtual[i], r_cycle))] IN
    Sends([w EXCEPT !.next = "init", !.r = <<>>, !.outer_r = outer_r,
                    !.acc = Folded(LAMBDA acc, call : W!WorkerAppend(acc, call, FALSE), @, calls)],
          <<Response("claims", W!EvalsAt(W!Named(<<"SpartanAz", "SpartanBz", "SpartanCz">>), outer_r)),
            Response("claims_cycle", W!EvalsAt(ALL_R1CS_INPUTS, r_cycle))>>)

\* The end of a hybrid sumcheck: every instance files its openings; secret
\* claims are sent by all, public ones by party 0.
Filed(acc, insts, r) ==
    Folded(LAMBDA a, i :
                Folded(LAMBDA b, call : W!WorkerAppend(b, call, insts[i].public), a,
                         W!bound(insts[i], a, Slice(insts, i, r)).calls),
             acc, [i \in 1 .. Len(insts) |-> i])
OpeningsMessage(acc, insts, r, p) ==
    Response("claims", [i \in 1 .. Len(insts) |->
        LET claims == W!bound(insts[i], acc, Slice(insts, i, r)).claims IN
        [secret |-> IF insts[i].public THEN <<>> ELSE claims,
         public |-> IF insts[i].public /\ p = 0 THEN claims ELSE <<>>]])
\* What a worker waits for after stage 4: the points of its advice, trusted
\* first, then stage 5.
AfterOpenings(w) == IF w.advice = {} THEN "gammas" ELSE "advice_point"
HybridBound(w, p, r) ==
    LET acc == Filed(w.acc, w.insts, r)
        opened == [w EXCEPT !.acc = acc, !.r = <<>>, !.history = Append(@, [insts |-> w.insts, r |-> r])]
        message == OpeningsMessage(acc, w.insts, r, p) IN
    CASE w.stage = 2 -> Sends([opened EXCEPT !.next = "init"], <<message, Response("ram_init", W!eval_val_init(acc))>>)
      [] w.stage = 3 -> Sends([opened EXCEPT !.next = "init"], <<message>>)
      [] w.stage = 4 -> Sends([opened EXCEPT !.next = AfterOpenings(w)], <<message>>)

\* The end of the reduction: the value of each (combined) polynomial.
ReductionBound(w, r) ==
    Sends([w EXCEPT !.next = "gamma", !.r = r],
          <<Response("claims", [i \in 1 .. Len(w.insts) |->
                Reduced(w.insts[i].coeffs, W!EvalsAt(w.insts[i].polys, Slice(w.insts, i, r)))])>>)

receive_challenge(w, p, req) ==
    LET r == Append(w.r, req.gammas[1])
        rounds == IF w.stage = 1 THEN LOG_T + LOG_ROWS ELSE MaxRounds(w.insts)
        evals == IF w.stage = 1 THEN 2 ELSE MaxDegree(w.insts) IN
    IF Len(r) < rounds THEN Sends([w EXCEPT !.r = r], <<RoundMessage([w EXCEPT !.r = r], p, evals)>>)
    ELSE CASE w.stage = 1 -> OuterBound(w, r)
           [] w.stage \in 2 .. 4 -> HybridBound(w, p, r)
           [] w.stage = 5 -> ReductionBound(w, r)

\* prove_trusted_advice_opening and prove_untrusted_advice_opening.
receive_advice_point(w, p, req) ==
    LET kind == IF "trusted" \in w.advice THEN "trusted" ELSE "untrusted" IN
    Sends([w EXCEPT !.next = "rows", !.advice = @ \ {kind}, !.context = kind],
          <<Response("advice_eval", Eval(AdvicePoly(kind), req.points[1])), Response("dory", {})>>)
receive_gammas(w, p, req) ==
    LET claims == [i \in 1 .. Len(w.acc.sumchecks) |->
                      W!EvalsAt(w.acc.sumchecks[i].polys, w.acc.sumchecks[i].point)] IN
    Sends([w EXCEPT !.next = "batching", !.stage = 5, !.insts = Reductions(w.acc.sumchecks, req.gammas, claims)], <<>>)
\* The joint polynomial is the RLC of all reductions.
receive_gamma(w, p, req) ==
    Sends([w EXCEPT !.next = "rows"], <<Response("dory", JointRlc(w.insts, req.gammas[1]))>>)
\* The next of Dory's rounds, or its last message; the context is Main again.
ReduceOrFinish(w, sends) ==
    IF w.dory > 0 THEN Sends([w EXCEPT !.next = "beta"], Append(sends, Response("first", {})))
    ELSE Sends([w EXCEPT !.context = "main", !.next = IF w.stage = 5 THEN "done" ELSE AfterOpenings(w)],
               Append(sends, Response("dory_final", {})))
prove_rep3(w, p, req) == ReduceOrFinish([w EXCEPT !.dory = sigma(w.context)], <<Response("vmv", {})>>)
receive_beta(w, p, req) == Sends([w EXCEPT !.next = "alpha"], <<Response("second", {})>>)
receive_alpha(w, p, req) == ReduceOrFinish([w EXCEPT !.dory = @ - 1], <<>>)

-----------------------------------------------------------------------------
(* The verifier.  It reads the proof - the commitments, the claims of the   *)
(* openings, the stages' rounds and rows - and nothing else of the          *)
(* coordinator.                                                             *)

Proof ==
    [trace_length |-> coord.trace_length, commitments |-> coord.commitments, advice |-> coord.advice,
     claims |-> [key \in DOMAIN coord.acc.openings |-> coord.acc.openings[key].claim],
     stages |-> [k \in 1 .. Len(coord.stages) |->
                    [rounds |-> coord.stages[k].rounds, degree |-> coord.stages[k].degree,
                     rows |-> coord.stages[k].rows]],
     reduction |-> [rounds |-> coord.reduction.rounds, claims |-> coord.reduction.claims]]

VerifierInit ==
    [next |-> "idle", tr |-> <<>>, acc |-> NoOpenings, stages |-> <<>>, opened |-> <<>>,
     insts |-> <<>>, r |-> <<>>, coeffs |-> <<>>]
Rejects(v) == [v EXCEPT !.next = "rejected"]

\* from_proof, then JoltDAG::verify up to stage 1.
verify(proof) ==
    [VerifierInit EXCEPT !.next = "stage",
        !.acc = prime_openings(proof.claims),
        !.tr = append_advice_commitments(append_commitments(fiat_shamir_preamble(proof.trace_length),
                                                            proof.commitments), proof.advice)]

\* verify_transcript_only: the challenge of a round follows its commitment.
verify_transcript_only(tr, rounds) ==
    Folded(LAMBDA s, commitment :
                LET t == append_round_commitment(s.tr, commitment) IN
                [tr |-> WithChallenges(t, 1), r |-> Append(s.r, Len(t) + 1)],
             [tr |-> tr, r |-> <<>>], rounds)
WellFormed(stage, num_rounds, degree_bound) ==
    Len(stage.rounds) = num_rounds /\ stage.degree <= degree_bound

VerifiedStage(v, s, insts, batching, r, stage, tau) ==
    [v EXCEPT !.tr = s.tr, !.acc = [s.acc EXCEPT !.pending = <<>>, !.zk = FALSE],
              !.stages = Append(@, [insts |-> insts, batching |-> batching, r |-> r, rounds |-> stage.rounds,
                                    degree |-> stage.degree, rows |-> stage.rows, tau |-> tau,
                                    oc_block |-> [i \in 1 .. Len(s.acc.pending) |-> s.acc.pending[i].key]]),
              !.next = IF Len(v.stages) = 3 THEN "openings" ELSE "stage"]

\* SpartanDag::stage1_verify: the rows go to the transcript before the openings
\* are filed.
stage1_verify(v, stage) ==
    LET tau == challenge_vector(v.tr, LOG_T + LOG_ROWS)
        run == verify_transcript_only(WithChallenges(v.tr, LOG_T + LOG_ROWS), stage.rounds)
        outer_sumcheck_r == Reverse(run.r)
        r_cycle == Take(outer_sumcheck_r, LOG_T)
        virtual == SelectSeq(ALL_R1CS_INPUTS, LAMBDA poly : ~IsCommittedInput(poly))
        calls == [i \in 1 .. 3 |-> V!VirtualAt(Poly(<<"SpartanAz", "SpartanBz", "SpartanCz">>[i]), Outer,
                                               outer_sumcheck_r)]
                 \o <<V!DenseAt(COMMITTED_R1CS_INPUTS, Outer, r_cycle)>>
                 \o [i \in 1 .. Len(virtual) |-> V!VirtualAt(virtual[i], Outer, r_cycle)]
        s == Folded(VerifierAppend, [acc |-> [v.acc EXCEPT !.zk = TRUE],
                                       tr |-> append_output_claims(run.tr, stage.rows)], calls) IN
    IF WellFormed(stage, LOG_T + LOG_ROWS, 3)
    THEN VerifiedStage(v, s, <<>>, <<>>, run.r, stage, tau)
    ELSE Rejects(v)

\* BatchedSumcheck::verify of stage k; in the zk build the claims are checked by
\* BlindFold and not here.
BatchedVerify(v, stage, built) ==
    LET insts == built.instances
        batching == challenge_vector(built.tr, Len(insts))
        run == verify_transcript_only(WithChallenges(built.tr, Len(insts)), stage.rounds)
        s == Folded(LAMBDA t, i :
                         Folded(VerifierAppend, t,
                                  V!cache_openings_verifier(insts[i], t.acc, Slice(insts, i, run.r))),
                      [acc |-> [v.acc EXCEPT !.zk = TRUE], tr |-> run.tr], [i \in 1 .. Len(insts) |-> i]) IN
    IF WellFormed(stage, MaxRounds(insts), MaxDegree(insts))
    THEN VerifiedStage(v, [s EXCEPT !.tr = append_output_claims(@, stage.rows)], insts, batching, run.r,
                       stage, <<>>)
    ELSE Rejects(v)
StageVerified(v, proof) ==
    LET k == Len(v.stages) + 1
        stage == proof.stages[k]
        advice == SelectSeq(<<AdviceId("untrusted"), AdviceId("trusted")>>,
                            LAMBDA id : \E kind \in proof.advice : id = AdviceId(kind)) IN
    CASE k = 1 -> stage1_verify(v, stage)
      [] k = 2 -> BatchedVerify(v, stage, V!stage2_instances(v.acc, v.tr))
      [] k = 3 -> BatchedVerify(v, stage, V!stage3_instances(v.acc, v.tr,
                      [i \in 1 .. Len(advice) |-> v.acc.openings[advice[i]].claim]))
      [] k = 4 -> BatchedVerify(v, stage, V!stage4_instances(v.acc, v.tr))

\* verify_trusted_advice_proofs, then verify_untrusted_advice_proofs: the point
\* is recomputed, the claim is the proof's.
VerifiedAdvice(v, kind) ==
    LET point == advice_opening_point(v.acc, kind)
        claim == IF AdviceId(kind) \in DOMAIN v.acc.openings THEN v.acc.openings[AdviceId(kind)].claim ELSE Zero IN
    [v EXCEPT !.opened = Append(@, kind),
              !.acc.openings = Put(@, AdviceId(kind), [point |-> point, claim |-> claim]),
              !.tr = append_serializable(@, OpeningProof(point, {Term({}, {claim})}))]
verify_advice_proofs(v, proof) ==
    Folded(LAMBDA u, kind : IF kind \in proof.advice THEN VerifiedAdvice(u, kind) ELSE u,
             [v EXCEPT !.next = "reduction"], <<"trusted", "untrusted">>)

\* reduce_and_verify.  A claimed value must be the one the rounds end in: the
\* value of the combined polynomial at the challenges.
reduce_and_verify(v, proof) ==
    LET sumchecks == v.acc.sumchecks
        gammas == challenge_vector(v.tr, TotalGammas(sumchecks))
        values == [i \in 1 .. Len(sumchecks) |-> ClaimsOf(v.acc, sumchecks[i].polys, sumchecks[i].id)]
        insts == Reductions(sumchecks, gammas, values)
        drawn == WithChallenges(v.tr, Len(gammas) + Len(insts))
        run == Folded(LAMBDA s, poly :
                            LET t == append_serializable(s.tr, poly) IN
                            [tr |-> WithChallenges(t, 1), r |-> Append(s.r, Len(t) + 1)],
                        [tr |-> append_scalars(drawn, [i \in 1 .. Len(insts) |-> insts[i].input]), r |-> <<>>],
                        proof.reduction.rounds)
        tr == append_scalars(run.tr, proof.reduction.claims)
        gamma == Len(tr) + 1
        coeffs == ConstraintCoeffs(insts, gamma, run.r)
        opened == \A i \in 1 .. Len(insts) :
                      proof.reduction.claims[i]
                      = Reduced(insts[i].coeffs, [j \in 1 .. Len(insts[i].polys) |->
                                                    Eval(insts[i].polys[j], Slice(insts, i, run.r))]) IN
    IF Len(proof.reduction.rounds) = MaxRounds(insts) /\ opened
    THEN [v EXCEPT !.next = "blindfold", !.insts = insts, !.r = run.r, !.coeffs = coeffs,
              !.acc.openings = Folded(LAMBDA o, i : Put(o, ReducedOpeningClaim(i),
                                            [point |-> run.r, claim |-> proof.reduction.claims[i]]),
                                        @, [i \in 1 .. Len(insts) |-> i]),
              !.tr = append_serializable(WithChallenges(tr, 1),
                                         OpeningProof(run.r, JointClaim(coeffs, proof.reduction.claims)))]
    ELSE Rejects(v)

\* The R1CS of BlindFold: the rounds chained by their challenges, the batched
\* input claims, the output constraints, the blocks of output claims and the
\* joint claim.
R1CS(stages, coeffs, constraints, constrained) ==
    [stages |-> [k \in 1 .. Len(stages) |->
        LET insts == stages[k].insts IN
        [rounds |-> Len(stages[k].rounds), degree |-> stages[k].degree, r |-> stages[k].r,
         rows |-> Len(stages[k].rows), oc_block |-> stages[k].oc_block,
         alphas |-> [i \in 1 .. Len(insts) |-> <<stages[k].batching[i], MaxRounds(insts) - insts[i].rounds>>],
         input |-> constraints[k],
         output |-> IF k = 1 THEN EqAt(stages[k].tau, Reverse(stages[k].r)) ELSE {},
         constrained |-> k = 1 \/ AllConstrained(insts, constrained)]],
     extra |-> coeffs]
CoordR1CS ==
    R1CS(coord.stages, coord.reduction.coeffs,
         [k \in 1 .. Len(coord.stages) |->
             [i \in 1 .. Len(coord.stages[k].insts) |-> C!input_claim_constraint(coord.stages[k].insts[i])]],
         C!OutputConstrained)
VerifierR1CS ==
    R1CS(verifier.stages, verifier.coeffs,
         [k \in 1 .. Len(verifier.stages) |->
             [i \in 1 .. Len(verifier.stages[k].insts) |-> V!input_claim_constraint(verifier.stages[k].insts[i])]],
         V!OutputConstrained)
\* verify_blindfold: the proof satisfies the R1CS it was made for.
verify_blindfold(v) ==
    LET hyrax_c == next_power_of_two(Max({v.stages[k].degree + 1 : k \in 1 .. 4})) IN
    IF /\ \A k \in 1 .. 4 : Len(v.stages[k].rows) = div_ceil(Len(v.stages[k].oc_block), hyrax_c)
       /\ VerifierR1CS = CoordR1CS
    THEN [v EXCEPT !.next = "accepted"]
    ELSE Rejects(v)

-----------------------------------------------------------------------------
(* The actions *)

ScenarioOf ==
    {[advice |-> advice, odd |-> odd] : advice \in SUBSET Kinds, odd \in {"none", "crash", "trace_length"}}
    \union {[advice |-> advice, odd |-> "advice"] : advice \in SUBSET Kinds \ {{}}}
Init ==
    /\ scenario \in ScenarioOf
    /\ coord = CoordInit
    /\ worker = [p \in Party |-> WorkerInit(p)]
    /\ requests = [p \in Party |-> <<>>]
    /\ responses = [p \in Party |-> <<>>]
    /\ verifier = VerifierInit

\* receive_responses: one response of each party, of the kind the step
\* deserialises.
Received(next) == coord.next = next /\ \A p \in Party : responses[p] # <<>>
Messages == [p \in Party |-> Head(responses[p]).body]
CoordStep(does) ==
    /\ coord' = IF \A p \in Party : Head(responses[p]).kind = coord.next THEN does.c ELSE Fails(coord).c
    /\ requests' = [p \in Party |-> IF coord'.next = "failed" THEN requests[p] ELSE requests[p] \o does.sends]
    /\ responses' = [p \in Party |-> Tail(responses[p])]
    /\ UNCHANGED <<worker, verifier, scenario>>

ReceiveTraceLength ==
    /\ Received("trace_length")
    /\ \E does \in {receive_trace_length(coord, Messages)} : CoordStep(does)
ReceiveCommitments ==
    /\ Received("commitments")
    /\ \E does \in {receive_commitments(coord, Messages)} : CoordStep(does)
ReceiveUntrustedAdvice ==
    /\ Received("untrusted")
    /\ \E does \in {receive_untrusted_advice_commitment(coord, Messages)} : CoordStep(does)
ReceiveTrustedAdvice ==
    /\ Received("trusted")
    /\ \E does \in {receive_trusted_advice_commitment(coord, Messages)} : CoordStep(does)
ReceiveRound ==
    /\ Received("round")
    /\ \E does \in {CASE coord.stage = 1 -> OuterRound(coord, Messages)
                      [] coord.stage \in 2 .. 4 -> HybridRound(coord, Messages)
                      [] coord.stage = 5 -> ReductionRound(coord, Messages)} : CoordStep(does)
ReceiveClaims ==
    /\ Received("claims")
    /\ \E does \in {CASE coord.stage = 1 -> OuterFinal(coord, Messages)
                      [] coord.stage \in 2 .. 4 -> HybridClaims(coord, Messages)
                      [] coord.stage = 5 -> ReductionClaims(coord, Messages)} : CoordStep(does)
ReceiveInputClaims ==
    /\ Received("claims_cycle")
    /\ \E does \in {OuterInputClaims(coord, Messages)} : CoordStep(does)
ReceiveRamInit ==
    /\ Received("ram_init")
    /\ \E does \in {receive_ram_init(coord, Messages)} : CoordStep(does)
ReceiveAdviceEval ==
    /\ Received("advice_eval")
    /\ \E does \in {AdviceEval(coord, Messages)} : CoordStep(does)
ReceiveDory ==
    /\ Received("dory")
    /\ \E does \in {coordinate_prove(coord, Messages)} : CoordStep(does)
ReceiveDoryVmv ==
    /\ Received("vmv")
    /\ \E does \in {DoryVmv(coord, Messages)} : CoordStep(does)
ReceiveDoryFirst ==
    /\ Received("first")
    /\ \E does \in {DoryFirst(coord, Messages)} : CoordStep(does)
ReceiveDorySecond ==
    /\ Received("second")
    /\ \E does \in {DorySecond(coord, Messages)} : CoordStep(does)
ReceiveDoryFinal ==
    /\ Received("dory_final")
    /\ \E does \in {DoryFinal(coord, Messages)} : CoordStep(does)
WorkerStep(p, does) ==
    /\ worker' = [worker EXCEPT ![p] = does.w]
    /\ responses' = [responses EXCEPT ![p] = @ \o does.sends]
    /\ UNCHANGED <<coord, verifier, scenario>>
Start(p) ==
    /\ worker[p].next = "start"
    /\ WorkerStep(p, worker_prove(worker[p], p))
    /\ UNCHANGED requests
\* receive_request: a request of another kind does not deserialise.
Handled(w, p, req) ==
    CASE req.kind # w.next -> Sends([w EXCEPT !.next = "failed"], <<>>)
      [] req.kind = w.next /\ w.next = "tau" -> receive_tau(w, p, req)
      [] req.kind = w.next /\ w.next = "challenge" -> receive_challenge(w, p, req)
      [] req.kind = w.next /\ w.next = "init" -> receive_init(w, p, req)
      [] req.kind = w.next /\ w.next = "batching" -> receive_batching(w, p, req)
      [] req.kind = w.next /\ w.next = "advice_point" -> receive_advice_point(w, p, req)
      [] req.kind = w.next /\ w.next = "gammas" -> receive_gammas(w, p, req)
      [] req.kind = w.next /\ w.next = "gamma" -> receive_gamma(w, p, req)
      [] req.kind = w.next /\ w.next = "rows" -> prove_rep3(w, p, req)
      [] req.kind = w.next /\ w.next = "beta" -> receive_beta(w, p, req)
      [] req.kind = w.next /\ w.next = "alpha" -> receive_alpha(w, p, req)
ReceiveRequest(p) ==
    /\ worker[p].next \notin {"start", "done", "failed"}
    /\ requests[p] # <<>>
    /\ \E does \in {Handled(worker[p], p, Head(requests[p]))} : WorkerStep(p, does)
    /\ requests' = [requests EXCEPT ![p] = Tail(@)]
\* A party that stops closes its connections: a peer finds out in its next
\* exchange with it, the coordinator when it has read what was sent before.
Crash ==
    /\ scenario.odd = "crash"
    /\ worker[1].next \notin {"done", "failed"}
    /\ worker' = [worker EXCEPT ![1].next = "failed"]
    /\ UNCHANGED <<coord, requests, responses, verifier, scenario>>
WorkerLost(p) ==
    /\ worker[p].next \notin {"start", "done", "failed"}
    /\ (coord.next = "failed" /\ requests[p] = <<>>) \/ \E q \in Party : worker[q].next = "failed"
    /\ worker' = [worker EXCEPT ![p].next = "failed"]
    /\ UNCHANGED <<coord, requests, responses, verifier, scenario>>
CoordLost ==
    /\ coord.next \notin {"done", "failed"}
    /\ \E p \in Party : worker[p].next = "failed" /\ responses[p] = <<>>
    /\ coord' = Fails(coord).c
    /\ UNCHANGED <<worker, requests, responses, verifier, scenario>>
WorkerNext(p) == Start(p) \/ ReceiveRequest(p) \/ WorkerLost(p)

CoordNext ==
    \/ ReceiveTraceLength \/ ReceiveCommitments \/ ReceiveUntrustedAdvice \/ ReceiveTrustedAdvice
    \/ ReceiveRound \/ ReceiveClaims \/ ReceiveInputClaims \/ ReceiveRamInit
    \/ ReceiveAdviceEval \/ ReceiveDory \/ ReceiveDoryVmv \/ ReceiveDoryFirst
    \/ ReceiveDorySecond \/ ReceiveDoryFinal \/ CoordLost

VerifierStep(next, v) ==
    /\ verifier.next = next
    /\ verifier' = v
    /\ UNCHANGED <<coord, worker, requests, responses, scenario>>
Verify == coord.next = "done" /\ VerifierStep("idle", verify(Proof))
VerifyStage == VerifierStep("stage", StageVerified(verifier, Proof))
VerifyAdvice == VerifierStep("openings", verify_advice_proofs(verifier, Proof))
VerifyReduction == VerifierStep("reduction", reduce_and_verify(verifier, Proof))
VerifyBlindfold == VerifierStep("blindfold", verify_blindfold(verifier))
VerifierNext == Verify \/ VerifyStage \/ VerifyAdvice \/ VerifyReduction \/ VerifyBlindfold

Next == CoordNext \/ (\E p \in Party : WorkerNext(p)) \/ Crash \/ VerifierNext
Spec == Init /\ [][Next]_vars

-----------------------------------------------------------------------------
(* Properties *)

\* The verifier replays the coordinator's transcript: at every point of its run
\* what it has absorbed and drawn is what the coordinator absorbed and drew, in
\* that order, and once it accepts nothing of it is left (JoltDag::prove and
\* JoltDAG::verify share no code for this).
TranscriptsAgree ==
    /\ IsPrefix(verifier.tr, coord.tr)
    /\ verifier.next = "accepted" => verifier.tr = coord.tr

\* The claims the coordinator settles stage by stage are the truth about the
\* polynomials the workers hold: what it claims a batch sums to is what the
\* workers' polynomials sum to, and what it expects the batch to end in is what
\* the workers' messages end in, whichever of the parties was public and in
\* whatever order each binds its variables.
ClaimsAreSums ==
    (coord.next = "done" /\ verifier.next = "idle") =>
        \A k \in 2 .. 4 : \A p \in Party : \A i \in DOMAIN coord.stages[k].insts :
            LET stage == coord.stages[k]
                mine == stage.insts[i]
                theirs == worker[p].history[k - 1].insts[i]
                r == Slice(stage.insts, i, stage.r)
                bound == W!bound(theirs, worker[p].acc, r) IN
            /\ <<mine.name, mine.degree, mine.rounds>> = <<theirs.name, theirs.degree, theirs.rounds>>
            /\ mine.input = theirs.sum
            /\ theirs.input = theirs.sum
            /\ C!expected_output_claim(mine, coord.acc, r) = bound.final

\* Coordinator, workers and verifier open the same committed polynomials at the
\* same points in the same order, all of them at least once; no claim was filed
\* twice with two values, and what the workers open jointly is what the
\* verifier combines the commitments to.
OpeningsAgree ==
    /\ \A p \in Party : worker[p].stage = 5 => worker[p].acc.sumchecks = coord.acc.sumchecks
    /\ verifier.next \in {"blindfold", "accepted"} =>
        /\ verifier.acc.sumchecks = coord.acc.sumchecks
        /\ UNION {Range(s.polys) : s \in Range(coord.acc.sumchecks)} = Range(AllCommittedPolynomials)
        /\ verifier.acc.aliases = coord.acc.aliases
        /\ ~verifier.acc.inconsistent /\ ~coord.acc.inconsistent
        /\ \A key \in DOMAIN coord.acc.openings :
               Opening(verifier.acc, key) = Opening(coord.acc, key)
        /\ V!SameAddress(verifier.acc)
        /\ \A i \in DOMAIN verifier.insts :
               <<verifier.insts[i].polys, verifier.insts[i].coeffs, verifier.insts[i].input>>
               = <<worker[0].insts[i].polys, worker[0].insts[i].coeffs, worker[0].insts[i].input>>

\* Nobody is left to move: every process has ended or waits for a message that
\* was never sent, of a party that is still there.
Quiet ==
    /\ \/ coord.next \in {"done", "failed"}
       \/ \E p \in Party : responses[p] = <<>> /\ worker[p].next # "failed"
    /\ \A p \in Party : \/ worker[p].next \in {"done", "failed"}
                        \/ worker[p].next # "start" /\ requests[p] = <<>> /\ coord.next # "failed"
    /\ verifier.next \in {"accepted", "rejected"} \/ (verifier.next = "idle" /\ coord.next # "done")
\* When nobody is left to move, a proof of parties started alike is finished and
\* accepted, with no message left over; when one party traced another length,
\* lacks the advice or stopped, everyone has ended and there is no proof: no
\* party waits for ever for a message in an exchange whose steps are written on
\* two sides.
Finishes ==
    Quiet => \/ /\ verifier.next = "accepted"
                /\ \A p \in Party : worker[p].next = "done" /\ requests[p] = <<>> /\ responses[p] = <<>>
             \/ /\ ~Honest /\ coord.next = "failed" /\ verifier.next = "idle"
                /\ \A p \in Party : worker[p].next \in {"done", "failed"}
====
