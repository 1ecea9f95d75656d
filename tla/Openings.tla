------------------------------ MODULE Openings ------------------------------
(***************************************************************************)
(* The vocabulary the coordinator, the workers and the verifier of one     *)
(* proof share - polynomials, opening points, claims, the Fiat-Shamir      *)
(* transcript - and the two opening accumulators that must stay in step:   *)
(* the coordinator's Rep3OpeningAccumulator and jolt-core's                *)
(* VerifierOpeningAccumulator.                                             *)
(*                                                                         *)
(* A challenge is the position of the transcript at which it was drawn, an *)
(* opening point a sequence of challenges (big endian), and a claim the    *)
(* expression it stands for: the evaluation of a polynomial at a point, or *)
(* a combination of claims with challenges.  Two field elements of an      *)
(* honest run are equal exactly when their expressions are.                *)
(***************************************************************************)
EXTENDS Integers, Sequences, SequencesExt, FiniteSets

CONSTANTS
    LOG_T,            \* log2 of the padded trace length
    LOG_K_RAM,        \* log2 of ram_K
    RAM_CHUNK,        \* DTH_ROOT_OF_K.log_2()
    LOG_REGISTERS,    \* log2 of REGISTER_COUNT
    LOG_K_BYTECODE,   \* log2 of the bytecode's code_size
    BYTECODE_CHUNK,   \* log_K_chunk of the bytecode
    LOG_K_CHUNK,      \* log2 of an instruction lookup chunk
    D,                \* chunks of an instruction lookup index
    NUM_TABLES,       \* LookupTables::COUNT
    NUM_FLAGS,        \* NUM_CIRCUIT_FLAGS; flag 0 stands for IsNoop
    LOG_ROWS,         \* Spartan: log2 of the padded constraints of a step
    LOG_VARS,         \* Spartan: log2 of num_vars_uniform_padded
    SWITCH            \* sumcheck_switch_index of the read-write checkings

ASSUME SizesAssumption ==
    /\ {LOG_T, LOG_K_RAM, RAM_CHUNK, LOG_REGISTERS, LOG_K_BYTECODE,
        BYTECODE_CHUNK, LOG_K_CHUNK, D, NUM_TABLES, NUM_FLAGS, LOG_ROWS,
        LOG_VARS} \subseteq Nat \ {0}
    /\ SWITCH \in 0 .. LOG_T
    /\ LOG_K_BYTECODE % BYTECODE_CHUNK = 0

-----------------------------------------------------------------------------
(* Polynomials, opening ids, claims *)

\* The lookup index has D chunks of LOG_K_CHUNK bits.
LOG_K == D * LOG_K_CHUNK
\* The committed chunks of RAM addresses and of bytecode indices.
RAM_D == (LOG_K_RAM + RAM_CHUNK - 1) \div RAM_CHUNK
BYTECODE_D == LOG_K_BYTECODE \div BYTECODE_CHUNK

\* A polynomial: its name and, for a family, its index.
Poly(name) == <<name, 0>>
\* Committed one-hot chunks; the virtual products InstructionRa and RamRa are
\* polynomials of their own.
InstructionRa(i) == <<"InstructionRa_chunk", i>>
RamRa(i) == <<"RamRa_chunk", i>>
BytecodeRa(i) == <<"BytecodeRa_chunk", i>>
LookupTableFlag(i) == <<"LookupTableFlag", i>>
OpFlags(i) == <<"OpFlags", i>>
IsNoop == OpFlags(0)

InstructionRas == [i \in 1 .. D |-> InstructionRa(i - 1)]
RamRas == [i \in 1 .. RAM_D |-> RamRa(i - 1)]
BytecodeRas == [i \in 1 .. BYTECODE_D |-> BytecodeRa(i - 1)]
LookupTableFlags == [i \in 1 .. NUM_TABLES |-> LookupTableFlag(i - 1)]
AllOpFlags == [i \in 1 .. NUM_FLAGS |-> OpFlags(i - 1)]

\* CommittedPolynomial, in the order of AllCommittedPolynomials.
AllCommittedPolynomials ==
    <<Poly("LeftInstructionInput"), Poly("RightInstructionInput"),
      Poly("WriteLookupOutputToRD"), Poly("WritePCtoRD"), Poly("ShouldBranch"),
      Poly("ShouldJump"), Poly("RdInc"), Poly("RamInc")>>
    \o InstructionRas \o RamRas \o BytecodeRas

\* The opening of poly in the sumcheck id (OpeningId).
Id(poly, sumcheck) == <<poly[1], poly[2], sumcheck>>
underlying_polynomial_id(key) == <<key[1], key[2]>>

\* The evaluation of a polynomial at a point.
Eval(poly, point) == [op |-> poly[1], i |-> poly[2], pt |-> point, of |-> <<>>]
\* A combination of claims with the challenges at.
Comb(op, at, claims) == [op |-> op, i |-> 0, pt |-> at, of |-> claims]
Zero == Comb("zero", <<>>, <<>>)

\* A sum of products: a set of terms, each a coefficient (a set of challenge
\* powers; -1 is the power of the pseudo-challenge -1) and a set of factors.
Pow(g, e) == IF e = 0 THEN {} ELSE {<<g, e>>}
Neg == Pow(-1, 1)
Term(coef, factors) == <<coef, factors>>
\* The sum of g^(i-1) * xs[i].
Weighted(g, xs) == {Term(Pow(g, i - 1), {xs[i]}) : i \in 1 .. Len(xs)}
Scaled(coef, terms) == {Term(coef \union t[1], t[2]) : t \in terms}
Times(factors, terms) == {Term(t[1], factors \union t[2]) : t \in terms}
Square(x) == Comb("square", <<>>, <<x>>)
\* The sum of g^(i-1) * (xs[i]^2 - xs[i]).
BooleanityOf(g, xs) ==
    UNION {{Term(Pow(g, i - 1), {Square(xs[i])}), Term(Pow(g, i - 1) \union Neg, {xs[i]})}
           : i \in 1 .. Len(xs)}

\* The factors of eq(p, q), one per variable; eq is symmetric and does not
\* depend on the order of the variables.
EqAt(p, q) ==
    {Comb("eq", IF p[i] < q[i] THEN <<p[i], q[i]>> ELSE <<q[i], p[i]>>, <<>>) : i \in 1 .. Len(p)}
\* lt(p, q) and eq_plus_one(p, q) depend on both.
LtAt(p, q) == Comb("lt", p \o q, <<>>)
EqPlusOneAt(p, q) == Comb("eq_plus_one", p \o q, <<>>)

Take(s, n) == SubSeq(s, 1, n)
Drop(s, n) == SubSeq(s, n + 1, Len(s))
ChunksOf(s, n) == [i \in 1 .. Len(s) \div n |-> SubSeq(s, (i - 1) * n + 1, i * n)]
\* FoldLeft by the length of the prefix.
Folded(op(_, _), base, seq) ==
    LET prefix[i \in 0 .. Len(seq)] == IF i = 0 THEN base ELSE op(prefix[i - 1], seq[i]) IN prefix[Len(seq)]
Upto(n) == [i \in 1 .. n |-> i - 1]

-----------------------------------------------------------------------------
(* The transcript: what was appended and where challenges were drawn *)

Appended(what, claim) == [kind |-> what, value |-> claim]
Drawn == Appended("challenge", Zero)

append_scalar(tr, claim) == Append(tr, Appended("scalar", claim))
append_scalars(tr, claims) ==
    tr \o [i \in 1 .. Len(claims) |-> Appended("scalar", claims[i])]
append_message(tr, label) == Append(tr, Appended(label, Zero))
append_serializable(tr, what) == Append(tr, Appended("serializable", what))

\* Drawing n challenges: the positions they are drawn at.
challenge_vector(tr, n) == [i \in 1 .. n |-> Len(tr) + i]
WithChallenges(tr, n) == tr \o [i \in 1 .. n |-> Drawn]

-----------------------------------------------------------------------------
(* Accumulators.  The point index is what finds an opening of the same     *)
(* polynomial at the same point under another id.                          *)

NoOpenings ==
    [openings |-> << >>, index |-> << >>, aliases |-> << >>,
     sumchecks |-> << >>, pending |-> << >>, zk |-> FALSE,
     inconsistent |-> FALSE]

\* f with f[x] = y.
Put(f, x, y) == [z \in DOMAIN f \union {x} |-> IF z = x THEN y ELSE f[z]]

\* Aliases never chain: an alias points at an indexed opening.
resolve_alias(acc, key) ==
    IF key \in DOMAIN acc.aliases THEN acc.aliases[key] ELSE key

\* get_virtual_polynomial_opening / get_committed_polynomial_opening; the
\* caller panics when there is none.
HasOpening(acc, key) == resolve_alias(acc, key) \in DOMAIN acc.openings
Opening(acc, key) == acc.openings[resolve_alias(acc, key)]
PointOf(acc, poly, sumcheck) == Opening(acc, Id(poly, sumcheck)).point
ClaimOf(acc, poly, sumcheck) == Opening(acc, Id(poly, sumcheck)).claim
ClaimsOf(acc, polys, sumcheck) == [i \in 1 .. Len(polys) |-> ClaimOf(acc, polys[i], sumcheck)]

find_existing_opening_at_point(acc, key, point) ==
    LET at == <<underlying_polynomial_id(key), point>> IN
    IF at \in DOMAIN acc.index THEN acc.index[at] ELSE <<>>

index_opening_id(acc, key, point) ==
    IF point = <<>> THEN acc.index
    ELSE Put(acc.index, <<underlying_polynomial_id(key), point>>, key)

\* A claim that is canonical goes to the transcript, or in zk mode to the
\* claims that are committed to at the end of the stage.
Publish(s, key, claim) ==
    IF s.acc.zk
    THEN [s EXCEPT !.acc.pending = Append(@, [key |-> key, claim |-> claim])]
    ELSE [s EXCEPT !.tr = append_scalar(@, claim)]

\* One append call of cache_openings: polys opened under one sumcheck id at
\* one point.  "sparse" makes one reduction sumcheck per polynomial, "dense"
\* one for all of them, "virtual" none.
Virtual(poly, id, point, claim) ==
    [how |-> "virtual", polys |-> <<poly>>, id |-> id, point |-> point, claims |-> <<claim>>]
Dense(polys, id, point, claims) ==
    [how |-> "dense", polys |-> polys, id |-> id, point |-> point, claims |-> claims]
Sparse(polys, id, point, claims) ==
    [how |-> "sparse", polys |-> polys, id |-> id, point |-> point, claims |-> claims]

ReductionsOf(call) ==
    CASE call.how = "virtual" -> <<>>
      [] call.how = "dense" -> <<[polys |-> call.polys, id |-> call.id, point |-> call.point]>>
      [] call.how = "sparse" ->
           [i \in 1 .. Len(call.polys) |->
              [polys |-> <<call.polys[i]>>, id |-> call.id, point |-> call.point]]

\* The coordinator: register_opening stores the alias too, asserting that
\* both ids carry the same claim.
register_opening(s, key, point, claim) ==
    LET acc == s.acc
        existing == find_existing_opening_at_point(acc, key, point) IN
    IF existing # <<>>
    THEN [s EXCEPT
            !.acc.aliases = IF existing = key THEN @ ELSE Put(@, key, existing),
            !.acc.inconsistent = @ \/ claim # acc.openings[existing].claim,
            !.acc.openings = Put(@, key, [point |-> point, claim |-> claim])]
    ELSE Publish([s EXCEPT
            !.acc.openings = Put(@, key, [point |-> point, claim |-> claim]),
            !.acc.index = index_opening_id(acc, key, point)], key, claim)

CoordAppend(s, call) ==
    LET n == Len(call.polys)
        done == Folded(LAMBDA t, i :
                    register_opening(t, Id(call.polys[i], call.id), call.point, call.claims[i]),
                    s, [i \in 1 .. n |-> i]) IN
    [done EXCEPT !.acc.sumchecks = @ \o ReductionsOf(call)]

\* The verifier: the claims come with the proof, keyed by id, without their
\* points (an id the proof does not carry has the claim zero); an opening
\* that is aliased keeps the point it had.
populate_or_alias_opening(s, key, point) ==
    LET acc == s.acc
        existing == find_existing_opening_at_point(acc, key, point)
        known == key \in DOMAIN acc.openings
        claim == IF known THEN acc.openings[key].claim ELSE Zero
        fresh == Publish([s EXCEPT
            !.acc.openings = Put(@, key, [point |-> point, claim |-> claim]),
            !.acc.index = index_opening_id(acc, key, point)], key, claim) IN
    IF existing # <<>> /\ ~(known /\ existing = key)
    THEN [s EXCEPT
            !.acc.aliases = Put(@, key, existing),
            !.acc.inconsistent = @ \/ (known /\ claim # acc.openings[existing].claim)]
    ELSE fresh

VerifierAppend(s, call) ==
    LET n == Len(call.polys)
        done == Folded(LAMBDA t, i :
                    populate_or_alias_opening(t, Id(call.polys[i], call.id), call.point),
                    s, [i \in 1 .. n |-> i]) IN
    [done EXCEPT !.acc.sumchecks = @ \o ReductionsOf(call)]

\* prime_openings: the claims of the proof, their points still unknown.
prime_openings(claims) ==
    [NoOpenings EXCEPT !.openings =
        [key \in DOMAIN claims |-> [point |-> <<>>, claim |-> claims[key]]]]

\* The gammas stage 5 draws: one per polynomial of a dense reduction that
\* has several, one for every other reduction.
TotalGammas(sumchecks) ==
    Folded(LAMBDA n, s : n + Len(s.polys), 0, sumchecks)

-----------------------------------------------------------------------------
(* Sumcheck instances: what the coordinator's and the verifier's have in    *)
(* common.  An input or output claim is a sum of products.                 *)

RegRWC == "RegistersReadWriteChecking"
RegVal == "RegistersValEvaluation"
RamRWC == "RamReadWriteChecking"
Output == "RamOutputCheck"
HammingBooleanity == "RamHammingBooleanity"
ReadRaf == "InstructionReadRaf"
RaVirtual == "InstructionRaVirtualization"
RamRaIds == <<"RamValFinalEvaluation", RamRWC, "RamRafEvaluation">>

Instance(name, degree, rounds, gamma, points, input) ==
    [name |-> name, degree |-> degree, rounds |-> rounds, public |-> FALSE,
     gamma |-> gamma, points |-> points, input |-> input]
Public(inst) == [inst EXCEPT !.public = TRUE]

Outer == "SpartanOuter"
OuterClaim(acc, name) == ClaimOf(acc, Poly(name), Outer)
OuterClaims(acc, names) == [i \in 1 .. Len(names) |-> OuterClaim(acc, names[i])]
Ids(names, id) == [i \in 1 .. Len(names) |-> Id(Poly(names[i]), id)]
NoConstraint == {}

COMMITTED_R1CS_INPUTS ==
    <<Poly("LeftInstructionInput"), Poly("RightInstructionInput"), Poly("WriteLookupOutputToRD"),
      Poly("WritePCtoRD"), Poly("ShouldBranch"), Poly("ShouldJump")>>
ALL_R1CS_INPUTS ==
    <<Poly("LeftInstructionInput"), Poly("RightInstructionInput"), Poly("Product"),
      Poly("WriteLookupOutputToRD"), Poly("WritePCtoRD"), Poly("ShouldBranch"), Poly("PC"),
      Poly("UnexpandedPC"), Poly("Rd"), Poly("Imm"), Poly("RamAddress"), Poly("Rs1Value"),
      Poly("Rs2Value"), Poly("RdWriteValue"), Poly("RamReadValue"), Poly("RamWriteValue"),
      Poly("LeftLookupOperand"), Poly("RightLookupOperand"), Poly("NextUnexpandedPC"),
      Poly("NextPC"), Poly("LookupOutput"), Poly("NextIsNoop"), Poly("ShouldJump")>>
    \o AllOpFlags
IsCommittedInput(poly) == poly \in Range(COMMITTED_R1CS_INPUTS)

\* The uniform matrices and the segment evaluations of z (UniformSpartanKey).
UniformEval(m, rx_var, r) == Comb("uniform", <<m>> \o rx_var \o r, <<>>)
SegmentEvals(evals, r) == Comb("z_segments", r, evals)

\* The constant sum of gamma^i, i < n.
GammaSum(gamma, n) == {Term(Pow(gamma, i), {}) : i \in 0 .. n - 1}
LookupCycle(acc) == PointOf(acc, Poly("LookupOutput"), Outer)

\* What the three earlier stages read from a bytecode row, in the order of the
\* powers of each stage's own gamma, then the two program counters.
BytecodeReads ==
    << [i \in 1 .. 3 |-> Id(Poly(<<"UnexpandedPC", "Imm", "Rd">>[i]), Outer)]
         \o [i \in 1 .. NUM_FLAGS |-> Id(OpFlags(i - 1), Outer)],
       Ids(<<"RdWa", "Rs1Ra", "Rs2Ra">>, RegRWC),
       <<Id(Poly("RdWa"), RegVal), Id(Poly("UnexpandedPC"), "SpartanShift"), Id(IsNoop, "SpartanShift"),
         Id(Poly("InstructionRafFlag"), ReadRaf)>>
         \o [i \in 1 .. NUM_TABLES |-> Id(LookupTableFlag(i - 1), ReadRaf)] >>
BytecodePCs == <<Id(Poly("PC"), Outer), Id(Poly("PC"), "SpartanShift")>>
\* gamma = <<gamma, gamma of stage 1, of stage 2, of stage 3>>.
BytecodeTerms(gamma, reads, pcs) ==
    UNION {Scaled(Pow(gamma[1], k - 1), Weighted(gamma[k + 1], reads[k])) : k \in 1 .. 3}
    \union {Term(Pow(gamma[1], 2 + i), {pcs[i]}) : i \in 1 .. 2}

\* compute_val_k_from_bytecode evaluated at r_address: the reads of stage k,
\* its registers at the register point.
BytecodeVal(k, gamma_k, r_register, r_address) ==
    Comb("bytecode_val", <<k, gamma_k>> \o r_register \o r_address, <<>>)

\* n challenges after the first k of this stage.
DrawnAfter(tr, k, n) == [i \in 1 .. n |-> Len(tr) + k + i]
=============================================================================
