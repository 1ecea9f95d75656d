------------------------------- MODULE ReadRaf -------------------------------
(***************************************************************************)
(* The read-RAF sumcheck of the instruction lookups as the three workers    *)
(* prove it (provia-worker instruction_lookups/read_raf_checking.rs) and    *)
(* jolt-core verifies it.  For a trace of T cycles, cycle j looking table   *)
(* t_j up at index k_j, the sumcheck shows                                  *)
(*                                                                         *)
(*   rv + gamma * left + gamma^2 * right                                   *)
(*     = SUM_j eq(r_cycle, j) * (t_j(k_j) + gamma * left_j + gamma^2 * right_j) *)
(*                                                                         *)
(* by binding the LOG_K bits of the index in phases of LOG_M rounds and then*)
(* the bits of the cycle.  No worker knows k_j: it knows, chunk by chunk of *)
(* LOG_K_CHUNK bits, c = k XOR rho for a secret mask rho whose one-hot      *)
(* vector is shared, one mask per rotation slot.  Tables indexed by c are   *)
(* moved back to k with Walsh-Hadamard transforms.                         *)
(* A value the workers hold in shares is modelled by the value they hold    *)
(* together.  The suffixes of a shared index are the workers' own           *)
(* (evaluate_suffix_for_table), and each conversion of a shared value to    *)
(* the field takes an edaBit or a daBit from the pool, which                *)
(* compute_edabit_budget filled from the length of the trace alone.         *)
(***************************************************************************)
EXTENDS TableMles, LookupTables, Field

CONSTANTS LOG_K_CHUNK, ROT, Slots, Rho(_, _), Traces, Challenges
PHASES == LOG_K \div LOG_M
M == 2 ^ LOG_M
CHUNKS_PER_PHASE == LOG_M \div LOG_K_CHUNK
D == LOG_K \div LOG_K_CHUNK
K_CHUNK == 2 ^ LOG_K_CHUNK
FSE == INSTANCE FiniteSetsExt
ASSUME ChunkAssumption == LOG_K_CHUNK \in Nat \ {0} /\ LOG_M % LOG_K_CHUNK = 0

-----------------------------------------------------------------------------
(* Multilinear polynomials over Field, as tables of their evaluations on    *)
(* the Boolean cube: functions on 0 .. 2^n - 1, the most significant bit of *)
(* the index being the first variable.                                     *)

PolyLen(p) == Cardinality(DOMAIN p)
IndexBit(i, k) == (i \div 2 ^ k) % 2
\* bit l of an n-bit index, counted from the top
TopBit(i, l, n) == IndexBit(i, n - 1 - l)

Power(a, n) ==
    LET pw[k \in 0 .. n] ==
            IF k = 0 THEN 1
            ELSE LET h == pw[k \div 2]
                 IN IF k % 2 = 0 THEN h \otimes h ELSE h \otimes h \otimes a
    IN pw[n]
Inverse(a) == Power(a, P - 2)

\* EqPolynomial::evals: eq(r, i) for every i, and EqPolynomial::mle
EqEvals(r) ==
    [i \in 0 .. 2 ^ Len(r) - 1 |->
        ProductOver(1, Len(r), LAMBDA l : EqBit(r[l], TopBit(i, l - 1, Len(r))))]
EqMle(x, y) == ProductOver(1, Len(x), LAMBDA l : EqBit(x[l], y[l]))
Evaluate(p, r) ==
    LET eq == EqEvals(r) IN SumOver(0, PolyLen(p) - 1, LAMBDA i : p[i] \otimes eq[i])

\* DensePolynomial::bind in the two orders
BindHighToLow(p, x) ==
    LET half == PolyLen(p) \div 2
    IN [i \in 0 .. half - 1 |-> p[i] \oplus x \otimes (p[i + half] \ominus p[i])]
BindLowToHigh(p, x) ==
    [i \in 0 .. PolyLen(p) \div 2 - 1 |-> p[2 * i] \oplus x \otimes (p[2 * i + 1] \ominus p[2 * i])]
\* the value at d = 0, 2, 3 .. of the line through index i's two children
LineHigh(p, i, d) ==
    LET half == PolyLen(p) \div 2 IN p[i] \oplus Fp(d) \otimes (p[i + half] \ominus p[i])
LineLow(p, i, d) == p[2 * i] \oplus Fp(d) \otimes (p[2 * i + 1] \ominus p[2 * i])

\* UniPoly::from_evals and evaluate: e[k + 1] is the value at k
Interpolate(e, x) ==
    LET d == Len(e) - 1
        num(k) == ProductOver(0, d, LAMBDA m : IF m = k THEN 1 ELSE x \ominus Fp(m))
        den(k) == ProductOver(0, d, LAMBDA m : IF m = k THEN 1 ELSE Fp(k) \ominus Fp(m))
    IN SumOver(0, d, LAMBDA k : e[k + 1] \otimes num(k) \otimes Inverse(den(k)))

\* ExpandingTable: eq evaluations grown one challenge at a time
ExpandingUpdate(v, x) ==
    [i \in 0 .. 2 * PolyLen(v) - 1 |->
        IF i % 2 = 1 THEN x \otimes v[i \div 2] ELSE v[i \div 2] \ominus x \otimes v[i \div 2]]

-----------------------------------------------------------------------------
VARIABLES
    cycles,         \* the trace: [table, index, interleaved, slot, share] per cycle
    chal,           \* the verifier's [gamma, r_cycle, r]
    r,              \* the challenges bound so far
    claim,          \* the sumcheck's running claim
    u_evals, ra_acc, suffix_polys, q, checkpoints, registry, v, ehat16, c16,
    ra, eq_r_cycle, combined_val, openings,
    pool            \* what is left of each kind of correlated randomness
state == << u_evals, ra_acc, suffix_polys, q, checkpoints, registry, v, ehat16, c16 >>
final == << ra, eq_r_cycle, combined_val >>
vars == << cycles, chal, r, claim, state, final, openings, pool >>

NoTable == "none"
T == Len(cycles)
CycleIds == 0 .. T - 1
Cycle(j) == cycles[j + 1]
\* a padding cycle (NoOp) has no one-hot entry, no slot and no table
Padding(j) == Cycle(j).slot = None
\* how much of its index is public: all of it, the right operand, nothing
PublicIndex(j) == Cycle(j).share = "public"
RightPublic(j) == Cycle(j).share = "right_public"
round == Len(r)
gamma == chal.gamma
gamma_squared == gamma \otimes gamma
UsedTables == {Cycle(j).table : j \in CycleIds} \ {NoTable}
lookup_indices_by_table(t) == {j \in CycleIds : Cycle(j).table = t}
interleaved_cycles == {j \in CycleIds : ~ Padding(j) /\ Cycle(j).interleaved}
identity_cycles == {j \in CycleIds : ~ Padding(j) /\ ~ Cycle(j).interleaved}
SumSet(S, f(_)) == SumOver(0, T - 1, LAMBDA j : IF j \in S THEN f(j) ELSE 0)

(***************************************************************************)
(* Masked indices                                                          *)
(***************************************************************************)
Chunk(k, i) == Low(ShiftRight(k, LOG_K_CHUNK * (D - 1 - i)), LOG_K_CHUNK)
\* one_hot_polys[i]: the public masked index of a cycle, the mask's one-hot vector
masked_indices_c(i, j) ==
    IF Padding(j) THEN None ELSE Chunk(Cycle(j).index, i) ^^ Rho(i, Cycle(j).slot)
rand_ohv_e_field(i, slot) == [c \in 0 .. K_CHUNK - 1 |-> BoolBit(c = Rho(i, slot))]

\* From a table of masked keys back to one of keys (or the other way round):
\* the product of the two Walsh-Hadamard transforms, transformed again and
\* divided by M, is the XOR-convolution with the mask's one-hot vector.
unmask(h, e) ==
    [k \in DOMAIN h |->
        SumOver(0, PolyLen(h) - 1, LAMBDA c : IF e[c ^^ k] = 0 THEN 0 ELSE h[c] \otimes e[c ^^ k])]
unmask_slots(hists, ehat) ==
    LET back == [s \in Slots |-> unmask(hists[s], ehat[s])]
    IN [k \in 0 .. M - 1 |->
          LET sum[S \in SUBSET Slots] ==
                  IF S = {} THEN 0
                  ELSE LET s == CHOOSE s \in S : TRUE IN back[s][k] \oplus sum[S \ {s}]
          IN sum[Slots]]

\* the masked keys of a phase: its chunks side by side
phase_c16(phase) ==
    [j \in CycleIds |->
        IF Padding(j) THEN None
        ELSE LET key[i \in 0 .. CHUNKS_PER_PHASE] ==
                     IF i = 0 THEN 0
                     ELSE key[i - 1] * K_CHUNK
                          + masked_indices_c(CHUNKS_PER_PHASE * phase + i - 1, j)
             IN key[CHUNKS_PER_PHASE]]
\* the mask of a phase: the tensor product of its chunks' one-hot vectors (the
\* code keeps the product of their transforms, which is its transform)
phase_ehat(phase) ==
    [s \in Slots |->
        LET e(i) == rand_ohv_e_field(CHUNKS_PER_PHASE * phase + i, s)
            level[n \in 1 .. CHUNKS_PER_PHASE] ==
                IF n = 1 THEN e(0)
                ELSE LET left == level[n - 1]  right == e(n - 1)
                     IN [k \in 0 .. PolyLen(left) * K_CHUNK - 1 |->
                            left[k \div K_CHUNK] \otimes right[k % K_CHUNK]]
        IN level[CHUNKS_PER_PHASE]]

\* h[slot][c16[j]] += w(j) over the cycles in S, moved back to the index
histogram(S, weight, keys, ehat) ==
    LET h == [s \in Slots |->
                [c \in 0 .. M - 1 |->
                    SumSet({j \in S : keys[j] = c /\ Cycle(j).slot = s}, LAMBDA j : weight[j])]]
    IN unmask_slots(h, ehat)

(***************************************************************************)
(* init_phase                                                              *)
(***************************************************************************)
suffix_len(phase) == (PHASES - 1 - phase) * LOG_M
suffix_bits(j, phase) == LookupBits(Cycle(j).index, suffix_len(phase))

\* evaluate_suffix_for_table, for suffix s of cycle j's table
evaluate_suffix(s, j, phase) ==
    LET b == suffix_bits(j, phase)
    IN IF b.len = 0 \/ PublicIndex(j) THEN suffix_mle(s, b, ROT)
       ELSE IF table_uses_interleaved_data(suffixes(Cycle(j).table))
            THEN eval_suffix_interleaved(s, b.bits, b.len)
            ELSE eval_suffix_uninterleaved(s, X(b), Y(b), b.len, ROT)
\* The batch of table t is not of the form one of its suffixes expects: a right
\* operand that is not public on all its cycles, or not shared on all of them,
\* or an index split (or not split) into operands.  The worker panics.
SuffixPanics(phase) ==
    /\ suffix_len(phase) > 0
    /\ \E t \in UsedTables : \E k \in DOMAIN suffixes(t) :
          LET s == suffixes(t)[k]
              J == {j \in lookup_indices_by_table(t) : ~ PublicIndex(j)}
              layout == table_uses_interleaved_data(suffixes(t))
          IN /\ s # "One" /\ J # {}
             /\ \/ layout # (s \in InterleavedSuffixes)
                \/ s \in RightAsPublic /\ \E j \in J : ~ RightPublic(j)
                \/ s \in RightAsShared /\ \E j \in J : RightPublic(j)

\* u_evals[j] *= eq(the previous phase's challenges, k_j's bits of that phase)
condense(u, phase, rs, ehat_prev) ==
    LET eq16 == EqEvals(SubSeq(rs, (phase - 1) * LOG_M + 1, phase * LOG_M))
        shifted == [s \in Slots |-> unmask(eq16, ehat_prev[s])]
        prev == phase_c16(phase - 1)
    IN [j \in CycleIds |->
          IF Padding(j) THEN 0 ELSE u[j] \otimes shifted[Cycle(j).slot][prev[j]]]

init_suffix_polys(u, phase, keys, ehat) ==
    [t \in UsedTables |->
        [s \in 1 .. Len(suffixes(t)) |->
            LET S == {j \in lookup_indices_by_table(t) : keys[j] # None}
            IN histogram(S, [j \in S |-> u[j] \otimes Fp(evaluate_suffix(suffixes(t)[s], j, phase))],
                         keys, ehat)]]

Sides == {"left", "right", "identity"}
Cycles(side) == IF side = "identity" THEN identity_cycles ELSE interleaved_cycles
\* Fault: the operands are not cut to the bits of the phases to come.
operand_valuesWhole(side, j, phase) ==
    LET b == LookupBits(Cycle(j).index, LOG_K)
    IN CASE side = "left" -> X(b) [] side = "right" -> Y(b) [] side = "identity" -> b.bits
\* the operands that the bits of the phases to come stand for
operand_values(side, j, phase) ==
    LET b == suffix_bits(j, phase)
    IN CASE side = "left" -> X(b) [] side = "right" -> Y(b) [] side = "identity" -> b.bits
\* the constant suffixes: how far the bits bound so far are shifted
shift_q(side, u, phase, keys, ehat) ==
    LET shift == Fp(2 ^ (IF side = "identity" THEN suffix_len(phase) ELSE suffix_len(phase) \div 2))
    IN histogram(Cycles(side), [j \in Cycles(side) |-> u[j] \otimes shift], keys, ehat)
operand_q(side, u, phase, keys, ehat) ==
    histogram(Cycles(side), [j \in Cycles(side) |-> u[j] \otimes Fp(operand_values(side, j, phase))],
              keys, ehat)
init_operand_q_polys(u, phase, keys, ehat) ==
    [side \in Sides |-> << shift_q(side, u, phase, keys, ehat), operand_q(side, u, phase, keys, ehat) >>]

\* the public prefix polynomials of the three operands, from what is bound
prefix_polynomial(side, bound, i) ==
    LET b == LookupBits(i, LOG_M)
        value == IF side = "left" THEN X(b) ELSE IF side = "right" THEN Y(b) ELSE i
        places == IF side = "identity" THEN LOG_M ELSE LOG_M \div 2
    IN unwrap_or(bound, 0) \otimes Pow(places) \oplus Fp(value)
init_P(bound) == [side \in Sides |-> [i \in 0 .. M - 1 |-> prefix_polynomial(side, bound[side], i)]]

(***************************************************************************)
(* Correlated randomness                                                   *)
(***************************************************************************)
Kinds == Rings \cup {BitInject}
Count(S) == Cardinality(S)
\* the worst table, per cycle: how many of its suffixes convert to kind k
SuffixBudget(k, phase) ==
    LET len == suffix_len(phase)
        n(t) == Count({i \in DOMAIN suffixes(t) :
                          suffix_edabit_ring_bits(suffixes(t)[i], RingT(len), HalfRing(len)) = k})
    IN FSE!Max({n(t) : t \in TableNames})
BitBudget ==
    LET n(t) == FSE!MapThenSumSet(
                  LAMBDA p : Count({i \in DOMAIN suffixes(t) :
                                 suffix_is_bitinject(suffixes(t)[i], RingT(suffix_len(p)), suffix_len(p))}),
                  {p \in 0 .. PHASES - 1 : suffix_len(p) > 0})
    IN FSE!Max({n(t) : t \in TableNames})
\* compute_edabit_budget of a trace of one cycle; the code's is n times this.
\* The last two terms are the operand columns and outputs, and the increments.
budget_per_cycle ==
    [k \in Kinds |->
        IF k = BitInject THEN BitBudget
        ELSE FSE!MapThenSumSet(
               LAMBDA p : LET len == suffix_len(p)
                          IN (IF k = RingT(len) THEN 1 ELSE 0) + (IF k = HalfRing(len) THEN 2 ELSE 0)
                             + SuffixBudget(k, p),
               {p \in 0 .. PHASES - 1 : suffix_len(p) > 0})
             + (IF k = XLEN THEN 5 + 1 ELSE 0) + (IF k = XLEN THEN 2 ELSE 0)]
compute_edabit_budget(n) == [k \in Kinds |-> n * budget_per_cycle[k]]

\* what witness generation takes for a cycle that writes a register or memory:
\* five operand columns, its output and the increment, a number of 2 * XLEN bits
BitOutputs ==
    {"Equal", "NotEqual", "UnsignedLessThan", "UnsignedLessThanEqual", "UnsignedGreaterThanEqual",
     "SignedLessThan", "SignedGreaterThanEqual", "MulUNoOverflow", "HalfwordAlignment",
     "WordAlignment"}
WitnessTakes(k) ==
    LET J == {j \in CycleIds : ~ Padding(j)}
        output == {j \in J : k = IF Cycle(j).table \in BitOutputs THEN BitInject ELSE XLEN}
    IN (IF k = XLEN THEN 5 * Count(J) ELSE 0) + Count(output)
       + (IF k = 2 * XLEN THEN Count(J) ELSE 0)
\* what a phase takes: for the suffixes (fulfill_with_pool) and for the
\* operands (q_polys_b2a)
PhaseTakes(k, phase) ==
    LET len == suffix_len(phase)
        J == {j \in CycleIds : ~ Padding(j) /\ ~ PublicIndex(j)}
        converted(j) == IF Cycle(j).table = NoTable THEN {}
                        ELSE {i \in DOMAIN suffixes(Cycle(j).table) :
                                k = suffix_conversion(suffixes(Cycle(j).table)[i], len, RightPublic(j))}
        operands(j) == IF j \in identity_cycles THEN IF k = RingT(len) THEN 1 ELSE 0
                       ELSE IF k # HalfRing(len) THEN 0 ELSE IF RightPublic(j) THEN 1 ELSE 2
    IN IF len = 0 THEN 0
       ELSE FSE!MapThenSumSet(LAMBDA j : Count(converted(j)) + operands(j), J)

(***************************************************************************)
(* The prover's messages                                                   *)
(***************************************************************************)
\* combine is linear in the suffixes: its weights are its values on units
combine_shared_weights(t, p) ==
    LET n == Len(suffixes(t))
    IN [s \in 1 .. n |-> combine(t, p, [k \in 1 .. n |-> BoolBit(k = s)])]
dot_weights_suffixes(w, t, i) ==
    SumOver(1, Len(w), LAMBDA s : w[s] \otimes suffix_polys[t][s][i])
\* the prefixes at c followed by the bits of i, in a phase with log_len bits left
prefix_evals(i, c, log_len) ==
    [p \in PrefixNames |->
        prefix_mle(p, checkpoints, IF round % 2 = 1 THEN r[round] ELSE None, c,
                   LookupBits(i, log_len - 1), round, ROT)]
\* a line's value at 2 from its values at 0 and 1
AtTwo(low, high) == high \oplus high \ominus low
read_eval(t, i, c, log_len, w) ==
    IF c = 0 THEN dot_weights_suffixes(w, t, i)
    ELSE AtTwo(dot_weights_suffixes(w, t, i), dot_weights_suffixes(w, t, i + 2 ^ (log_len - 1)))
SumTables(f) ==
    LET sum[S \in SUBSET UsedTables] ==
            IF S = {} THEN 0
            ELSE LET t == CHOOSE t \in S : TRUE IN f[t] \oplus sum[S \ {t}]
    IN sum[UsedTables]
\* the evaluation at c, 0 or 2, over the tables and the points of the half cube
read_checking_eval(c, log_len) ==
    SumTables([t \in UsedTables |->
        SumOver(0, 2 ^ (log_len - 1) - 1, LAMBDA i :
            read_eval(t, i, c, log_len, combine_shared_weights(t, prefix_evals(i, c, log_len))))])
prover_msg_read_checking ==
    [k \in 1 .. 2 |-> read_checking_eval(2 * (k - 1), LOG_M - (round % LOG_M))]
psd_sumcheck_evals_shared(p, qq, i) ==
    LET half == PolyLen(qq[1]) \div 2
        p0 == p[i]
        p2 == LineHigh(p, i, 2)
        e2(k) == qq[1][k] \otimes p2 \oplus qq[2][k]
    IN << qq[1][i] \otimes p0 \oplus qq[2][i], e2(i + half) \oplus e2(i + half) \ominus e2(i) >>
prover_msg_raf ==
    LET half == PolyLen(q.left[1]) \div 2
        side(s, k) ==
            SumOver(0, half - 1, LAMBDA i : psd_sumcheck_evals_shared(registry.polys[s], q[s], i)[k])
        at(k) == gamma \otimes side("left", k)
                 \oplus gamma_squared \otimes (side("right", k) \oplus side("identity", k))
    IN << at(1), at(2) >>
\* evaluations at 0 .. 2 in an address round, 0 .. 3 in a cycle round; the one
\* at 1 is the claim less the one at 0
WithClaim(e0, e2) == << e0, claim \ominus e0, e2 >>
address_message(a, b) == WithClaim(a[1] \oplus b[1], a[2] \oplus b[2])
compute_prover_message ==
    IF round < LOG_K THEN address_message(prover_msg_read_checking, prover_msg_raf)
    ELSE LET half == PolyLen(ra) \div 2
             at(d) == SumOver(0, half - 1, LAMBDA i :
                          LineHigh(eq_r_cycle, i, d) \otimes LineHigh(combined_val, i, d)
                          \otimes LineHigh(ra, i, d))
         IN << at(0), claim \ominus at(0), at(2), at(3) >>

(***************************************************************************)
(* Specification                                                           *)
(***************************************************************************)
NoOpenings == [flags |-> << >>, ra |-> None, raf |-> None]
left_operand(j) == IF Cycle(j).interleaved THEN Fp(X(LookupBits(Cycle(j).index, LOG_K))) ELSE 0
right_operand(j) ==
    IF Cycle(j).interleaved THEN Fp(Y(LookupBits(Cycle(j).index, LOG_K))) ELSE Fp(Cycle(j).index)
lookup_output(j) ==
    IF Cycle(j).table = NoTable THEN 0 ELSE Fp(materialize_entry(Cycle(j).table, Cycle(j).index, ROT))
input_claim ==
    LET eq == EqEvals(chal.r_cycle)
    IN SumOver(0, T - 1, LAMBDA j :
          eq[j] \otimes (lookup_output(j) \oplus gamma \otimes left_operand(j)
                         \oplus gamma_squared \otimes right_operand(j)))

NoBound == [side \in Sides |-> None]
Init ==
    /\ cycles \in Traces
    /\ chal \in Challenges
    /\ r = << >>
    /\ claim = input_claim
    /\ eq_r_cycle = EqEvals(chal.r_cycle)
    /\ u_evals = [j \in CycleIds |-> IF Padding(j) THEN 0 ELSE eq_r_cycle[j]]
    /\ ra_acc = << >>
    /\ c16 = phase_c16(0)
    /\ ehat16 = phase_ehat(0)
    /\ suffix_polys = init_suffix_polys(u_evals, 0, c16, ehat16)
    /\ q = init_operand_q_polys(u_evals, 0, c16, ehat16)
    /\ checkpoints = [p \in PrefixNames |-> None]
    /\ registry = [checkpoints |-> NoBound, polys |-> init_P(NoBound)]
    /\ v = [i \in {0} |-> 1]
    /\ ra = << >> /\ combined_val = << >>
    /\ openings = NoOpenings
    /\ pool = LET n == Count({j \in CycleIds : ~ Padding(j)})
              IN [k \in Kinds |->
                    compute_edabit_budget(n)[k] - WitnessTakes(k) - PhaseTakes(k, 0)]

x == chal.r[round + 1]
Receive ==
    /\ round < LOG_K => ~ SuffixPanics(round \div LOG_M)
    /\ claim' = Interpolate(compute_prover_message, x)
    /\ r' = Append(r, x)
    /\ UNCHANGED << cycles, chal, openings >>

\* the polynomials of a phase after one more challenge
bind_suffix_polys ==
    [t \in UsedTables |-> [s \in DOMAIN suffix_polys[t] |-> BindHighToLow(suffix_polys[t][s], x)]]
bind_q == [side \in Sides |-> [k \in 1 .. 2 |-> BindHighToLow(q[side][k], x)]]
bind_P == [side \in Sides |-> BindHighToLow(registry.polys[side], x)]
next_checkpoints ==
    IF (round + 1) % 2 = 0
    THEN update_checkpoints(checkpoints, r[round], x, round, ROT) ELSE checkpoints

\* cache_phase: ra_acc[j] *= v[k_j's bits of this phase]
cache_phase(table) ==
    LET shifted == [s \in Slots |-> unmask(table, ehat16[s])]
    IN [j \in CycleIds |->
          IF c16[j] = None THEN 0
          ELSE LET e == shifted[Cycle(j).slot][c16[j]]
               IN IF ra_acc = << >> THEN e ELSE ra_acc[j] \otimes e]

bind ==
    /\ round < LOG_K /\ (round + 1) % LOG_M # 0
    /\ Receive
    /\ suffix_polys' = bind_suffix_polys
    /\ q' = bind_q
    /\ registry' = [registry EXCEPT !.polys = bind_P]
    /\ v' = ExpandingUpdate(v, x)
    /\ checkpoints' = next_checkpoints
    /\ UNCHANGED << u_evals, ra_acc, ehat16, c16, final, pool >>

\* the last round of a phase: its accumulators are folded, the next phase starts
bind_phase ==
    LET phase == (round + 1) \div LOG_M
        bound == [side \in Sides |-> bind_P[side][0]]
    IN /\ round + 1 < LOG_K /\ (round + 1) % LOG_M = 0
       /\ Receive
       /\ ra_acc' = cache_phase(ExpandingUpdate(v, x))
       /\ checkpoints' = next_checkpoints
       /\ c16' = phase_c16(phase)
       /\ ehat16' = phase_ehat(phase)
       /\ u_evals' = condense(u_evals, phase, r', ehat16)
       /\ suffix_polys' = init_suffix_polys(u_evals', phase, c16', ehat16')
       /\ q' = init_operand_q_polys(u_evals', phase, c16', ehat16')
       /\ registry' = [checkpoints |-> bound, polys |-> init_P(bound)]
       /\ v' = [i \in {0} |-> 1]
       /\ pool' = [k \in Kinds |-> pool[k] - PhaseTakes(k, phase)]
       /\ UNCHANGED final

\* Fault: padding cycles get no operand term in the cycle rounds' values.
combined_value_Active(j, prefixes, bound) ==
    LET t == Cycle(j).table
        read == IF t = NoTable THEN 0
                ELSE combine(t, prefixes, [s \in 1 .. Len(suffixes(t)) |->
                                  Fp(suffix_mle(suffixes(t)[s], LookupBits(0, 0), ROT))])
        raf == IF j \in interleaved_cycles
               THEN gamma \otimes bound["left"] \oplus gamma_squared \otimes bound["right"]
               ELSE IF j \in identity_cycles THEN gamma_squared \otimes bound["identity"] ELSE 0
    IN read \oplus raf
\* what the table and the operands of cycle j say at the bound index
combined_value(j, prefixes, bound) ==
    LET t == Cycle(j).table
        read == IF t = NoTable THEN 0
                ELSE combine(t, prefixes, [s \in 1 .. Len(suffixes(t)) |->
                                  Fp(suffix_mle(suffixes(t)[s], LookupBits(0, 0), ROT))])
        raf == IF Cycle(j).interleaved
               THEN gamma \otimes bound["left"] \oplus gamma_squared \otimes bound["right"]
               ELSE gamma_squared \otimes bound["identity"]
    IN read \oplus raf
\* the last address round: the state of the cycle rounds is built
init_log_t_rounds ==
    LET bound == [side \in Sides |-> bind_P[side][0]]
        prefixes == next_checkpoints
    IN /\ round + 1 = LOG_K
       /\ Receive
       /\ ra' = cache_phase(ExpandingUpdate(v, x))
       /\ combined_val' = [j \in CycleIds |-> combined_value(j, prefixes, bound)]
       /\ registry' = [checkpoints |-> bound, polys |-> << >>]
       /\ checkpoints' = prefixes
       /\ suffix_polys' = << >> /\ q' = << >> /\ v' = << >> /\ ra_acc' = << >>
       /\ UNCHANGED << u_evals, ehat16, c16, eq_r_cycle, pool >>

bind_cycle ==
    /\ LOG_K <= round /\ round < LOG_K + Len(chal.r_cycle)
    /\ Receive
    /\ ra' = BindHighToLow(ra, x)
    /\ eq_r_cycle' = BindHighToLow(eq_r_cycle, x)
    /\ combined_val' = BindHighToLow(combined_val, x)
    /\ UNCHANGED << state, pool >>

cache_openings ==
    LET eq == EqEvals(SubSeq(r, LOG_K + 1, round))
    IN /\ round = LOG_K + Len(chal.r_cycle) /\ openings = NoOpenings
       /\ openings' = [flags |-> [t \in TableNames |->
                                     SumSet(lookup_indices_by_table(t), LAMBDA j : eq[j])],
                       ra |-> ra[0],
                       raf |-> SumSet(identity_cycles, LAMBDA j : eq[j])]
       /\ UNCHANGED << cycles, chal, r, claim, state, final, pool >>

Done == openings # NoOpenings /\ UNCHANGED vars
Next == bind \/ bind_phase \/ init_log_t_rounds \/ bind_cycle \/ cache_openings \/ Done
Spec == Init /\ [][Next]_vars

(***************************************************************************)
(* The verifier's side                                                     *)
(***************************************************************************)
OperandEval(side, rs) ==
    CASE side = "left" -> SumOver(0, XLEN - 1, LAMBDA i : Pow(XLEN - 1 - i) \otimes Rx(rs, i))
      [] side = "right" -> SumOver(0, XLEN - 1, LAMBDA i : Pow(XLEN - 1 - i) \otimes Ry(rs, i))
      [] side = "identity" -> SumOver(1, LOG_K, LAMBDA i : Pow(LOG_K - i) \otimes rs[i])
expected_output_claim ==
    LET rs == SubSeq(r, 1, LOG_K)
        r_cycle_prime == SubSeq(r, LOG_K + 1, round)
        val == SumTables([t \in UsedTables |-> evaluate_mle(t, rs, ROT) \otimes openings.flags[t]])
        raf == (1 \ominus openings.raf)
                 \otimes (gamma \otimes OperandEval("left", rs)
                          \oplus gamma_squared \otimes OperandEval("right", rs))
               \oplus openings.raf \otimes gamma_squared \otimes OperandEval("identity", rs)
    IN EqMle(chal.r_cycle, r_cycle_prime) \otimes openings.ra \otimes (val \oplus raf)

(***************************************************************************)
(* Properties                                                              *)
(***************************************************************************)
\* The multilinear extension the verifier evaluates (evaluate_mle) agrees with
\* the table (materialize_entry) at every index the trace looks up.
MleIsEntry ==
    \A j \in CycleIds : Cycle(j).table # NoTable =>
        evaluate_mle(Cycle(j).table,
                     [l \in 1 .. LOG_K |-> TopBit(Cycle(j).index, l - 1, LOG_K)], ROT)
          = lookup_output(j)

\* The three tables whose shared suffixes are not the suffixes of the table: the
\* xor-rotate of 64 bits rotates within the ring of the suffix, the left part of
\* the word rotation is not shifted in a suffix shorter than a word, and the
\* byte reversal drops the upper word.
Misread(j) ==
    /\ Cycle(j).table \in {"VirtualXORROT", "VirtualRotrW", "VirtualRev8W"}
    /\ \E phase \in 0 .. PHASES - 1 : \E k \in DOMAIN suffixes(Cycle(j).table) :
          LET s == suffixes(Cycle(j).table)[k]
          IN evaluate_suffix(s, j, phase) # suffix_mle(s, suffix_bits(j, phase), ROT)
SuffixesAgree == \A j \in CycleIds : ~ Misread(j)

\* After every round the claim the masked, phased prover maintains is the sum
\* that is left: each cycle's weight for the bound part of its own index times
\* the table's and the operands' extensions at the bound challenges followed by
\* the rest of the index.  Prefix checkpoints, suffix polynomials, condensation
\* and unmasking all have to agree for this to hold, with the workers' suffixes
\* on shared indices and jolt-core's on public ones, on every trace without a
\* Misread cycle.
ClaimIsRemainingSum ==
    round <= LOG_K /\ SuffixesAgree =>
        LET eq == EqEvals(chal.r_cycle)
            bit(j, l) == TopBit(Cycle(j).index, l - 1, LOG_K)
            point(j) == [l \in 1 .. LOG_K |-> IF l <= round THEN r[l] ELSE bit(j, l)]
            weight(j) == eq[j] \otimes ProductOver(1, round, LAMBDA l : EqBit(r[l], bit(j, l)))
            raf(j) == IF Cycle(j).interleaved
                      THEN gamma \otimes OperandEval("left", point(j))
                           \oplus gamma_squared \otimes OperandEval("right", point(j))
                      ELSE gamma_squared \otimes OperandEval("identity", point(j))
            val(j) == (IF Cycle(j).table = NoTable THEN 0
                       ELSE evaluate_mle(Cycle(j).table, point(j), ROT)) \oplus raf(j)
        IN claim = SumOver(0, T - 1, LAMBDA j : IF Padding(j) THEN 0 ELSE weight(j) \otimes val(j))

\* The claim left after the last round is what the verifier computes from the
\* opened flags and the opened ra (expected_output_claim): the proof verifies,
\* again on every trace without a Misread cycle.
FinalClaimVerifies == openings # NoOpenings /\ SuffixesAgree => claim = expected_output_claim

\* The increments are taken from the widest ring but budgeted under XLEN
\* (preprocessing.rs:194): that ring is only covered without them.
IncrementsBudgetedElsewhere(k) == IF k = 2 * XLEN THEN Count({j \in CycleIds : ~ Padding(j)}) ELSE 0

\* No conversion finds the pool exhausted: what compute_edabit_budget planned from
\* the trace's length covers, kind by kind, what witness generation and the phases
\* take on the tables the trace really uses.
WithinBudget == \A k \in Kinds : pool[k] + IncrementsBudgetedElsewhere(k) >= 0
=============================================================================
