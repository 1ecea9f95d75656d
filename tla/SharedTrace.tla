----------------------------- MODULE SharedTrace -----------------------------
(***************************************************************************)
(* From a traced execution to the sharings the workers prove about           *)
(* (provia-worker host/program.rs, zkvm/witness.rs, zkvm/witness/types.rs,   *)
(* utils/future_ring.rs): the client deals the trace, the workers convert    *)
(* its operands, evaluate the lookups in batches of equal instructions,      *)
(* bring everything into the field with correlations taken from the pool, and *)
(* lay out the columns of the cycle witness and the committed polynomials.    *)
(***************************************************************************)
EXTENDS SharedLookups

CONSTANTS
    Traces(_),              \* the executions of a build, each ending in a NoOp
    B2A_CHUNK,              \* operand casts per session
    FULFILL_INDEX_CHUNK,    \* index futures per batch
    LOG_K_CHUNK, D,         \* chunks of a lookup index
    LOWEST_ADDRESS,         \* of the memory layout
    POOL                    \* correlations of each kind preprocessed

VARIABLES
    plain,      \* the execution
    shared,     \* the dealt trace
    futures,    \* lookup outputs before they are fulfilled
    cw,         \* Rep3CycleWitnesses
    batch,      \* Rep3WitnessData, as committed polynomials
    pool,       \* cursors: edaBits of XLEN bits, of Wide bits, daBits
    phase

vars == << rv64, plain, shared, futures, cw, batch, pool, phase >>
N == Len(plain)
Rows == 1 .. N
\* the parts of the randomness each step draws from
SEED_DEAL == 0
SEED_CAST == 1000
SEED_OUTPUT == 2000
SEED_EDABITS == 10000
SEED_WIDE == 20000
SEED_DABITS == 30000
SEED_ONLINE == 40000

(***************************************************************************)
(* Pools: item n past the cursor, as the parties regenerate and store it    *)
(***************************************************************************)
\* what P2 and P0 have stored of the pools; the rest is drawn again when it is taken
EdaBitStore == random_edabits_lazy(XLEN, POOL, SEED_EDABITS)
WideEdaBitStore == random_edabits_lazy(Wide, POOL, SEED_WIDE)
DaBitStore == random_dabits_lazy(POOL, SEED_DABITS)
edabits(cursor, n) == EdaTake(XLEN, SEED_EDABITS, EdaBitStore, cursor, n)
wide_edabits(cursor, n) == EdaTake(Wide, SEED_WIDE, WideEdaBitStore, cursor, n)
take_dabits(cursor, n) == DaBitTake(SEED_DABITS, DaBitStore, cursor, n)

(***************************************************************************)
(* Dealing and converting                                                  *)
(***************************************************************************)
ShareTrace ==
    /\ phase = "start"
    /\ shared' = share_cycles(plain, SEED_DEAL)
    /\ phase' = "shared"
    /\ UNCHANGED << rv64, plain, futures, cw, batch, pool >>

PopulateCasts ==
    /\ phase = "shared"
    /\ shared' = populate_operands_casts(shared, SEED_CAST)
    /\ phase' = "cast"
    /\ UNCHANGED << rv64, plain, futures, cw, batch, pool >>

(***************************************************************************)
(* compute_lookup_outputs                                                  *)
(***************************************************************************)
\* vanilla's lookup of a cycle; the 32-bit word accesses look nothing up
Reference(c) ==
    CASE c.i.op = "VirtualLW" -> V!LD_query(c)
      [] c.i.op = "VirtualSW" -> V!SD_query(c)
      [] OTHER -> V!query(c)
circuit_flags(c) ==
    IF c.i.op \in {"VirtualLW", "VirtualSW"} THEN Reference(c).flags \cup V!SequenceFlags(c.i)
    ELSE V!circuit_flags(c)
lookup_table(c) == IF c.i.op = "NoOp" THEN "none" ELSE Reference(c).table

\* the discriminant of a cycle: the rotation is part of an XORROT's name
discriminant(s) == << s.i.op, IF s.i.op \in {"VirtualXORROT", "VirtualXORROTW"} THEN s.i.imm ELSE 0 >>
LookupRows == SelectSeq(Listed([j \in 1 .. N |-> j]), LAMBDA j : lookup_table(plain[j]) # "none")
Group(j) == SelectSeq(LookupRows, LAMBDA k : discriminant(shared[k]) = discriminant(shared[j]))
GroupOutputs(j) == to_lookup_output_batched(Listed([n \in 1 .. Len(Group(j)) |-> shared[Group(j)[n]]]),
                                            SEED_OUTPUT + 1000 * Group(j)[1])
\* Fault: a group's outputs are stored in the order of the trace.
UngroupedOutputs ==
    Listed([j \in 1 .. N |-> IF lookup_table(plain[j]) = "none" THEN Ready(ZeroShare)
                       ELSE GroupOutputs(j)[1]])
group_by_instruction ==
    Listed([j \in 1 .. N |-> IF lookup_table(plain[j]) = "none" THEN Ready(ZeroShare)
                       ELSE GroupOutputs(j)[Place(Group(j), j)]])
ComputeLookupOutputs ==
    /\ phase = "cast"
    /\ IF \E j \in Rows : as_public_panics(shared[j])
       THEN phase' = "panicked" /\ UNCHANGED futures
       ELSE phase' = "evaluated" /\ futures' = group_by_instruction
    /\ UNCHANGED << rv64, plain, shared, cw, batch, pool >>

\* one bucket after another, each with correlations from where the last one stopped
fulfill_batched_with_pool(fs, p) ==
    LET bits == OfKind(fs, "BitInject")
        ariths == OfKind(fs, "CastToField")
        bins == OfKind(fs, "CastToFieldB2A")
        injected == bit_inject_field_preproc_many(At(fs, bits), take_dabits(p.dabits, Len(bits)))
        edas == edabits(p.edabits, Len(ariths) + Len(bins))
        converted == IF ariths = << >> THEN << >>
                     ELSE r2f_b2a_preproc_many(XLEN, ring_a2b_many(XLEN, At(fs, ariths), SEED_ONLINE),
                                               SubSeq(edas, 1, Len(ariths)), SEED_ONLINE + 100)
        cast == r2f_b2a_preproc_many(XLEN, At(fs, bins), SubSeq(edas, Len(ariths) + 1, Len(edas)),
                                     SEED_ONLINE + 200)
    IN Listed([j \in 1 .. Len(fs) |-> CASE fs[j].kind = "Ready" -> fs[j].s
                                  [] fs[j].kind = "BitInject" -> injected[Place(bits, j)]
                                  [] fs[j].kind = "CastToField" -> converted[Place(ariths, j)]
                                  [] fs[j].kind = "CastToFieldB2A" -> cast[Place(bins, j)]])
FulfillOutputs ==
    /\ phase = "evaluated"
    /\ cw' = [cw EXCEPT !.lookup_output = fulfill_batched_with_pool(futures, pool)]
    /\ pool' = [pool EXCEPT !.dabits = @ + Len(OfKind(futures, "BitInject")),
                            !.edabits = @ + Len(OfKind(futures, "CastToField"))
                                          + Len(OfKind(futures, "CastToFieldB2A"))]
    /\ phase' = "fulfilled"
    /\ UNCHANGED << rv64, plain, shared, futures, batch >>

(***************************************************************************)
(* populate_cycle_witness_rep3: the columns of the cycle witness            *)
(***************************************************************************)
Columns == {"advice", "rs1", "rs2", "rd_write", "ram_read", "ram_write"}
\* where each operand of a cycle goes: a value read from RAM is in two columns
field_ops(j) ==
    LET s == shared[j]
        op(cols, n) == [row |-> j, cols |-> cols, operand |-> s.ops[n]]
        adv == IF "Advice" \in circuit_flags(plain[j]) THEN << op({"advice"}, "advice") >> ELSE << >>
        regs == << op({"rs1"}, "rs1"), op({"rs2"}, "rs2"), op({"rd_write"}, "rdpost") >>
        ram == CASE s.kind = "read" -> << op({"ram_read", "ram_write"}, "ramval") >>
                 [] s.kind = "write" -> << op({"ram_read"}, "rampre"), op({"ram_write"}, "rampost") >>
                 [] OTHER -> << [row |-> j, cols |-> {"ram_read", "ram_write"}, operand |-> PublicZero] >>
    IN adv \o regs \o ram
AllFieldOps == LET all[j \in 0 .. N] == IF j = 0 THEN << >> ELSE all[j - 1] \o field_ops(j) IN all[N]
\* r2f_operands_sparse_chunk: a session per chunk, its items taken in order
r2f_operands_sparse_chunk(xs, cursor) ==
    LET chunk(c) == SubSeq(xs, c * B2A_CHUNK + 1,
                           IF (c + 1) * B2A_CHUNK < Len(xs) THEN (c + 1) * B2A_CHUNK ELSE Len(xs))
        done[c \in 0 .. (Len(xs) + B2A_CHUNK - 1) \div B2A_CHUNK] ==
            IF c = 0 THEN << >>
            ELSE done[c - 1] \o
                 r2f_b2a_preproc_many(XLEN, chunk(c - 1),
                     edabits(cursor + (c - 1) * B2A_CHUNK, Len(chunk(c - 1))),
                     SEED_ONLINE + 300 + 10 * c)
    IN done[(Len(xs) + B2A_CHUNK - 1) \div B2A_CHUNK]
imm_value(c) ==
    IF circuit_flags(c) \cap {"Branch", "Load", "Store"} # {} /\ ~rv64 THEN V!Signed(c.i.imm) ELSE c.i.imm

\* Stage1RowRef::to_instruction_inputs: chosen by the circuit flags
RowInputs(j, cols) ==
    LET flags == circuit_flags(plain[j])
    IN << IF "LeftOperandIsRs1Value" \in flags THEN cols["rs1"][j]
          ELSE IF "LeftOperandIsPC" \in flags THEN promote_to_trivial_share(Fp(plain[j].i.addr)) ELSE ZeroShare,
          IF "RightOperandIsRs2Value" \in flags THEN cols["rs2"][j]
          ELSE IF "RightOperandIsImm" \in flags THEN promote_to_trivial_share(Fp(V!Wrap(imm_value(plain[j]))))
          ELSE ZeroShare >>
\* the operands that are still secret, in the order they are cast
Secret(ops) == SelectSeq(Listed([n \in 1 .. Len(ops) |-> n]), LAMBDA n : ~ops[n].operand.pub)
populate_columns(ops, cursor) ==
    LET secret == Secret(ops)
        xs == r2f_operands_sparse_chunk(Listed([n \in 1 .. Len(secret) |-> ops[secret[n]].operand.bin]), cursor)
        value(n) == IF ops[n].operand.pub THEN promote_to_trivial_share(Fp(as_public(ops[n].operand)))
                    ELSE xs[Place(secret, n)]
        at(col, j) == LET hits == {n \in DOMAIN ops : ops[n].row = j /\ col \in ops[n].cols}
                      IN IF hits = {} THEN ZeroShare ELSE value(CHOOSE n \in hits : TRUE)
        column(col) == Listed([j \in 1 .. N |-> at(col, j)])
    IN [rs1 |-> column("rs1"), rs2 |-> column("rs2"), rd_write |-> column("rd_write"),
        ram_read |-> column("ram_read"), ram_write |-> column("ram_write"), advice |-> column("advice")]
PopulateCycleWitness ==
    /\ phase = "fulfilled"
    /\ \E ops \in {AllFieldOps} : \E cols \in {populate_columns(ops, pool.edabits)} :
           /\ cw' = [cw EXCEPT !.cols = cols, !.inputs = Listed([j \in 1 .. N |-> RowInputs(j, cols)])]
           /\ pool' = [pool EXCEPT !.edabits = @ + Len(Secret(ops))]
    /\ phase' = "populated"
    /\ UNCHANGED << rv64, plain, shared, futures, batch >>

(***************************************************************************)
(* generate_witness_batch_rep3: the committed polynomials                   *)
(***************************************************************************)
rd_index(c) == IF c.i.op \in Branches \cup Asserts \cup Stores
                             \cup {"VirtualAssertHalfwordAlignment", "VirtualAssertWordAlignment", "NoOp"}
               THEN 0 ELSE c.i.rd
\* post - pre + 2^XLEN never wraps around the wide ring
BiasedInc(pre, post) ==
    ring_add_public(Wide, ring_sub(Wide, as_arithmetic_or_trivial(Wide, post), as_arithmetic_or_trivial(Wide, pre)),
                    2 ^ XLEN)
\* biased_inc_b2a_sparse: inactive rows are zero and take nothing from the pool
IncsToField(incs, active, cursor) ==
    LET rows == SelectSeq(Listed([j \in 1 .. Len(incs) |-> j]), LAMBDA j : active[j])
        bits == IF rows = << >> THEN << >>
                ELSE ring_a2b_many(Wide, Listed([n \in 1 .. Len(rows) |-> incs[rows[n]]]), SEED_ONLINE + 600)
        xs == r2f_b2a_preproc_many(Wide, bits, wide_edabits(cursor, Len(rows)), SEED_ONLINE + 700)
    IN Listed([j \in 1 .. Len(incs) |-> IF active[j] THEN xs[Place(rows, j)] ELSE ZeroShare])
\* Fault: the bias is left in.
BiasedIncs(incs, active, cursor) == IncsToField(incs, active, cursor)
biased_inc_b2a_sparse(incs, active, cursor) ==
    LET xs == IncsToField(incs, active, cursor)
    IN Listed([j \in 1 .. Len(incs) |-> IF active[j] THEN sub_shared_by_public(xs[j], Fp(2 ^ XLEN)) ELSE ZeroShare])
\* the plaintext index of an instruction whose operands are all public
PublicIndexed == {"LUI", "AUIPC", "JAL", "VirtualPow2", "VirtualPow2I", "VirtualPow2W", "VirtualPow2IW",
                  "VirtualShiftRightBitmask", "VirtualShiftRightBitmaskI"}
compute_public_index(s) ==
    IF s.i.op \notin PublicIndexed THEN Failed
    ELSE LET in == to_instruction_inputs(s)
         IN IF in[1].pub /\ in[2].pub THEN << (in[1].v % 2 ^ XLEN) + (in[2].v % 2 ^ XLEN) >> ELSE Failed
RightPublic == {"VirtualSRA", "VirtualSRL", "VirtualSRAI", "VirtualSRLI", "VirtualROTRI", "VirtualROTRIW",
                "ADDI", "ANDI", "ORI", "XORI", "SLTI", "SLTIU", "VirtualMULI"}
compute_right_operand_public(s) ==
    IF s.i.op \in RightPublic /\ to_instruction_inputs(s)[2].pub THEN << as_public(to_instruction_inputs(s)[2]) >>
    ELSE Failed
fulfill_index_futures(fs) ==
    LET chunk(c) == SubSeq(fs, c * FULFILL_INDEX_CHUNK + 1,
                           IF (c + 1) * FULFILL_INDEX_CHUNK < Len(fs) THEN (c + 1) * FULFILL_INDEX_CHUNK
                           ELSE Len(fs))
        done[c \in 0 .. (Len(fs) + FULFILL_INDEX_CHUNK - 1) \div FULFILL_INDEX_CHUNK] ==
            IF c = 0 THEN << >>
            ELSE done[c - 1] \o fulfill_batched_ring(Wide, chunk(c - 1), SEED_ONLINE + 1000 + 300 * c)
    IN done[(Len(fs) + FULFILL_INDEX_CHUNK - 1) \div FULFILL_INDEX_CHUNK]
remap_address(a) == IF a = 0 THEN Failed ELSE << (a - LOWEST_ADDRESS) \div 8 >>
should_jump(j) ==
    "Jump" \in circuit_flags(plain[j]) /\ j < N /\ "IsNoop" \notin circuit_flags(plain[j + 1])
Times(n, b) == IF b THEN n ELSE 0
\* what a row yields without communication
witness_row(j) ==
    LET c == plain[j]
        s == shared[j]
    IN [rd_biased |-> BiasedInc(s.ops["rdpre"], s.ops["rdpost"]), rd_active |-> rd_index(c) # 0,
        ram_biased |-> BiasedInc(s.ops["rampre"], s.ops["rampost"]), ram_active |-> s.kind = "write",
        ram_ra |-> remap_address(s.addr),
        write_lookup_output_to_rd |-> Times(rd_index(c), "WriteLookupOutputToRD" \in circuit_flags(c)),
        write_pc_to_rd |-> Times(rd_index(c), "Jump" \in circuit_flags(c)),
        should_jump |-> should_jump(j),
        index |-> to_lookup_index(s)]
instruction_ra(index) ==
    Listed([d \in 1 .. D |-> AndAll(ShiftR(index, LOG_K_CHUNK * (D - d)), Mask(LOG_K_CHUNK))])
either_index(s, index) ==
    IF compute_public_index(s) # Failed THEN [pub |-> TRUE, v |-> compute_public_index(s)[1]]
    ELSE [pub |-> FALSE, s |-> index]
should_branch(j) ==
    IF "Branch" \in circuit_flags(plain[j]) THEN cw.lookup_output[j] ELSE ZeroShare
Active(rows, flag) == Cardinality({j \in DOMAIN rows : rows[j][flag]})
convert_to_polynomials(rows, indices, cursor) ==
    LET column(name) == Listed([j \in 1 .. N |-> rows[j][name]])
    IN [rd_inc |-> biased_inc_b2a_sparse(column("rd_biased"), column("rd_active"), cursor),
        ram_inc |-> biased_inc_b2a_sparse(column("ram_biased"), column("ram_active"),
                                          cursor + Active(rows, "rd_active")),
        instruction_ra |-> Listed([j \in 1 .. N |-> instruction_ra(indices[j])]),
        ram_ra |-> column("ram_ra"),
        write_lookup_output_to_rd |-> column("write_lookup_output_to_rd"),
        write_pc_to_rd |-> column("write_pc_to_rd"),
        should_jump |-> column("should_jump"),
        should_branch |-> Listed([j \in 1 .. N |-> should_branch(j)])]
GenerateWitnessBatch ==
    /\ phase = "populated"
    /\ \E rows \in {Listed([j \in 1 .. N |-> witness_row(j)])} :
       \E indices \in {fulfill_index_futures(Listed([j \in 1 .. N |-> rows[j].index]))} :
           /\ batch' = convert_to_polynomials(rows, indices, pool.wide)
           /\ cw' = [cw EXCEPT !.indices = Listed([j \in 1 .. N |-> either_index(shared[j], indices[j])]),
                               !.right_mask = Listed([j \in 1 .. N |-> compute_right_operand_public(shared[j])])]
           /\ pool' = [pool EXCEPT !.wide = @ + Active(rows, "rd_active") + Active(rows, "ram_active")]
    /\ phase' = "generated"
    /\ UNCHANGED << rv64, plain, shared, futures >>

Init ==
    /\ rv64 \in BOOLEAN
    /\ plain \in Traces(rv64)
    /\ shared = << >> /\ futures = << >> /\ phase = "start"
    /\ cw = [lookup_output |-> << >>, cols |-> << >>, inputs |-> << >>, indices |-> << >>, right_mask |-> << >>]
    /\ batch = << >>
    /\ pool = [edabits |-> 0, wide |-> 0, dabits |-> 0]
Next ==
    \/ ShareTrace
    \/ PopulateCasts
    \/ ComputeLookupOutputs
    \/ FulfillOutputs
    \/ PopulateCycleWitness
    \/ GenerateWitnessBatch
Spec == Init /\ [][Next]_vars

(***************************************************************************)
(* What the workers hold is what vanilla Jolt computes from the trace        *)
(***************************************************************************)
Holds(s, v) == Consistent(s) /\ combine_field_element(s) = Fp(v)
\* u32 constants in a 64-bit build, and the two lookups that are computed differently
Diverges(c) ==
    \/ c.i.op \in {"VirtualChangeDivisor", "VirtualChangeDivisorW"}
    \/ c.i.op = "VirtualAssertValidUnsignedRemainder" /\ c.rs2 = 0 /\ c.rs1 # 0
    \/ rv64 /\ c.i.op \in {"VirtualMovsign", "VirtualAssertValidDiv0", "VirtualRev8W", "VirtualROTRI"}
\* vanilla's output; a 32-bit guest has no upper word to reverse
OutputOf(c) ==
    CASE c.i.op = "NoOp" -> 0
      [] c.i.op = "VirtualRev8W" -> swap_bytes(c.rs1)
      [] OTHER -> Reference(c).out
Evaluated == phase \in {"fulfilled", "populated", "generated"}

(* Every lookup output the workers share is the one vanilla's
   to_lookup_output gives for the plain cycle, for every instruction and
   every mix of instructions in the batch: the grouping by instruction, the
   futures' buckets and the pool's items never hand a cycle another cycle's
   output, and no instruction reads a shared operand in the clear. *)
OutputsMirrorVanilla ==
    /\ phase # "panicked"
    /\ Evaluated => \A j \in Rows : Diverges(plain[j]) \/ Holds(cw.lookup_output[j], OutputOf(plain[j]))

(* As a comment in the source of each instruction says, the output of
   VirtualChangeDivisor is 1 for INT_MIN / -1 and the divisor otherwise, and
   VirtualAssertValidUnsignedRemainder holds for a divisor of 0. *)
EveryOutputMirrorsVanilla ==
    Evaluated /\ ~rv64 => \A j \in Rows : Holds(cw.lookup_output[j], OutputOf(plain[j]))

(* The columns of the cycle witness and of the committed polynomials open to
   the plain execution's values: register and RAM values, increments, lookup
   indices (in the clear only where they are), their chunks and the
   instruction inputs the flags choose. *)
WitnessMirrorsVanilla ==
    phase = "generated" =>
        \A j \in Rows :
            LET c == plain[j]
                q == Reference(c)
                noop == c.i.op = "NoOp"
                index == IF noop THEN 0 ELSE V!to_lookup_index(q, c)
                chunk(d) == (index \div 2 ^ (LOG_K_CHUNK * (D - d))) % 2 ^ LOG_K_CHUNK
            IN /\ Holds(cw.cols["rs1"][j], c.rs1) /\ Holds(cw.cols["rs2"][j], c.rs2)
               /\ Holds(cw.cols["rd_write"][j], c.rdpost)
               /\ Holds(cw.cols["ram_read"][j], c.ram.pre) /\ Holds(cw.cols["ram_write"][j], c.ram.post)
               /\ Holds(cw.cols["advice"][j], IF c.i.op = "VirtualAdvice" THEN c.i.adv ELSE 0)
               /\ Holds(batch.rd_inc[j], c.rdpost - c.rdpre)
               /\ Holds(batch.ram_inc[j], c.ram.post - c.ram.pre)
               /\ \/ c.i.op \in {"VirtualChangeDivisorW", "VirtualPow2I"}
                  \/ /\ Holds(cw.inputs[j][1], IF noop THEN 0 ELSE q.left)
                     /\ Holds(cw.inputs[j][2], IF noop THEN 0 ELSE V!Wrap(q.right))
               /\ \/ c.i.op = "VirtualChangeDivisorW"
                  \/ /\ IF cw.indices[j].pub THEN cw.indices[j].v = index
                        ELSE combine_ring_element_binary(cw.indices[j].s) = index
                     /\ \A d \in 1 .. D : combine_ring_element_binary(batch.instruction_ra[j][d]) = chunk(d)
               /\ cw.right_mask[j] # Failed => cw.right_mask[j][1] % 2 ^ XLEN = V!Wrap(q.right)
               /\ "Branch" \in circuit_flags(c) => Holds(batch.should_branch[j], q.out)
=============================================================================
