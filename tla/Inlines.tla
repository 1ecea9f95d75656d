------------------------------ MODULE Inlines -------------------------------
(***************************************************************************)
(* The INLINE instruction: a registered builder emits a sequence into the  *)
(* inline virtual registers, which finalize_inline resets.  Two builders of*)
(* jolt-inlines are modelled, bigint multiplication and Montgomery         *)
(* multiplication, beside the host functions the SDK calls in their place, *)
(* with Limbs limbs of XLEN bits (4 and 32 limbs of 64 bits in the code).  *)
(* An INLINE has its builder's name in `key`, and rs3 in rd.               *)
(***************************************************************************)
EXTENDS Expansion

CONSTANTS InlineCount,        \* virtual registers for inlines, 80 in the code
          Limbs,              \* INPUT_LIMBS and LIMBS_2048
          UserBuilder(_)      \* the sequence of any other registered builder
ASSUME LimbsAssumption == Limbs \in Nat \ {0} /\ InlineCount \in Nat

\* allocate_for_inline: the k-th register above the reserved ones
allocate_for_inline(k) == RegisterCount + ReservedCount + k
is_valid_virtual_rd(rd) == rd = 0 \/ rd >= RegisterCount + ReservedCount
LimbAt(k) == k * DwordBytes
Each(n, F(_)) == FlattenSeq([k \in 1 .. n |-> F(k - 1)])

(***************************************************************************)
(* bigint::multiplication                                                  *)
(***************************************************************************)
OutputLimbs == 2 * Limbs
NeededRegisters == 2 * Limbs + OutputLimbs + 4
BigA(k) == allocate_for_inline(k)
BigB(k) == allocate_for_inline(Limbs + k)
BigS(k) == allocate_for_inline(2 * Limbs + k)
BigT(k) == allocate_for_inline(2 * Limbs + OutputLimbs + k)

\* Fault: the carry out of s[i + j + 1] is dropped.
mul_and_accumulateNoRipple(i, j) ==
    LET k == i + j
    IN << emit_r("MULHU", BigT(1), BigA(i), BigB(j)),
          emit_r("MUL", BigT(0), BigA(i), BigB(j)),
          emit_r("ADD", BigS(k), BigS(k), BigT(0)),
          emit_r("SLTU", BigT(2), BigS(k), BigT(0)),
          emit_r("ADD", BigT(1), BigT(1), BigT(2)),
          emit_r("ADD", BigS(k + 1), BigS(k + 1), BigT(1)) >>
\* A[i] * B[j] added to s[i + j] and s[i + j + 1], the carry rippling upwards
mul_and_accumulate(i, j) ==
    LET k == i + j
        ripple(m) ==
            << emit_r("ADD", BigS(m), BigS(m), BigT(2)) >>
            \o (IF m + 1 < OutputLimbs THEN << emit_r("SLTU", BigT(2), BigS(m), BigT(2)) >>
                ELSE << >>)
        above(m) == ripple(k + 2 + m)
    IN << emit_r("MULHU", BigT(1), BigA(i), BigB(j)),
          emit_r("MUL", BigT(0), BigA(i), BigB(j)),
          emit_r("ADD", BigS(k), BigS(k), BigT(0)) >>
       \o (IF k = 0 THEN << emit_r("ADD", BigS(1), BigS(1), BigT(1)) >>
           ELSE << emit_r("SLTU", BigT(2), BigS(k), BigT(0)),
                   emit_r("ADD", BigT(1), BigT(1), BigT(2)),
                   emit_r("ADD", BigS(k + 1), BigS(k + 1), BigT(1)) >>
                \o (IF k + 2 < OutputLimbs
                    THEN << emit_r("SLTU", BigT(2), BigS(k + 1), BigT(1)) >>
                         \o Each(OutputLimbs - (k + 2), above)
                    ELSE << >>))

bigint_mul_sequence_builder(i) ==
    LET loadA(k) == << emit_ld("LD", BigA(k), i.rs1, LimbAt(k)) >>
        loadB(k) == << emit_ld("LD", BigB(k), i.rs2, LimbAt(k)) >>
        clear(k) == << emit_r("ADD", BigS(k), 0, 0) >>
        product(k) == mul_and_accumulate(k \div Limbs, k % Limbs)
        store(k) == << emit_s("SD", i.rd, BigS(k), LimbAt(k)) >>
    IN Alloc(NeededRegisters,
             Each(Limbs, loadA) \o Each(Limbs, loadB) \o Each(OutputLimbs, clear)
             \o Each(Limbs * Limbs, product) \o Each(OutputLimbs, store))

(***************************************************************************)
(* rsa::mont_mul.  The context at rs3: z and the low half of the workspace,*)
(* the modulus, n0inv, the high half of the workspace.                     *)
(***************************************************************************)
M_OFFSET == Limbs * DwordBytes
K_OFFSET == 2 * Limbs * DwordBytes
ZZ_HI_OFFSET == K_OFFSET + DwordBytes
NumVregs == 8
yi == allocate_for_inline(0)
t_reg == allocate_for_inline(1)
k_reg == allocate_for_inline(2)
carryReg == allocate_for_inline(3)
t0 == allocate_for_inline(4)
t1 == allocate_for_inline(5)
t2 == allocate_for_inline(6)
t3 == allocate_for_inline(7)
zz_offset(k) == IF k < Limbs THEN LimbAt(k) ELSE ZZ_HI_OFFSET + LimbAt(k - Limbs)

emit_init(i) ==
    LET clear(k) == << emit_s("SD", i.rd, t0, zz_offset(k)) >>
    IN << emit_ld("LD", k_reg, i.rd, K_OFFSET), emit_r("ADD", t0, 0, 0) >>
       \o Each(2 * Limbs, clear) \o << emit_r("ADD", carryReg, 0, 0) >>

\* zz[base ..] += (x or m) * factor, the carry left in t1
add_mul_vvw_pass(i, base, useX) ==
    LET factor == IF useX THEN yi ELSE t_reg
        pass(j) ==
            << IF useX THEN emit_ld("LD", t0, i.rs1, LimbAt(j))
               ELSE emit_ld("LD", t0, i.rd, M_OFFSET + LimbAt(j)),
               emit_r("MULHU", t3, t0, factor),
               emit_r("MUL", t0, t0, factor),
               emit_ld("LD", t2, i.rd, zz_offset(base + j)),
               emit_r("ADD", t2, t2, t0),
               emit_r("SLTU", t0, t2, t0),
               emit_r("ADD", t2, t2, t1),
               emit_r("SLTU", t1, t2, t1),
               emit_s("SD", i.rd, t2, zz_offset(base + j)),
               emit_r("ADD", t1, t1, t0),
               emit_r("ADD", t1, t1, t3) >>
    IN << emit_r("ADD", t1, 0, 0) >> \o Each(Limbs, pass)

emit_outer_loop(i, square) ==
    LET turn(k) ==
            << emit_ld("LD", yi, IF square THEN i.rs1 ELSE i.rs2, LimbAt(k)) >>
            \o add_mul_vvw_pass(i, k, TRUE)
            \o << emit_r("ADD", yi, t1, 0),
                  emit_ld("LD", t_reg, i.rd, zz_offset(k)),
                  emit_r("MUL", t_reg, t_reg, k_reg) >>
            \o add_mul_vvw_pass(i, k, FALSE)
            \o << emit_r("ADD", t3, carryReg, yi),
                  emit_r("ADD", t0, t3, t1),
                  emit_s("SD", i.rd, t0, zz_offset(Limbs + k)),
                  emit_r("SLTU", carryReg, t3, yi),
                  emit_r("SLTU", t2, t0, t1),
                  emit_r("ADD", carryReg, carryReg, t2) >>
    IN Each(Limbs, turn)

\* z := high half; subtract m when the borrow of z - m says so.  The test of the
\* borrow compares with the REGISTER 1: emit_r takes register numbers.
emit_final_reduction(i) ==
    LET copy(k) == << emit_ld("LD", t0, i.rd, zz_offset(Limbs + k)),
                      emit_s("SD", i.rd, t0, LimbAt(k)) >>
        borrow(k) ==
            << emit_ld("LD", t0, i.rd, LimbAt(k)),
               emit_ld("LD", t1, i.rd, M_OFFSET + LimbAt(k)),
               emit_r("SUB", t3, t0, t1), emit_r("SLTU", yi, t0, t1),
               emit_r("SUB", t0, t3, t2), emit_r("SLTU", t1, t3, t2),
               emit_r("ADD", t2, yi, t1) >>
        subtract(k) ==
            << emit_ld("LD", t0, i.rd, LimbAt(k)),
               emit_ld("LD", t1, i.rd, M_OFFSET + LimbAt(k)),
               emit_r("MUL", t1, t1, t2),
               emit_r("SUB", t3, t0, t1), emit_r("SLTU", yi, t0, t1),
               emit_r("SUB", t0, t3, carryReg), emit_r("SLTU", t1, t3, carryReg),
               emit_r("ADD", carryReg, yi, t1),
               emit_s("SD", i.rd, t0, LimbAt(k)) >>
    IN Each(Limbs, copy) \o << emit_r("ADD", t2, 0, 0) >> \o Each(Limbs, borrow)
       \o << emit_r("SLTU", t3, 0, carryReg),
             emit_r("SLTU", t1, t2, 1),
             emit_r("ADD", t2, t1, t3),
             emit_r("SLTU", t2, 0, t2),
             emit_r("ADD", carryReg, 0, 0) >>
       \o Each(Limbs, subtract)

mont_mul_2048_sequence_builder(i) ==
    Alloc(NumVregs, emit_init(i) \o emit_outer_loop(i, FALSE) \o emit_final_reduction(i))
mont_square_2048_sequence_builder(i) ==
    Alloc(NumVregs, emit_init(i) \o emit_outer_loop(i, TRUE) \o emit_final_reduction(i))

(***************************************************************************)
(* The INLINE instruction                                                  *)
(***************************************************************************)
INLINE_sequence(i) ==
    CASE i.key = "bigint_mul" -> bigint_mul_sequence_builder(i)
      [] i.key = "mont_mul" -> mont_mul_2048_sequence_builder(i)
      [] i.key = "mont_square" -> mont_square_2048_sequence_builder(i)
      [] OTHER -> UserBuilder(i)
\* Fault: the registers of the inline are not reset.
finalize_inlineNoReset(a) == a.code
\* finalize_inline: every register the builder allocated is cleared
finalize_inline(a) ==
    a.code \o [k \in 1 .. a.regs |-> emit_i("ADDI", allocate_for_inline(k - 1), 0, 0)]
\* whether the builder passes add_to_sequence's check and the allocator's limit
inline_allowed(a) ==
    a.regs <= InlineCount /\ \A k \in DOMAIN a.code : is_valid_virtual_rd(a.code[k].rd)

(***************************************************************************)
(* The host functions (feature "host"): limbs in sequences from 1          *)
(***************************************************************************)
\* add v at place k and let the carry run up
RECURSIVE AddAt(_, _, _)
AddAt(r, k, v) ==
    IF v = 0 \/ k > Len(r) THEN r
    ELSE AddAt([r EXCEPT ![k] = Wrap(@ + v)], k + 1, (r[k] + v) \div Base)
bigint_mul(lhs, rhs) ==
    LET step[n \in 0 .. Limbs * Limbs] ==
            IF n = 0 THEN [k \in 1 .. OutputLimbs |-> 0]
            ELSE LET i == (n - 1) \div Limbs
                     j == (n - 1) % Limbs
                     p == lhs[i + 1] * rhs[j + 1]
                 IN AddAt(AddAt(step[n - 1], i + j + 1, Wrap(p)), i + j + 2, p \div Base)
    IN step[Limbs * Limbs]

\* one CIOS turn: t += x * y_i, t := (t + u * m) / 2^XLEN with u = t[0] * k
MulAdd(t, x, f) ==        \* <<t + x * f on Limbs limbs, carry>>
    LET step[j \in 0 .. Limbs] ==
            IF j = 0 THEN << << >>, 0 >>
            ELSE LET p == x[j] * f + t[j] + step[j - 1][2]
                 IN << Append(step[j - 1][1], Wrap(p)), p \div Base >>
    IN step[Limbs]
mont_turn(t, x, yk, m, k) ==
    LET a == MulAdd(t, x, yk)
        acc == t[Limbs + 1] + a[2]
        top == Wrap(t[Limbs + 2] + acc \div Base)
        b == MulAdd(a[1], m, Wrap(a[1][1] * k))
        acc2 == Wrap(acc) + b[2]
    IN Tail(b[1]) \o << Wrap(acc2), Wrap(top + acc2 \div Base), 0 >>
Number(v) == LET n[k \in 0 .. Len(v)] == IF k = 0 THEN 0 ELSE n[k - 1] + v[k] * Base ^ (k - 1)
             IN n[Len(v)]
Digits(v) == [k \in 1 .. Limbs |-> (v \div Base ^ (k - 1)) % Base]
mont_product(x, y, m, k) ==
    LET step[n \in 0 .. Limbs] ==
            IF n = 0 THEN [j \in 1 .. Limbs + 2 |-> 0]
            ELSE mont_turn(step[n - 1], x, y[n], m, k)
    IN step[Limbs]
Overflowed(t) == t[Limbs + 1] # 0
AtLeast(t, m) == Number(SubSeq(t, 1, Limbs)) >= Number(m)
montgomery_mul(x, y, m, k) ==
    LET t == mont_product(x, y, m, k)
        z == Number(SubSeq(t, 1, Limbs))
    IN IF Overflowed(t) \/ AtLeast(t, m) THEN Digits(z - Number(m)) ELSE Digits(z)

LoadLimbs(mem, a, n) == [k \in 1 .. n |-> read_bytes(mem, a + LimbAt(k - 1), DwordBytes)]
\* what the host function leaves in memory where the inline's output goes
host_output(s, i) ==
    LET x == LoadLimbs(s.mem, s.x[i.rs1], Limbs)
        y == LoadLimbs(s.mem, s.x[i.rs2], Limbs)
        m == LoadLimbs(s.mem, s.x[i.rd] + M_OFFSET, Limbs)
        k == read_bytes(s.mem, s.x[i.rd] + K_OFFSET, DwordBytes)
    IN CASE i.key = "bigint_mul" -> bigint_mul(x, y)
         [] i.key = "mont_mul" -> montgomery_mul(x, y, m, k)
         [] i.key = "mont_square" -> montgomery_mul(x, x, m, k)
         [] OTHER -> << >>

\* emit_final_reduction compares the borrow with register x1, not with 1: below 1 it
\* never finds the borrow missing, above 1 always.  The multiplications whose
\* subtraction of the modulus that decides wrongly.
BorrowMisread(s, i) ==
    /\ i.key \in {"mont_mul", "mont_square"}
    /\ LET x == LoadLimbs(s.mem, s.x[i.rs1], Limbs)
           y == LoadLimbs(s.mem, s.x[IF i.key = "mont_mul" THEN i.rs2 ELSE i.rs1], Limbs)
           m == LoadLimbs(s.mem, s.x[i.rd] + M_OFFSET, Limbs)
           t == mont_product(x, y, m, read_bytes(s.mem, s.x[i.rd] + K_OFFSET, DwordBytes))
       IN /\ ~Overflowed(t)
          /\ \/ s.x[1] = 0 /\ AtLeast(t, m)
             \/ s.x[1] > 1 /\ ~AtLeast(t, m)
=============================================================================
