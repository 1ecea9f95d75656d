-------------------------------- MODULE Rep3 --------------------------------
(***************************************************************************)
(* Binary sharings (XOR of three halves) of integers below 2^BITS, the      *)
(* carry-lookahead circuits on them, the conversions between arithmetic and *)
(* binary sharings and the comparisons built from both (mpc-core            *)
(* protocols/rep3: binary.rs, detail.rs, conversion.rs, arithmetic.rs).     *)
(***************************************************************************)
EXTENDS Rep3Shares, Bitwise

BITS == CHOOSE n \in 1 .. P : 2 ^ (n - 1) < P /\ P < 2 ^ n
Xor3(u, v, w) == (u ^^ v) ^^ w
Mask(n) == 2 ^ n - 1
ceil_log2(n) == CHOOSE d \in 0 .. n : 2 ^ d >= n /\ (d = 0 \/ 2 ^ (d - 1) < n)

(***************************************************************************)
(* Binary operations (binary.rs)                                           *)
(***************************************************************************)
share_biguint(val, r1, r2) == Replicate(<< r1, r2, Xor3(val, r1, r2) >>)
combine_binary_element(s) == Xor3(s[1].a, s[2].a, s[3].a)
combine_binary_elements(ss) == Listed([j \in 1 .. Len(ss) |-> Fp(combine_binary_element(ss[j]))])
binary_xor(s, q) == Listed([i \in Parties |-> [a |-> s[i].a ^^ q[i].a, b |-> s[i].b ^^ q[i].b]])
XorEach(xs, ys) == Listed([j \in 1 .. Len(xs) |-> binary_xor(xs[j], ys[j])])
\* a public operand is applied to both halves of every party
XorAll(s, c) == Listed([i \in Parties |-> [a |-> s[i].a ^^ c, b |-> s[i].b ^^ c]])
AndAll(s, c) == Listed([i \in Parties |-> [a |-> s[i].a & c, b |-> s[i].b & c]])
AndEach(ss, c) == Listed([j \in 1 .. Len(ss) |-> AndAll(ss[j], c)])
ShiftL(s, k) == Listed([i \in Parties |-> [a |-> s[i].a * 2 ^ k, b |-> s[i].b * 2 ^ k]])
ShiftR(s, k) == Listed([i \in Parties |-> [a |-> s[i].a \div 2 ^ k, b |-> s[i].b \div 2 ^ k]])
ShiftREach(ss, k) == Listed([j \in 1 .. Len(ss) |-> ShiftR(ss[j], k)])
xor_public(s, c) == << [s[1] EXCEPT !.a = @ ^^ c], [s[2] EXCEPT !.b = @ ^^ c], s[3] >>
XorPublicEach(ss, c) == Listed([j \in 1 .. Len(ss) |-> xor_public(ss[j], c)])
xor_public_vec(ss, cs) == Listed([j \in 1 .. Len(ss) |-> xor_public(ss[j], cs[j])])
binary_promote_to_trivial_share(c) == promote_to_trivial_share(c)

random_biguint(t, n) ==
    Listed([i \in Parties |-> (Draw(i, t) % 2 ^ n) ^^ (Draw(Prev(i), t) % 2 ^ n)])
LocalAnd(s, q) ==
    Listed([i \in Parties |-> Xor3(s[i].a & q[i].a, s[i].a & q[i].b, s[i].b & q[i].a)])
XorHalves(v, w) == Listed([i \in Parties |-> v[i] ^^ w[i]])
MaskedAnd(s, q, t, n) == XorHalves(LocalAnd(s, q), random_biguint(t, n))
and(s, q, t) == Replicate(MaskedAnd(s, q, t, BITS))
and_vec(ss, qs, t) == Listed([j \in 1 .. Len(ss) |-> Replicate(MaskedAnd(ss[j], qs[j], t + j, BITS))])
and_with_public(s, c) == AndAll(s, c)
or(s, q, t) == binary_xor(binary_xor(s, q), and(s, q, t))
or_vec(ss, qs, t) == XorEach(XorEach(ss, qs), and_vec(ss, qs, t))
or_public(s, c) == binary_xor(xor_public(s, c), AndAll(s, c))
shift_r_public(s, k) == IF k = 0 THEN s ELSE ShiftR(s, k)
shift_l_public(s, k) == IF k = 0 THEN s ELSE ShiftL(s, k)
binary_open(s) == Listed([i \in Parties |-> Xor3(s[i].a, s[i].b, s[Prev(i)].b)])
binary_open_vec(ss) == Listed([j \in 1 .. Len(ss) |-> binary_open(ss[j])])
binary_cmux(c, yes, no, t) == binary_xor(and(c, binary_xor(no, yes), t), no)
binary_cmux_many(c, yes, no, t) == XorEach(and_vec(c, XorEach(no, yes), t), no)
from_le_bits(bits) ==
    LET int[j \in 1 .. Len(bits) + 1] ==
            IF j > Len(bits) THEN ZeroShare
            ELSE binary_xor(shift_l_public(int[j + 1], 1), bits[j])
    IN int[1]
\* halves are joined, an odd element out is carried to the next level
or_tree(inputs, t) ==
    LET level[d \in 0 .. Len(inputs)] ==
            IF d = 0 THEN inputs
            ELSE LET in == level[d - 1]
                     n == Len(in) \div 2
                 IN IF Len(in) = 1 THEN in
                    ELSE Listed([j \in 1 .. n |-> or(in[j], in[n + j], t + 10 * d + j)])
                         \o SubSeq(in, 2 * n + 1, Len(in))
    IN level[Len(inputs)][1]

\* the complement's bits are joined by AND, half of them with the other half; an
\* odd number of them is padded with a public 1 in every half (1 ^ 1 ^ 1 = 1)
NextEven(n) == n + (n % 2)
PadOnes(s, n) == IF n % 2 = 1 THEN Listed([i \in Parties |-> [a |-> s[i].a | 2 ^ n, b |-> s[i].b | 2 ^ n]]) ELSE s
Half(n) == NextEven(n) \div 2
AndOfHalves(w, half, t) == and(AndAll(w, Mask(half)), AndAll(ShiftR(w, half), Mask(half)), t)
AndOfHalvesEach(ws, half, t) ==
    and_vec(AndEach(ws, Mask(half)), AndEach(ShiftREach(ws, half), Mask(half)), t)
\* a level is << sharing, number of bits >>
binary_is_zero(s, t) ==
    LET level[d \in 0 .. BITS] ==
            IF d = 0 THEN << XorAll(s, Mask(BITS)), BITS >>
            ELSE LET l == level[d - 1]
                 IN IF l[2] <= 1 THEN l
                    ELSE << AndOfHalves(PadOnes(l[1], l[2]), Half(l[2]), t + d), Half(l[2]) >>
    IN AndAll(level[BITS][1], 1)
is_zero_many(ss, t) ==
    LET level[d \in 0 .. BITS] ==
            IF d = 0
            THEN << Listed([j \in 1 .. Len(ss) |-> AndAll(XorAll(ss[j], Mask(BITS)), Mask(BITS))]), BITS >>
            ELSE LET l == level[d - 1]
                 IN IF l[2] <= 1 THEN l
                    ELSE << AndOfHalvesEach(Listed([j \in 1 .. Len(ss) |-> PadOnes(l[1][j], l[2])]),
                                            Half(l[2]), t + 10 * d), Half(l[2]) >>
    IN AndEach(level[BITS][1], 1)

(***************************************************************************)
(* Adders (detail.rs)                                                      *)
(***************************************************************************)
\* both products of one level of the adder, one message
and_twice(x, y1, y2, t, n) ==
    << Replicate(MaskedAnd(y1, x, t, n)), Replicate(MaskedAnd(x, y2, t + 1, n)) >>
\* propagate p and generate g; the carries come from g shifted by one
Joined(l, r, shift) == << ShiftL(r[2], shift), binary_xor(l[2], ShiftL(r[1], shift)) >>
KoggeStoneLevel(l, shift, t, n) ==
    Joined(l, and_twice(ShiftR(l[1], shift), AndAll(l[2], Mask(n - shift)),
                        AndAll(l[1], Mask(n - shift)), t, n - shift), shift)
kogge_stone_inner(p, g, t, n) ==
    LET level[d \in 0 .. ceil_log2(n)] ==
            IF d = 0 THEN << p, g >> ELSE KoggeStoneLevel(level[d - 1], 2 ^ (d - 1), t + 2 * d, n)
    IN binary_xor(ShiftL(level[ceil_log2(n)][2], 1), p)
low_depth_binary_add(x1, x2, t, n) ==
    kogge_stone_inner(binary_xor(x1, x2), and(x1, x2, t), t + 1, n)

\* n bits; x - p in n + 1 bits carries out exactly when x >= p
Spread(bit, mask) == Listed([i \in Parties |-> [a |-> IF bit[i].a % 2 = 1 THEN mask ELSE 0, b |-> IF bit[i].b % 2 = 1 THEN mask ELSE 0]])
low_depth_binary_sub_p(x, t, n) ==
    LET p_ == 2 ^ n - P IN kogge_stone_inner(xor_public(x, p_), AndAll(x, p_), t, n)
\* y if it carried out of bit n, x otherwise
CmuxCarry(y, x, mask, t, n) == binary_cmux(Spread(ShiftR(y, n), mask), AndAll(y, mask), AndAll(x, mask), t)
low_depth_sub_p_cmux(x, t, n) ==
    CmuxCarry(low_depth_binary_sub_p(x, t, n), x, Mask(n - 1), t + 20, n)
low_depth_binary_add_mod_p(x1, x2, t, n) ==
    low_depth_sub_p_cmux(low_depth_binary_add(x1, x2, t, n), t + 20, n + 1)

\* 2^n + x1 - x2: the complement of x2 is added with a carry in
\* g joined with the carry in, and the sum's lowest bit put right
SubCarryIn(p, g, t, n) == xor_public(kogge_stone_inner(p, binary_xor(g, AndAll(p, 1)), t, n), 1)
SumWithComplement(x1, nx2, t, n) == SubCarryIn(binary_xor(x1, nx2), and(x1, nx2, t), t + 1, n)
low_depth_binary_sub(x1, x2, t, n) == SumWithComplement(x1, xor_public(x2, Mask(n)), t, n)
low_depth_binary_sub_by_const(x1, c, t) ==
    LET nc == 2 ^ BITS - c IN kogge_stone_inner(xor_public(x1, nc), AndAll(x1, nc), t, BITS)
low_depth_binary_sub_from_const(c, x2, t) ==
    LET nx2 == xor_public(x2, Mask(BITS)) IN SubCarryIn(xor_public(nx2, c), AndAll(nx2, c), t, BITS)

\* The batched circuits have code of their own: the products of a level are
\* shifted before they are sent, every element draws its masks in turn.
Scaled(v, c) == Listed([i \in Parties |-> v[i] * c])
and_twice_many_iter(xs, y1s, y2s, t, n, shift) ==
    Listed([j \in 1 .. Len(xs) |->
               << Replicate(Scaled(MaskedAnd(y1s[j], xs[j], t + 2 * j, n), 2 ^ shift)),
                  Replicate(Scaled(MaskedAnd(xs[j], y2s[j], t + 2 * j + 1, n), 2 ^ shift)) >>])
JoinedMany(l, r) ==
    << Listed([j \in 1 .. Len(r) |-> r[j][2]]), Listed([j \in 1 .. Len(r) |-> binary_xor(l[2][j], r[j][1])]) >>
KoggeStoneLevelMany(l, shift, t, n) ==
    JoinedMany(l, and_twice_many_iter(ShiftREach(l[1], shift), AndEach(l[2], Mask(n - shift)),
                                      AndEach(l[1], Mask(n - shift)), t, n - shift, shift))
CarriedSums(ps, gs) == Listed([j \in 1 .. Len(ps) |-> binary_xor(ShiftL(gs[j], 1), ps[j])])
kogge_stone_inner_many(ps, gs, t, n) ==
    LET level[d \in 0 .. ceil_log2(n)] ==
            IF d = 0 THEN << ps, gs >> ELSE KoggeStoneLevelMany(level[d - 1], 2 ^ (d - 1), t + 10 * d, n)
    IN CarriedSums(ps, level[ceil_log2(n)][2])
low_depth_binary_add_many(x1s, x2s, t, n) ==
    kogge_stone_inner_many(XorEach(x1s, x2s), and_vec(x1s, x2s, t), t + 10, n)
low_depth_binary_sub_p_many(xs, t, n) ==
    LET p_ == 2 ^ n - P
    IN kogge_stone_inner_many(XorPublicEach(xs, p_), AndEach(xs, p_), t, n)
CmuxCarryMany(ys, xs, mask, t, n) ==
    binary_cmux_many(Listed([j \in 1 .. Len(xs) |-> Spread(ShiftR(ys[j], n), mask)]),
                     AndEach(ys, mask), AndEach(xs, mask), t)
low_depth_sub_p_cmux_many(xs, t, n) ==
    CmuxCarryMany(low_depth_binary_sub_p_many(xs, t, n), xs, Mask(n - 1), t + 50, n)
low_depth_binary_add_mod_p_many(x1s, x2s, t, n) ==
    low_depth_sub_p_cmux_many(low_depth_binary_add_many(x1s, x2s, t, n), t + 60, n + 1)
SubCarryInMany(ps, gs, t, n) ==
    XorPublicEach(kogge_stone_inner_many(ps, XorEach(gs, AndEach(ps, 1)), t, n), 1)
SumWithComplementMany(x1s, nx2, t, n) == SubCarryInMany(XorEach(x1s, nx2), and_vec(x1s, nx2, t), t + 10, n)
low_depth_binary_sub_many(x1s, x2s, t, n) ==
    SumWithComplementMany(x1s, XorPublicEach(x2s, Mask(n)), t, n)
binary_add_many(xs, ys, n, t) == low_depth_binary_add_many(xs, ys, t, n)
binary_add_many_mod_p(xs, ys, n, t) == low_depth_binary_add_mod_p_many(xs, ys, t, n)

(***************************************************************************)
(* Conversions (conversion.rs)                                             *)
(***************************************************************************)
\* the two binary sharings whose sum modulo P is x: of the first two halves,
\* whose sum the second party knows and shares, and of the third, which the
\* first and third party know
A2bOperands(x, t) ==
    LET r == random_biguint(t, BITS)
    IN << Replicate(<< r[1], (x[2].a \oplus x[2].b) ^^ r[2], r[3] >>),
          << [a |-> 0, b |-> x[1].b], [a |-> 0, b |-> 0], [a |-> x[3].a, b |-> 0] >> >>
a2b(x, t) ==
    LET o == A2bOperands(x, t) IN low_depth_binary_add_mod_p(o[1], o[2], t + 1, BITS)
Column(rows, c) == Listed([j \in 1 .. Len(rows) |-> rows[j][c]])
a2b_many(xs, t) ==
    LET o == Listed([j \in 1 .. Len(xs) |-> A2bOperands(xs[j], t + j)])
    IN low_depth_binary_add_mod_p_many(Column(o, 1), Column(o, 2), t + 10, BITS)
\* The second and third half of the result are minus a random k2 and k3, each
\* known to the two parties that hold it; the third party knows and shares their sum.
B2aSummand(t) ==
    LET r == random_biguint(t, BITS)
    IN Replicate(<< r[1], r[2], (random_fes_3keys(1, t) \oplus random_fes_3keys(2, t)) ^^ r[3] >>)
\* z is opened to the first two parties and becomes the first half
B2aResult(z, t) ==
    LET k2 == random_fes_3keys(1, t)
        k3 == random_fes_3keys(2, t)
    IN << [a |-> Fp(Xor3(z[1].a, z[1].b, z[3].b)), b |-> Minus(k3)],
          [a |-> Minus(k2), b |-> Fp(Xor3(z[2].a, z[2].b, z[1].b))],
          [a |-> Minus(k3), b |-> Minus(k2)] >>
b2a(x, t) == B2aResult(low_depth_binary_add_mod_p(x, B2aSummand(t), t + 1, BITS), t)
B2aSummands(n, t) == Listed([j \in 1 .. n |-> B2aSummand(t + j)])
B2aResults(zs, t) == Listed([j \in 1 .. Len(zs) |-> B2aResult(zs[j], t + j)])
b2a_many(xs, t) ==
    B2aResults(low_depth_binary_add_mod_p_many(xs, B2aSummands(Len(xs), t), t + 10, BITS), t)
\* the halves of a shared bit as three sharings of a bit each: b0 ^ b1 ^ b2
HalfShare(x, i) ==
    LET unit(k) == IF k = i THEN Fp(x[i].a) ELSE 0
    IN Listed([k \in Parties |-> [a |-> unit(k), b |-> IF Prev(k) = i THEN Fp(x[k].b) ELSE 0]])
bit_inject(x, t) ==
    arithmetic_xor(arithmetic_xor(HalfShare(x, 1), HalfShare(x, 2), t), HalfShare(x, 3), t + 1)
HalfShares(xs, i) == Listed([j \in 1 .. Len(xs) |-> HalfShare(xs[j], i)])
bit_inject_many(xs, t) ==
    arithmetic_xor_many(arithmetic_xor_many(HalfShares(xs, 1), HalfShares(xs, 2), t), HalfShares(xs, 3), t + 5)

(***************************************************************************)
(* Comparisons (detail.rs, arithmetic.rs)                                  *)
(***************************************************************************)
NotBit(s) == sub_public_by_shared(1, s)
NotBits(ss) == Listed([j \in 1 .. Len(ss) |-> NotBit(ss[j])])
TopCarry(diff) == AndAll(ShiftR(diff, BITS), 1)
TopCarries(diffs) == Listed([j \in 1 .. Len(diffs) |-> TopCarry(diffs[j])])
unsigned_ge(x, y, t) == TopCarry(low_depth_binary_sub(a2b(x, t), a2b(y, t + 100), t + 200, BITS))
unsigned_ge_many(xs, ys, t) == TopCarries(low_depth_binary_sub_many(xs, ys, t, BITS))
unsigned_ge_const_lhs(c, y, t) == TopCarry(low_depth_binary_sub_from_const(c, a2b(y, t), t + 100))
unsigned_ge_const_rhs(x, c, t) == TopCarry(low_depth_binary_sub_by_const(a2b(x, t), c, t + 100))
ge_bit(x, y, t) == unsigned_ge(x, y, t)
ge_bit_many(xs, ys, t) == unsigned_ge_many(xs, ys, t)
ge_public_bit(x, c, t) == unsigned_ge_const_rhs(x, c, t)
le_public_bit(x, c, t) == unsigned_ge_const_lhs(c, x, t)
ge(x, y, t) == bit_inject(ge_bit(x, y, t), t + 300)
ge_many(xs, ys, t) == bit_inject_many(ge_bit_many(xs, ys, t), t + 300)
ge_public(x, c, t) == bit_inject(ge_public_bit(x, c, t), t + 300)
lt(x, y, t) == NotBit(ge(x, y, t))
lt_many(xs, ys, t) == NotBits(ge_many(xs, ys, t))
lt_public(x, c, t) == NotBit(ge_public(x, c, t))
le(x, y, t) == ge(y, x, t)
le_public(x, c, t) == bit_inject(le_public_bit(x, c, t), t + 300)
gt(x, y, t) == NotBit(le(x, y, t))
gt_public(x, c, t) == NotBit(le_public(x, c, t))
eq_bit(x, y, t) == binary_is_zero(a2b(sub(x, y), t), t + 100)
eq_bit_many(xs, ys, t) ==
    IF Len(xs) # Len(ys) THEN Failed
    ELSE is_zero_many(a2b_many(Listed([j \in 1 .. Len(xs) |-> sub(xs[j], ys[j])]), t), t + 200)
eq_bit_public(x, c, t) == eq_bit(x, promote_to_trivial_share(c), t)
eq_bit_public_many(xs, cs, t) ==
    IF Len(xs) # Len(cs) THEN Failed ELSE eq_bit_many(xs, promote_to_trivial_shares(cs), t)
eq(x, y, t) == bit_inject(eq_bit(x, y, t), t + 300)
eq_many(xs, ys, t) ==
    IF Len(xs) # Len(ys) THEN Failed ELSE bit_inject_many(eq_bit_many(xs, ys, t), t + 300)
eq_public(x, c, t) == bit_inject(eq_bit_public(x, c, t), t + 300)
eq_public_many(xs, cs, t) ==
    IF Len(xs) # Len(cs) THEN Failed ELSE bit_inject_many(eq_bit_public_many(xs, cs, t), t + 300)
neq(x, y, t) == NotBit(eq(x, y, t))
neq_many(xs, ys, t) == NotBits(eq_many(xs, ys, t))
neq_public(x, c, t) == neq(x, promote_to_trivial_share(c), t)
open_bit(s) == binary_open(s)
is_zero(x, t) == Listed([i \in Parties |-> open_bit(eq_bit(ZeroShare, x, t))[i] = 1])
\* 2^c times x, c below the bits of the modulus
Doubled(n) == LET pw[k \in 0 .. n] == IF k = 0 THEN 1 ELSE Fp(2) \otimes pw[k - 1] IN pw[n]
pow_2_public(x, c) == IF c = 0 THEN x ELSE IF c >= BITS THEN Failed ELSE mul_public(x, Doubled(c))
\* c times the product of 2^(2^i) over the bits i of a shared shift, 8 bits, each
\* converted in a fork of its own
shift_l_public_by_shared(c, s, t) ==
    LET bit(i) == b2a(AndAll(ShiftR(s, i), 1), t + 100 * i)
        factor(i) == LET b == bit(i)
                     IN sub(add_public(mul_public(b, Doubled(2 ^ i)), 1), b)
        acc[i \in -1 .. 6] == IF i = -1 THEN factor(7) ELSE mul(acc[i - 1], factor(i), t + 900 + i)
    IN mul_public(acc[6], c)
=============================================================================
