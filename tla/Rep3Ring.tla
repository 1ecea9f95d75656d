------------------------------ MODULE Rep3Ring ------------------------------
(***************************************************************************)
(* Replicated sharings over the ring of integers modulo 2^k and their       *)
(* binary counterparts (mpc-core protocols/rep3_ring): arithmetic,          *)
(* Kogge-Stone circuits, conversions, casts between widths and into the      *)
(* field, and one-hot vectors.  k is the width T::K of the element type;     *)
(* the type Bit is width 1.                                                 *)
(***************************************************************************)
EXTENDS Rep3

ilog2(k) == CHOOSE d \in 0 .. k : 2 ^ d <= k /\ k < 2 ^ (d + 1)

(***************************************************************************)
(* Elements and local operations (types.rs, ring/ring_impl.rs)             *)
(***************************************************************************)
ring_add(k, s, q) == Listed([i \in Parties |-> [a |-> (s[i].a + q[i].a) % 2 ^ k, b |-> (s[i].b + q[i].b) % 2 ^ k]])
ring_sub(k, s, q) == Listed([i \in Parties |-> [a |-> (s[i].a - q[i].a) % 2 ^ k, b |-> (s[i].b - q[i].b) % 2 ^ k]])
ring_neg(k, s) == Listed([i \in Parties |-> [a |-> (0 - s[i].a) % 2 ^ k, b |-> (0 - s[i].b) % 2 ^ k]])
\* u v modulo 2^k, a byte of v at a time: the intermediate values stay small
RingTimes(k, u, v) == (((u * (v \div 256)) % 2 ^ k) * 256 + u * (v % 256)) % 2 ^ k
ring_mul_public(k, s, c) == Listed([i \in Parties |-> [a |-> RingTimes(k, s[i].a, c), b |-> RingTimes(k, s[i].b, c)]])
RingProduct(k, s, q) ==
    Listed([i \in Parties |-> (RingTimes(k, s[i].a, q[i].a) + RingTimes(k, s[i].a, q[i].b)
                        + RingTimes(k, s[i].b, q[i].a)) % 2 ^ k])
ring_shl(k, s, n) == Listed([i \in Parties |-> [a |-> (s[i].a * 2 ^ n) % 2 ^ k, b |-> (s[i].b * 2 ^ n) % 2 ^ k]])
\* the complement of every half: three halves, so the value is complemented
ring_not(k, s) == Listed([i \in Parties |-> [a |-> Mask(k) - s[i].a, b |-> Mask(k) - s[i].b]])
NotEach(k, ss) == Listed([j \in 1 .. Len(ss) |-> ring_not(k, ss[j])])
get_bit(s, n) == AndAll(ShiftR(s, n), 1)
is_even(s) == ring_not(1, get_bit(s, 0))
ring_double(k, s) == ring_shl(k, s, 1)
from_le_bytes(bytes, width) ==
    LET sum[j \in 0 .. Len(bytes)] ==
            IF j = 0 THEN ZeroShare
            ELSE Listed([i \in Parties |-> [a |-> sum[j - 1][i].a + bytes[j][i].a * 2 ^ (width * (j - 1)), b |-> sum[j - 1][i].b + bytes[j][i].b * 2 ^ (width * (j - 1))]])
    IN sum[Len(bytes)]

(***************************************************************************)
(* Dealing and combining (rep3_ring.rs)                                    *)
(***************************************************************************)
share_ring_element(k, val, r1, r2) == Replicate(<< r1 % 2 ^ k, r2 % 2 ^ k, (val - r1 - r2) % 2 ^ k >>)
share_ring_element_binary(k, val, r1, r2) ==
    Replicate(<< r1 % 2 ^ k, r2 % 2 ^ k, Xor3(val, r1 % 2 ^ k, r2 % 2 ^ k) >>)
combine_ring_element(k, s) == (s[1].a + s[2].a + s[3].a) % 2 ^ k
combine_ring_element_binary(s) == combine_binary_element(s)

(***************************************************************************)
(* Arithmetic protocols (arithmetic.rs)                                    *)
(***************************************************************************)
ring_add_public(k, s, c) ==
    << [s[1] EXCEPT !.a = (@ + c) % 2 ^ k], [s[2] EXCEPT !.b = (@ + c) % 2 ^ k], s[3] >>
ring_sub_shared_by_public(k, s, c) == ring_add_public(k, s, (0 - c) % 2 ^ k)
ring_sub_public_by_shared(k, c, s) == ring_add_public(k, ring_neg(k, s), c)
ring_promote_to_trivial_share(c) == promote_to_trivial_share(c)
random_elements(k, t) == Replicate(Listed([i \in Parties |-> Draw(i, t) % 2 ^ k]))
masking_element(k, t) == Listed([i \in Parties |-> (Draw(i, t) - Draw(Prev(i), t)) % 2 ^ k])
RingMasked(k, v, t) == LET m == masking_element(k, t) IN Listed([i \in Parties |-> (v[i] + m[i]) % 2 ^ k])
ring_mul(k, s, q, t) == Replicate(RingMasked(k, RingProduct(k, s, q), t))
ring_local_mul_vec(k, ss, qs, t) ==
    Listed([j \in 1 .. Len(ss) |-> RingMasked(k, RingProduct(k, ss[j], qs[j]), t + j)])
ring_reshare_vec(vs) == Listed([j \in 1 .. Len(vs) |-> Replicate(vs[j])])
ring_mul_vec(k, ss, qs, t) == ring_reshare_vec(ring_local_mul_vec(k, ss, qs, t))
ring_open(k, s) == Listed([i \in Parties |-> (s[i].a + s[i].b + s[Prev(i)].b) % 2 ^ k])
ring_open_bit(s) == binary_open(s)
ring_open_vec(k, ss) == Listed([j \in 1 .. Len(ss) |-> ring_open(k, ss[j])])
ring_cmux(k, c, yes, no, t) == ring_add(k, no, ring_mul(k, c, ring_sub(k, yes, no), t))
RingAddEach(k, ss, qs) == Listed([j \in 1 .. Len(ss) |-> ring_add(k, ss[j], qs[j])])
RingSubEach(k, ss, qs) == Listed([j \in 1 .. Len(ss) |-> ring_sub(k, ss[j], qs[j])])
ring_cmux_many(k, c, yes, no, t) ==
    RingAddEach(k, no, ring_mul_vec(k, c, RingSubEach(k, yes, no), t))
ring_add_mul_public(k, s, q, c) == ring_add(k, s, ring_mul_public(k, q, c))
ring_add_mul(k, s, q, r, t) == ring_add(k, s, ring_mul(k, r, q, t))
ring_mul_open(k, s, q, t) ==
    LET v == RingMasked(k, RingProduct(k, s, q), t)
    IN Listed([i \in Parties |-> (v[i] + v[Prev(i)] + v[NextParty(i)]) % 2 ^ k])
ring_mul_open_vec(k, ss, qs, t) == Listed([j \in 1 .. Len(ss) |-> ring_mul_open(k, ss[j], qs[j], t + j)])
ring_rand(k, t) == random_elements(k, t)
\* as for the field: one product too many after the last bit of the exponent
ring_pow_public(k, s, e, t) ==
    LET step[n \in 0 .. k] ==
            IF n = 0 THEN << ring_promote_to_trivial_share(1), s, e >>
            ELSE LET p == step[n - 1]
                 IN IF p[3] = 0 THEN p
                    ELSE << IF p[3] % 2 = 1 THEN ring_mul(k, p[1], p[2], t + 2 * n) ELSE p[1],
                            ring_mul(k, p[2], p[2], t + 2 * n + 1), p[3] \div 2 >>
    IN ring_mul(k, step[k][1], step[k][2], t)
ring_pow_2_public(k, s, n) == IF n = 0 THEN s ELSE IF n >= k THEN Failed ELSE ring_mul_public(k, s, 2 ^ n)
RingXorLocal(k, s, q, t) ==
    LET d == RingMasked(k, RingProduct(k, s, q), t)
    IN Listed([i \in Parties |-> (s[i].a + q[i].a - 2 * d[i]) % 2 ^ k])
ring_arithmetic_xor(k, s, q, t) == Replicate(RingXorLocal(k, s, q, t))
ring_arithmetic_xor_many(k, ss, qs, t) ==
    Listed([j \in 1 .. Len(ss) |-> Replicate(RingXorLocal(k, ss[j], qs[j], t + j))])

(***************************************************************************)
(* Binary protocols (binary.rs)                                            *)
(***************************************************************************)
ring_and(k, s, q, t) == Replicate(MaskedAnd(s, q, t, k))
ring_and_many(k, ss, qs, t) == Listed([j \in 1 .. Len(ss) |-> ring_and(k, ss[j], qs[j], t + j)])
ring_or(k, s, q, t) == binary_xor(binary_xor(s, q), ring_and(k, s, q, t))
ring_or_many(k, ss, qs, t) == XorEach(XorEach(ss, qs), ring_and_many(k, ss, qs, t))
ring_or_public(s, c) == binary_xor(xor_public(s, c), AndAll(s, c))
ring_shift_r_public(s, n) == IF n = 0 THEN s ELSE ShiftR(s, n)
ring_shift_l_public(k, s, n) == IF n = 0 THEN s ELSE ring_shl(k, s, n)
ring_binary_cmux(k, c, yes, no, t) == binary_xor(ring_and(k, c, binary_xor(no, yes), t), no)
ring_binary_cmux_many(k, c, yes, no, t) == XorEach(ring_and_many(k, c, XorEach(no, yes), t), no)
ring_or_tree(k, inputs, t) ==
    LET level[d \in 0 .. Len(inputs)] ==
            IF d = 0 THEN inputs
            ELSE LET in == level[d - 1]
                     n == Len(in) \div 2
                 IN IF Len(in) = 1 THEN in
                    ELSE Listed([j \in 1 .. n |-> ring_or(k, in[j], in[n + j], t + 10 * d + j)])
                         \o SubSeq(in, 2 * n + 1, Len(in))
    IN level[Len(inputs)][1]
\* the complement's halves are joined by AND: k is a power of two
ring_is_zero(k, s, t) ==
    LET level[d \in 0 .. ilog2(k)] ==
            IF d = 0 THEN ring_not(k, s)
            ELSE LET half == k \div 2 ^ d
                 IN ring_and(k, AndAll(level[d - 1], Mask(half)),
                             AndAll(ShiftR(level[d - 1], half), Mask(half)), t + d)
    IN AndAll(level[ilog2(k)], 1)
ring_is_zero_many(k, ss, t) ==
    LET level[d \in 0 .. ilog2(k)] ==
            IF d = 0 THEN NotEach(k, ss)
            ELSE LET half == k \div 2 ^ d
                 IN ring_and_many(k, AndEach(level[d - 1], Mask(half)),
                                  AndEach(ShiftREach(level[d - 1], half), Mask(half)), t + 10 * d)
    IN AndEach(level[ilog2(k)], 1)
pack_bits(bits) == from_le_bytes(bits, 1)
unpack_bits(s, n) == Listed([j \in 1 .. n |-> get_bit(s, j - 1)])
pack_bits_many(rows) == Listed([j \in 1 .. Len(rows) |-> pack_bits(rows[j])])
unpack_bits_many(ss, n) == Listed([j \in 1 .. Len(ss) |-> unpack_bits(ss[j], n)])

(***************************************************************************)
(* Carry-lookahead circuits (detail.rs): generate is joined with what the   *)
(* propagated lower positions generate, distance doubling at every level.   *)
(***************************************************************************)
RingAndTwice(k, x, y1, y2, t) == << Replicate(MaskedAnd(y1, x, t, k)), Replicate(MaskedAnd(x, y2, t + 1, k)) >>
RingLevel(k, l, shift, t) ==
    Joined(l, RingAndTwice(k, l[1], ring_shl(k, l[2], shift), ring_shl(k, l[1], shift), t), 0)
RingLevelMany(k, l, shift, t) ==
    JoinedMany(l, Listed([j \in 1 .. Len(l[1]) |->
                             RingAndTwice(k, l[1][j], ring_shl(k, l[2][j], shift),
                                          ring_shl(k, l[1][j], shift), t + 2 * j)]))
ring_kogge_stone_loop(k, p, g, t) ==
    LET level[d \in 0 .. ilog2(k)] ==
            IF d = 0 THEN << p, g >> ELSE RingLevel(k, level[d - 1], 2 ^ (d - 1), t + 2 * d)
    IN level[ilog2(k)][2]
ring_kogge_stone_loop_many(k, ps, gs, t) ==
    LET level[d \in 0 .. ilog2(k)] ==
            IF d = 0 THEN << ps, gs >> ELSE RingLevelMany(k, level[d - 1], 2 ^ (d - 1), t + 10 * d)
    IN level[ilog2(k)][2]
\* the sum, and the carry out of the top position
WithCarry(k, p, g) == [sum |-> binary_xor(ring_shl(k, g, 1), p), carry |-> get_bit(g, k - 1)]
ring_kogge_stone_inner(k, p, g, t) == WithCarry(k, p, ring_kogge_stone_loop(k, p, g, t)).sum
kogge_stone_inner_with_carry(k, p, g, t) == WithCarry(k, p, ring_kogge_stone_loop(k, p, g, t))
WithCarryEach(k, ps, gs) == Listed([j \in 1 .. Len(ps) |-> WithCarry(k, ps[j], gs[j])])
kogge_stone_inner_with_carry_many(k, ps, gs, t) ==
    WithCarryEach(k, ps, ring_kogge_stone_loop_many(k, ps, gs, t))
kogge_stone_carries_many(k, ps, gs, t) == Column(kogge_stone_inner_with_carry_many(k, ps, gs, t), "carry")
ring_low_depth_binary_add(k, x1, x2, t) ==
    ring_kogge_stone_inner(k, binary_xor(x1, x2), ring_and(k, x1, x2, t), t + 1)
ring_low_depth_binary_add_many(k, x1s, x2s, t) ==
    Column(kogge_stone_inner_with_carry_many(k, XorEach(x1s, x2s), ring_and_many(k, x1s, x2s, t), t + 10), "sum")
ring_add_many(k, x1s, x2s, t) == ring_low_depth_binary_add_many(k, x1s, x2s, t)
\* x1 + !x2 + 1
CarryIn(k, p, g) == binary_xor(g, AndAll(p, 1))
RingSubCarryIn(k, p, g, t) ==
    [kogge_stone_inner_with_carry(k, p, CarryIn(k, p, g), t) EXCEPT !.sum = xor_public(@, 1)]
RingSumWithComplement(k, x1, nx2, t) == RingSubCarryIn(k, binary_xor(x1, nx2), ring_and(k, x1, nx2, t), t + 1)
low_depth_binary_sub_with_carry(k, x1, x2, t) == RingSumWithComplement(k, x1, ring_not(k, x2), t)
CarryInEach(k, ps, gs) == Listed([j \in 1 .. Len(ps) |-> CarryIn(k, ps[j], gs[j])])
LowBitFlipped(rs) == Listed([j \in 1 .. Len(rs) |-> [rs[j] EXCEPT !.sum = xor_public(@, 1)]])
RingSubCarryInMany(k, ps, gs, t) ==
    LowBitFlipped(kogge_stone_inner_with_carry_many(k, ps, CarryInEach(k, ps, gs), t))
RingSumWithComplementMany(k, x1s, nx2, t) ==
    RingSubCarryInMany(k, XorEach(x1s, nx2), ring_and_many(k, x1s, nx2, t), t + 10)
low_depth_binary_sub_with_carry_many(k, x1s, x2s, t) ==
    RingSumWithComplementMany(k, x1s, NotEach(k, x2s), t)
\* x1 + (2^k - c); adding 2^k for c = 0 leaves no carry in k bits, so it is complemented
low_depth_binary_sub_by_const_with_carry(k, x1, c, t) ==
    LET nc == (2 ^ k - c) % 2 ^ k
    IN [kogge_stone_inner_with_carry(k, xor_public(x1, nc), AndAll(x1, nc), t)
           EXCEPT !.carry = IF c = 0 THEN ring_not(1, @) ELSE @]
low_depth_binary_sub_from_const_with_carry(k, c, x2, t) ==
    LET nx2 == ring_not(k, x2) IN RingSubCarryIn(k, xor_public(nx2, c), AndAll(nx2, c), t)

(***************************************************************************)
(* Conversions (conversion.rs)                                             *)
(***************************************************************************)
RingA2bOperands(k, x, t) ==
    LET r == random_biguint(t, k)
    IN << Replicate(<< r[1], ((x[2].a + x[2].b) % 2 ^ k) ^^ r[2], r[3] >>),
          << [a |-> 0, b |-> x[1].b], [a |-> 0, b |-> 0], [a |-> x[3].a, b |-> 0] >> >>
ring_a2b(k, x, t) ==
    LET o == RingA2bOperands(k, x, t) IN ring_low_depth_binary_add(k, o[1], o[2], t + 1)
ring_a2b_many(k, xs, t) ==
    LET o == Listed([j \in 1 .. Len(xs) |-> RingA2bOperands(k, xs[j], t + j)])
    IN ring_low_depth_binary_add_many(k, Column(o, 1), Column(o, 2), t + 10)
random_elements_3keys(k, c, t) == (Draw(3 * c + 1, t) + Draw(3 * c + 2, t) + Draw(3 * c + 3, t)) % 2 ^ k
RingB2aSummand(k, t) ==
    LET r == random_biguint(t, k)
    IN Replicate(<< r[1], r[2],
                    ((random_elements_3keys(k, 1, t) + random_elements_3keys(k, 2, t)) % 2 ^ k) ^^ r[3] >>)
\* Fault: the third party forgets the sign of the half it shares with the second.
RingB2aResultUnsigned(k, z, t) ==
    LET k2 == (0 - random_elements_3keys(k, 1, t)) % 2 ^ k
        k3 == (0 - random_elements_3keys(k, 2, t)) % 2 ^ k
    IN << [a |-> Xor3(z[1].a, z[1].b, z[3].b), b |-> k3],
          [a |-> k2, b |-> Xor3(z[2].a, z[2].b, z[1].b)],
          [a |-> k3, b |-> random_elements_3keys(k, 1, t)] >>
RingB2aResult(k, z, t) ==
    LET k2 == (0 - random_elements_3keys(k, 1, t)) % 2 ^ k
        k3 == (0 - random_elements_3keys(k, 2, t)) % 2 ^ k
    IN << [a |-> Xor3(z[1].a, z[1].b, z[3].b), b |-> k3],
          [a |-> k2, b |-> Xor3(z[2].a, z[2].b, z[1].b)],
          [a |-> k3, b |-> k2] >>
ring_b2a(k, x, t) == RingB2aResult(k, ring_low_depth_binary_add(k, x, RingB2aSummand(k, t), t + 1), t)
RingB2aSummands(k, n, t) == Listed([j \in 1 .. n |-> RingB2aSummand(k, t + j)])
RingB2aResults(k, zs, t) == Listed([j \in 1 .. Len(zs) |-> RingB2aResult(k, zs[j], t + j)])
ring_b2a_many(k, xs, t) ==
    RingB2aResults(k, ring_low_depth_binary_add_many(k, xs, RingB2aSummands(k, Len(xs), t), t + 10), t)
ring_bit_inject(k, x, t) ==
    ring_arithmetic_xor(k, ring_arithmetic_xor(k, HalfShare(x, 1), HalfShare(x, 2), t), HalfShare(x, 3), t + 1)
ring_bit_inject_many(k, xs, t) ==
    ring_arithmetic_xor_many(k, ring_arithmetic_xor_many(k, HalfShares(xs, 1), HalfShares(xs, 2), t),
                             HalfShares(xs, 3), t + 20)
bit_inject_from_bit(k, x, t) == ring_bit_inject(k, x, t)
bit_inject_from_bits_many(k, xs, t) == ring_bit_inject_many(k, xs, t)
bit_inject_from_bits_to_field_many(xs, t) ==
    arithmetic_xor_many(arithmetic_xor_many(HalfShares(xs, 1), HalfShares(xs, 2), t), HalfShares(xs, 3), t + 20)

(***************************************************************************)
(* Comparisons (detail.rs, arithmetic.rs); the results are bit sharings     *)
(***************************************************************************)
ring_unsigned_ge(k, x, y, t) ==
    low_depth_binary_sub_with_carry(k, ring_a2b(k, x, t), ring_a2b(k, y, t + 30), t + 60).carry
ring_unsigned_ge_many(k, xs, ys, t) == Column(low_depth_binary_sub_with_carry_many(k, xs, ys, t), "carry")
ring_unsigned_ge_const_lhs(k, c, y, t) ==
    low_depth_binary_sub_from_const_with_carry(k, c, ring_a2b(k, y, t), t + 30).carry
ring_unsigned_ge_const_rhs(k, x, c, t) ==
    low_depth_binary_sub_by_const_with_carry(k, ring_a2b(k, x, t), c, t + 30).carry
NotWhereZero(cs, bits) == Listed([j \in 1 .. Len(bits) |-> IF cs[j] = 0 THEN ring_not(1, bits[j]) ELSE bits[j]])
unsigned_ge_const_rhs_many(k, xs, cs, t) ==
    LET nc(j) == (2 ^ k - cs[j]) % 2 ^ k
    IN NotWhereZero(cs, kogge_stone_carries_many(k, Listed([j \in 1 .. Len(xs) |-> xor_public(xs[j], nc(j))]),
                                                 Listed([j \in 1 .. Len(xs) |-> AndAll(xs[j], nc(j))]), t))
CarriesWithCarryIn(k, ps, gs, t) == kogge_stone_carries_many(k, ps, CarryInEach(k, ps, gs), t)
unsigned_ge_const_lhs_many(k, cs, ys, t) ==
    LET ny == NotEach(k, ys)
    IN CarriesWithCarryIn(k, xor_public_vec(ny, cs), Listed([j \in 1 .. Len(ys) |-> AndAll(ny[j], cs[j])]), t)
ring_ge(k, x, y, t) == ring_unsigned_ge(k, x, y, t)
ring_ge_many(k, xs, ys, t) == ring_unsigned_ge_many(k, xs, ys, t)
ring_ge_public(k, x, c, t) == ring_unsigned_ge_const_rhs(k, x, c, t)
ge_const_rhs_many(k, xs, cs, t) == unsigned_ge_const_rhs_many(k, xs, cs, t)
ge_const_lhs_many(k, cs, ys, t) == unsigned_ge_const_lhs_many(k, cs, ys, t)
ring_lt(k, x, y, t) == ring_sub_public_by_shared(1, 1, ring_ge(k, x, y, t))
ring_lt_many(k, xs, ys, t) == NotEach(1, ring_ge_many(k, xs, ys, t))
ring_lt_public(k, x, c, t) == ring_not(1, ring_ge_public(k, x, c, t))
ring_le(k, x, y, t) == ring_ge(k, y, x, t)
ring_le_public(k, x, c, t) == ring_unsigned_ge_const_lhs(k, c, x, t)
ring_gt(k, x, y, t) == ring_not(1, ring_le(k, x, y, t))
ring_gt_public(k, x, c, t) == ring_not(1, ring_le_public(k, x, c, t))
ring_eq(k, x, y, t) == ring_is_zero(k, ring_a2b(k, ring_sub(k, x, y), t), t + 30)
ring_eq_many(k, xs, ys, t) ==
    ring_is_zero_many(k, ring_a2b_many(k, RingSubEach(k, xs, ys), t), t + 60)
ring_eq_public(k, x, c, t) == ring_eq(k, x, ring_promote_to_trivial_share(c), t)
ring_neq(k, x, y, t) == ring_not(1, ring_eq(k, x, y, t))
ring_neq_many(k, xs, ys, t) == NotEach(1, ring_eq_many(k, xs, ys, t))
ring_neq_public(k, x, c, t) == ring_neq(k, x, ring_promote_to_trivial_share(c), t)
ring_is_zero_open(k, x, t) == ring_open_bit(ring_eq(k, ZeroShare, x, t))

(***************************************************************************)
(* Casts (casts.rs): between widths, into the field                        *)
(***************************************************************************)
downcast(k, s) == Listed([i \in Parties |-> [a |-> s[i].a % 2 ^ k, b |-> s[i].b % 2 ^ k]])
upcast_a2b(from, to, s, t) ==
    IF from = 1 THEN bit_inject_from_bit(to, s, t) ELSE ring_b2a(to, ring_a2b(from, s, t), t + 30)
\* only to a wider ring, and not from Bit
Unimplemented == "unimplemented"
upcast_many_from_binary(from, to, ss, t) ==
    IF from # 1 /\ from < to THEN ring_b2a_many(to, ss, t) ELSE Unimplemented
cast_a2b(from, to, s, t) == IF from >= to THEN downcast(to, s) ELSE upcast_a2b(from, to, s, t)
field_to_ring_a2b(k, s, t) == ring_b2a(k, downcast(k, a2b(s, t)), t + 60)
ring_to_field_a2b(k, s, t) ==
    IF k = 1 THEN bit_inject(s, t) ELSE b2a(ring_a2b(k, s, t), t + 60)
r2f_many(k, ss, t) ==
    IF k = 1 THEN bit_inject_many(ss, t) ELSE b2a_many(ring_a2b_many(k, ss, t), t + 60)
r2f_b2a_many(k, ss, t) == IF k = 1 THEN bit_inject_many(ss, t) ELSE b2a_many(ss, t)
\* the sign bit selects the positive value
SignedBy(signs, positive, t) ==
    cmux_many(signs, positive, Listed([j \in 1 .. Len(positive) |-> neg(positive[j])]), t)
signed_binary_ring_to_field_many(k, ss, signs, t) ==
    SignedBy(bit_inject_from_bits_to_field_many(signs, t + 100), r2f_b2a_many(k, ss, t), t + 150)

(***************************************************************************)
(* One-hot vectors (gadgets/ohv.rs)                                        *)
(***************************************************************************)
\* every bit of the packed word times one shared bit, one masked word each
and_pre_bit(k, a, b, t) ==
    LET r == random_biguint(t, k)
    IN Listed([i \in Parties |-> LET x == IF b[i].a = 1 THEN a[i].a ^^ a[i].b ELSE 0
               y == IF b[i].b = 1 THEN a[i].a ELSE 0
           IN Xor3(r[i], x, y)])
and_pre_bit_many(k, as, bs, t) == Listed([j \in 1 .. Len(as) |-> and_pre_bit(k, as[j], bs[j], t + j)])
\* the narrowest of the types u8 .. u128 that holds n bits
PackWidth(n) == IF n <= 8 THEN 8 ELSE 2 ^ ceil_log2(n)
\* the widest vector packed as one word (128 bits in the code, 4 here so that both
\* branches are taken); a longer one is cut into words of half that width
PACK_LIMIT == 4
BITLEN == PACK_LIMIT \div 2
WordChunks(bits) ==
    LET n == Len(bits)
    IN Listed([c \in 1 .. (n + BITLEN - 1) \div BITLEN |->
           SubSeq(bits, (c - 1) * BITLEN + 1, IF c * BITLEN < n THEN c * BITLEN ELSE n)])
InOrder(parts) == LET all[c \in 0 .. Len(parts)] == IF c = 0 THEN << >> ELSE all[c - 1] \o parts[c] IN all[Len(parts)]
pack_and(bits, b, t) ==
    LET n == Len(bits)
        words == WordChunks(bits)
        sent == Listed([c \in 1 .. Len(words) |-> and_pre_bit(BITLEN, pack_bits(words[c]), b, t + 50 * c)])
        received == ring_reshare_vec(sent)
    IN CASE n = 1 -> << ring_and(1, bits[1], b, t) >>
         [] n > 1 /\ n <= PACK_LIMIT -> unpack_bits(Replicate(and_pre_bit(PackWidth(n), pack_bits(bits), b, t)), n)
         [] n > PACK_LIMIT -> InOrder(Listed([c \in 1 .. Len(words) |-> unpack_bits(received[c], Len(words[c]))]))
\* the words of all rows go by place: the first of every row, then the second
pack_and_many(rows, bs, t) ==
    LET n == Len(rows[1])
        whole == ring_reshare_vec(and_pre_bit_many(PackWidth(n), pack_bits_many(rows), bs, t))
        words == Listed([r \in 1 .. Len(rows) |-> WordChunks(rows[r])])
        place(c) == Listed([r \in 1 .. Len(rows) |-> words[r][c]])
        received == Listed([c \in 1 .. Len(words[1]) |->
                        ring_reshare_vec(and_pre_bit_many(BITLEN, pack_bits_many(place(c)), bs, t + 50 * c))])
    IN CASE n = 1 -> Listed([j \in 1 .. Len(rows) |-> << ring_and(1, rows[j][1], bs[j], t + j) >>])
         [] n > 1 /\ n <= PACK_LIMIT -> unpack_bits_many(whole, n)
         [] n > PACK_LIMIT -> Listed([r \in 1 .. Len(rows) |->
                InOrder(Listed([c \in 1 .. Len(words[r]) |-> unpack_bits(received[c][r], Len(words[r][c]))]))])
\* From the vector f of the lower bits and the next bit v: the upper half is
\* f AND v, its last entry v XOR the others, and the lower half f XOR the upper.
DoubleOhv(f, e, v) ==
    LET sum[j \in 0 .. Len(e)] == IF j = 0 THEN v ELSE binary_xor(sum[j - 1], e[j])
        upper == e \o << sum[Len(e)] >>
    IN XorEach(f, upper) \o upper
ohv(k, s, t) ==
    LET f[n \in 1 .. k] ==
            LET v == get_bit(s, n - 1)
            IN IF n = 1 THEN << ring_not(1, v), v >>
               ELSE DoubleOhv(f[n - 1], pack_and(SubSeq(f[n - 1], 1, Len(f[n - 1]) - 1), v, t + n), v)
    IN f[k]
ohv_many(k, ss, t) ==
    LET m == Len(ss)
        f[n \in 1 .. k] ==
            LET vs == Listed([j \in 1 .. m |-> get_bit(ss[j], n - 1)])
            IN IF n = 1 THEN Listed([j \in 1 .. m |-> << ring_not(1, vs[j]), vs[j] >>])
               ELSE LET all == f[n - 1]
                        e == pack_and_many(Listed([j \in 1 .. m |-> SubSeq(all[j], 1, Len(all[j]) - 1)]), vs, t + 5 * n)
                    IN Listed([j \in 1 .. m |-> DoubleOhv(all[j], e[j], vs[j])])
    IN f[k]
rand_ohv(k, t) == LET bits == random_elements(k, t) IN << bits, ohv(k, bits, t + 1) >>
=============================================================================
