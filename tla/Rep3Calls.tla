----------------------------- MODULE Rep3Calls ------------------------------
(***************************************************************************)
(* One protocol call at a time on fresh sharings of plain inputs: what the   *)
(* three parties hold afterwards, beside what the call computes in the       *)
(* clear.                                                                   *)
(***************************************************************************)
EXTENDS Correlations

CONSTANTS
    Values,     \* field elements the calls are made with
    Words,      \* words of WIDTH bits
    Nibbles,    \* words of NARROW bits
    Seeds,      \* positions the generators may stand at
    WIDTH, NARROW

ASSUME WidthAssumption == NARROW \in Nat /\ WIDTH \in Nat /\ NARROW < WIDTH /\ 2 ^ NARROW < P
ASSUME InputAssumption ==
    Values \subseteq FieldElems /\ Words \subseteq 0 .. Mask(WIDTH) /\ Nibbles \subseteq 0 .. Mask(NARROW)
    /\ Seeds \subseteq Nat

VARIABLE result
Idle == [kind |-> "idle"]

\* sharings dealt with generators of their own
Dealt(x, n) == share_field_element(x, Fp(Draw(7, n)), Fp(Draw(8, n)))
DealtBinary(x, n) == share_biguint(x, Draw(7, n) % 2 ^ BITS, Draw(8, n) % 2 ^ BITS)
DealtRing(k, x, n) == share_ring_element(k, x, Draw(7, n), Draw(8, n))
DealtBits(k, x, n) == share_ring_element_binary(k, x, Draw(7, n), Draw(8, n))
DealtAdditive(x, n) == share_field_element_additive(x, Fp(Draw(7, n)), Fp(Draw(8, n)))

Truth(b) == IF b THEN 1 ELSE 0
\* the call `op` leaves the sharings ss of the values vs, of the given kind and width
Leaves(op, kind, k, ss, vs) ==
    result' = [op |-> op, kind |-> kind, width |-> k, shares |-> ss, plain |-> vs]
Field1(op, s, v) == Leaves(op, "field", 0, << s >>, << v >>)
Fields(op, ss, vs) == Leaves(op, "field", 0, ss, vs)
Binary1(op, s, v) == Leaves(op, "binary", 0, << s >>, << v >>)
Binaries(op, ss, vs) == Leaves(op, "binary", 0, ss, vs)
Additive1(op, s, v) == Leaves(op, "additive", 0, << s >>, << v >>)
Opened(op, s, v) == Leaves(op, "opened", 0, << s >>, << v >>)
Ring1(op, k, s, v) == Leaves(op, "ring", k, << s >>, << v >>)
Rings(op, k, ss, vs) == Leaves(op, "ring", k, ss, vs)

\* arithmetic over the field
CallField ==
    /\ result = Idle
    /\ \E x \in Values, y \in Values, t \in Seeds :
       LET X == Dealt(x, t + 1)
           Y == Dealt(y, t + 2)
           C == Dealt(x % 2, t + 3)
           V == DealtAdditive(x, t + 4)
       IN \/ Field1("add", add(X, Y), x \oplus y)
          \/ Field1("sub", sub(X, Y), x \ominus y)
          \/ Field1("sub_shared_by_public", sub_shared_by_public(X, y), x \ominus y)
          \/ Field1("sub_public_by_shared", sub_public_by_shared(y, X), y \ominus x)
          \/ Field1("mul", mul(X, Y, t), x \otimes y)
          \/ Fields("mul_vec", mul_vec(<< X, Y >>, << Y, Y >>, t), << x \otimes y, y \otimes y >>)
          \/ Fields("mul_vec_par", mul_vec_par(<< X, Y >>, << Y, Y >>, t), << x \otimes y, y \otimes y >>)
          \/ Field1("mul_public_0_1_optimized", mul_public_0_1_optimized(X, y), x \otimes y)
          \/ Additive1("into_additive", into_additive(X), x)
          \/ Additive1("additive_sub_public_by_shared", additive_sub_public_by_shared(y, V), y \ominus x)
          \/ Additive1("additive_sub_shared_by_public", additive_sub_shared_by_public(V, y), x \ominus y)
          \/ Field1("reshare_additive", reshare_additive(V), x)
          \/ Opened("mul_open", mul_open(X, Y, t), x \otimes y)
          \/ Field1("cmux", cmux(C, X, Y, t), IF x % 2 = 1 THEN x ELSE y)
          \/ Fields("cmux_vec", cmux_vec(C, << X, Y >>, << Y, X >>, t),
                    IF x % 2 = 1 THEN << x, y >> ELSE << y, x >>)
          \/ Fields("cmux_many", cmux_many(<< C, C >>, << X, Y >>, << Y, X >>, t),
                    IF x % 2 = 1 THEN << x, y >> ELSE << y, x >>)
          \/ Field1("add_mul", add_mul(X, Y, C, t), x \oplus y \otimes (x % 2))
          \/ Field1("add_mul_public", add_mul_public(X, Y, y), x \oplus y \otimes y)
          \/ Field1("product", product(<< X, Y, X >>, t), x \otimes y \otimes x)
          \/ \E n \in 1 .. 3 :
                Additive1("product_into_additive", product_into_additive(SubSeq(<< X, Y, X >>, 1, n), y, t),
                          << x, x \otimes y, x \otimes y \otimes x >>[n] \otimes y)
          \/ Fields("product_many", product_many(<< << X, Y >>, << Y, Y >>, << X, X >> >>, t),
                    << x \otimes y \otimes x, y \otimes y \otimes x >>)
          \/ Field1("arithmetic_xor", arithmetic_xor(C, Dealt(y % 2, t + 4), t), (x + y) % 2)
          \/ Field1("sum_batched", sum_batched(<< X, Y, C >>), x \oplus y \oplus (x % 2))

\* inverses: a mask that happens to be 0 makes them fail, as an input of 0 does
CallInverse ==
    /\ result = Idle
    /\ \E x \in Values, y \in Values, t \in Seeds :
       LET X == Dealt(x, t + 1)
           Y == Dealt(y, t + 2)
       IN \/ inv(X, t) # Failed /\ Field1("inv", mul(X, inv(X, t), t + 20), 1)
          \/ div(X, Y, t) # Failed /\ Field1("div", mul(Y, div(X, Y, t), t + 20), x)
          \/ div_shared_by_public(X, y) # Failed
             /\ Field1("div_shared_by_public", mul_public(div_shared_by_public(X, y), y), x)
          \/ div_public_by_shared(x, Y, t) # Failed
             /\ Field1("div_public_by_shared", mul(Y, div_public_by_shared(x, Y, t), t + 20), x)
          \/ inv_vec(<< X, Y >>, t) # Failed
             /\ LET w == inv_vec(<< X, Y >>, t) IN Fields("inv_vec", mul_vec(<< X, Y >>, w, t + 20), << 1, 1 >>)
          \/ sqrt(X, t) # Failed /\ Field1("sqrt", mul(sqrt(X, t), sqrt(X, t), t + 20), x)

\* binary sharings of field elements, comparisons and conversions
CallBinary ==
    /\ result = Idle
    /\ \E x \in Values, y \in Values, t \in Seeds :
       LET X == DealtBinary(x, t + 1)
           Y == DealtBinary(y, t + 2)
           C == DealtBinary(IF x % 2 = 1 THEN Mask(BITS) ELSE 0, t + 3)
       IN \/ Binary1("and", and(X, Y, t), x & y)
          \/ Binary1("or", or(X, Y, t), x | y)
          \/ Binary1("or_public", or_public(X, y), x | y)
          \/ Binaries("or_vec", or_vec(<< X, Y >>, << Y, Y >>, t), << x | y, y >>)
          \/ Binary1("or_tree", or_tree(<< X, Y, X >>, t), x | y)
          \/ Binary1("shift_r_public", shift_r_public(X, 2), x \div 4)
          \/ Binary1("cmux", binary_cmux(C, X, Y, t), IF x % 2 = 1 THEN x ELSE y)
          \/ Binary1("from_le_bits", from_le_bits(Listed([j \in 1 .. BITS |-> AndAll(ShiftR(X, j - 1), 1)])), x)
          \/ Binary1("is_zero", binary_is_zero(X, t), Truth(x = 0))
          \/ Binaries("is_zero_many", is_zero_many(<< X, binary_xor(X, Y) >>, t), << Truth(x = 0), Truth(x = y) >>)
          \/ Binary1("low_depth_binary_add_mod_p", low_depth_binary_add_mod_p(X, Y, t, BITS), x \oplus y)
          \/ Binaries("binary_add_many", binary_add_many(<< X, Y >>, << Y, Y >>, BITS, t), << x + y, y + y >>)
          \/ Binaries("binary_add_many_mod_p", binary_add_many_mod_p(<< X, Y >>, << Y, Y >>, BITS, t),
                      << x \oplus y, y \oplus y >>)
          \/ Field1("b2a", b2a(X, t), x)
          \/ Fields("b2a_many", b2a_many(<< X, Y >>, t), << x, y >>)
          \/ Field1("bit_inject", bit_inject(AndAll(X, 1), t), x % 2)
          \/ Fields("bit_inject_many", bit_inject_many(<< AndAll(X, 1), AndAll(Y, 1) >>, t), << x % 2, y % 2 >>)
          \/ Fields("ge_many", ge_many(<< X, Y >>, << Y, X >>, t), << Truth(x >= y), Truth(y >= x) >>)
          \/ Fields("lt_many", lt_many(<< X, Y >>, << Y, X >>, t), << Truth(x < y), Truth(y < x) >>)

CallCompare ==
    /\ result = Idle
    /\ \E x \in Values, y \in Values, t \in Seeds :
       LET X == Dealt(x, t + 1)
           Y == Dealt(y, t + 2)
       IN \/ Binary1("a2b", a2b(X, t), x)
          \/ Binaries("a2b_many", a2b_many(<< X, Y >>, t), << x, y >>)
          \/ Field1("lt", lt(X, Y, t), Truth(x < y))
          \/ Field1("gt", gt(X, Y, t), Truth(x > y))
          \/ Field1("lt_public", lt_public(X, y, t), Truth(x < y))
          \/ Field1("gt_public", gt_public(X, y, t), Truth(x > y))
          \/ Field1("neq", neq(X, Y, t), Truth(x # y))
          \/ Fields("neq_many", neq_many(<< X, Y >>, << Y, Y >>, t), << Truth(x # y), 0 >>)
          \/ Field1("neq_public", neq_public(X, y, t), Truth(x # y))
          \/ Fields("eq_public_many", eq_public_many(<< X, Y >>, << y, y >>, t), << Truth(x = y), 1 >>)
          \/ Opened("is_zero", Listed([i \in Parties |-> Truth(is_zero(X, t)[i])]), Truth(x = 0))
          \/ Field1("pow_2_public", pow_2_public(X, y % BITS), x \otimes Doubled(y % BITS))

\* arithmetic and binary words
CallRing ==
    /\ result = Idle
    /\ \E x \in Words, y \in Words, t \in Seeds :
       LET k == WIDTH
           X == DealtRing(k, x, t + 1)
           Y == DealtRing(k, y, t + 2)
           C == DealtRing(k, x % 2, t + 3)
           B == DealtBits(k, x, t + 4)
           D == DealtBits(k, y, t + 5)
           S == DealtBits(k, IF x % 2 = 1 THEN Mask(k) ELSE 0, t + 6)
       IN \/ Ring1("sub_public_by_shared", k, ring_sub_public_by_shared(k, y, X), (y - x) % 2 ^ k)
          \/ Ring1("sub_shared_by_public", k, ring_sub_shared_by_public(k, X, y), (x - y) % 2 ^ k)
          \/ Ring1("mul", k, ring_mul(k, X, Y, t), (x * y) % 2 ^ k)
          \/ Rings("mul_vec", k, ring_mul_vec(k, << X, Y >>, << Y, Y >>, t), << (x * y) % 2 ^ k, (y * y) % 2 ^ k >>)
          \/ Ring1("cmux", k, ring_cmux(k, C, X, Y, t), IF x % 2 = 1 THEN x ELSE y)
          \/ Rings("cmux_many", k, ring_cmux_many(k, << C, C >>, << X, Y >>, << Y, X >>, t),
                   IF x % 2 = 1 THEN << x, y >> ELSE << y, x >>)
          \/ Ring1("add_mul", k, ring_add_mul(k, X, Y, C, t), (x + y * (x % 2)) % 2 ^ k)
          \/ Ring1("add_mul_public", k, ring_add_mul_public(k, X, Y, y), (x + y * y) % 2 ^ k)
          \/ Opened("mul_open", ring_mul_open(k, X, Y, t), (x * y) % 2 ^ k)
          \/ Ring1("pow_2_public", k, ring_pow_2_public(k, X, y % k), (x * 2 ^ (y % k)) % 2 ^ k)
          \/ Binary1("a2b", ring_a2b(k, X, t), x)
          \/ Binaries("a2b_many", ring_a2b_many(k, << X, Y >>, t), << x, y >>)
          \/ Ring1("b2a", k, ring_b2a(k, B, t), x)
          \/ Rings("b2a_many", k, ring_b2a_many(k, << B, D >>, t), << x, y >>)
          \/ Rings("bit_inject_many", k, ring_bit_inject_many(k, << get_bit(B, 0), get_bit(D, 0) >>, t), << x % 2, y % 2 >>)
          \/ Binary1("or", ring_or(k, B, D, t), x | y)
          \/ Binary1("or_public", ring_or_public(B, y), x | y)
          \/ Binary1("or_tree", ring_or_tree(k, << B, D, B >>, t), x | y)
          \/ Binary1("binary_cmux", ring_binary_cmux(k, S, B, D, t), IF x % 2 = 1 THEN x ELSE y)
          \/ Binaries("binary_cmux_many", ring_binary_cmux_many(k, << S, S >>, << B, D >>, << D, B >>, t),
                      IF x % 2 = 1 THEN << x, y >> ELSE << y, x >>)
          \/ Binaries("add_many", ring_add_many(k, << B, D >>, << D, D >>, t), << (x + y) % 2 ^ k, (y + y) % 2 ^ k >>)
          \/ Binary1("sub", low_depth_binary_sub_with_carry(k, B, D, t).sum, (x - y) % 2 ^ k)
          \/ Binary1("shift_l_public", ring_shift_l_public(k, B, y % k), (x * 2 ^ (y % k)) % 2 ^ k)
          \/ Binary1("is_even", is_even(B), 1 - (x % 2))

CallRingCompare ==
    /\ result = Idle
    /\ \E x \in Words, y \in Words, t \in Seeds :
       LET k == WIDTH
           X == DealtRing(k, x, t + 1)
           Y == DealtRing(k, y, t + 2)
           B == DealtBits(k, x, t + 4)
           D == DealtBits(k, y, t + 5)
       IN \/ Binary1("lt", ring_lt(k, X, Y, t), Truth(x < y))
          \/ Binary1("gt", ring_gt(k, X, Y, t), Truth(x > y))
          \/ Binary1("lt_public", ring_lt_public(k, X, y, t), Truth(x < y))
          \/ Binary1("gt_public", ring_gt_public(k, X, y, t), Truth(x > y))
          \/ Binaries("lt_many", ring_lt_many(k, << B, D >>, << D, B >>, t), << Truth(x < y), Truth(y < x) >>)
          \/ Binaries("ge_const_rhs_many", ge_const_rhs_many(k, << B, B >>, << y, 0 >>, t), << Truth(x >= y), 1 >>)
          \/ Binaries("ge_const_lhs_many", ge_const_lhs_many(k, << y, 0 >>, << B, B >>, t),
                      << Truth(y >= x), Truth(x = 0) >>)
          \/ Binary1("neq", ring_neq(k, X, Y, t), Truth(x # y))
          \/ Binaries("neq_many", ring_neq_many(k, << X, Y >>, << Y, Y >>, t), << Truth(x # y), 0 >>)
          \/ Binary1("neq_public", ring_neq_public(k, X, y, t), Truth(x # y))
          \/ Opened("is_zero", ring_is_zero_open(k, X, t), Truth(x = 0))

\* between widths, into the field and back, and one-hot vectors
CallCast ==
    /\ result = Idle
    /\ \E x \in Nibbles, y \in Nibbles, t \in Seeds :
       LET k == NARROW
           X == DealtRing(k, x, t + 1)
           B == DealtBits(k, x, t + 2)
           D == DealtBits(k, y, t + 3)
           S == DealtBits(1, y % 2, t + 4)
           OneHot(v) == Listed([j \in 1 .. 2 ^ k |-> Truth(j - 1 = v)])
       IN \/ Ring1("cast_a2b", WIDTH, cast_a2b(k, WIDTH, X, t), x)
          \/ Ring1("downcast", k, cast_a2b(WIDTH, k, DealtRing(WIDTH, x + 16 * y, t + 5), t), x)
          \/ Ring1("upcast_bit", k, cast_a2b(1, k, S, t), y % 2)
          \/ Rings("upcast_many_from_binary", WIDTH, upcast_many_from_binary(k, WIDTH, << B, D >>, t), << x, y >>)
          \/ Field1("ring_to_field_a2b", ring_to_field_a2b(k, X, t), x)
          \/ Field1("bit_to_field", ring_to_field_a2b(1, S, t), y % 2)
          \/ Fields("r2f_many", r2f_many(k, << X, X >>, t), << x, x >>)
          \/ Fields("r2f_b2a_many", r2f_b2a_many(k, << B, D >>, t), << x, y >>)
          \/ Ring1("field_to_ring_a2b", k, field_to_ring_a2b(k, Dealt(x, t + 6), t), x)
          \/ Fields("signed_binary_ring_to_field_many", signed_binary_ring_to_field_many(k, << B >>, << S >>, t),
                    << IF y % 2 = 1 THEN x ELSE Minus(x) >>)
          \/ Binaries("ohv", ohv(k, B, t), OneHot(x))
          \/ Binaries("ohv_many", ohv_many(k, << B, D >>, t)[2], OneHot(y))

\* online conversions with tuples of an offline phase of TUPLES items
TUPLES == 3
CallPreprocessed ==
    /\ result = Idle
    /\ \E x \in Nibbles, y \in Nibbles, t \in Seeds, cursor \in 0 .. TUPLES - 1 :
       LET k == NARROW
           B == DealtBits(k, x, t + 1)
           D == DealtBits(k, y, t + 2)
           off == t + 500
           bits == Listed([j \in 1 .. k |-> get_bit(B, j - 1)])
           qs == Listed([j \in 1 .. k |-> Fp(y + 3 * j)])
           \* three sharings in one word: the two halves of the carry of x + y
           wrap == DealtRing(k, (y % 3) * 2 ^ (k - 2), t + 3)
           \* one batch: all the items the cursor has left
           n == TUPLES - cursor
           Bs == SubSeq(<< B, D, B >>, 1, n)
           plain == SubSeq(<< x, y, x >>, 1, n)
       IN \/ LET edas == EdaTake(k, off, random_edabits_lazy(k, TUPLES, off), cursor, n)
             IN Fields("r2f_b2a_preproc_many", r2f_b2a_preproc_many(k, Bs, edas, t), plain)
          \/ Field1("random_edabits", r2f_b2a_preproc(k, B, random_edabits(k, off + cursor), t), x)
          \/ LET edas == RingEdaTake(k, off, random_edabits_ring_lazy(k, TUPLES, off), cursor, n)
             IN Rings("b2a_preproc_many", k, b2a_preproc_many(k, Bs, edas, t), plain)
          \/ LET ds == DaBitTake(off, random_dabits_lazy(TUPLES, off), cursor, n)
                 lows == Listed([j \in 1 .. n |-> get_bit(Bs[j], 0)])
             IN Fields("bit_inject_field_preproc_many", bit_inject_field_preproc_many(lows, ds),
                       Listed([j \in 1 .. n |-> plain[j] % 2]))
          \/ LET w == WrapTake(TUPLES, off, generate_wrap_masks_lazy(k, TUPLES, off, t), cursor)
             IN Binaries("extract_wrap_m2_from_diff", extract_wrap_m2_from_diff(k, wrap, w),
                         << (y % 3) % 2, (y % 3) \div 2 >>)
          \/ LET points == random_dapoints_from_columns(qs, qs, k, k, off)
                 all == DaPointColumns(qs, qs, k, k)
             IN Additive1("dot_product_dapoints",
                          dot_product_dapoints(SubSeq(bits, 1, 2), SubSeq(all, cursor + 1, cursor + 2),
                                               DaPointTake(points, cursor, 2)),
                          Fp(x % 2) \otimes all[cursor + 1] \oplus Fp((x \div 2) % 2) \otimes all[cursor + 2])
          \/ LET r == generate_rand_ohvs_lazy(2, TUPLES, off)[cursor + 1]
                 at == combine_binary_element(r.r)
             IN Fields("generate_rand_ohvs_lazy", r.e, Listed([j \in 1 .. 4 |-> Truth(j - 1 = at)]))

Call == CallField \/ CallInverse \/ CallBinary \/ CallCompare
        \/ CallRing \/ CallRingCompare \/ CallCast \/ CallPreprocessed
Reset == result # Idle /\ result' = Idle
Init == result = Idle
Next == Call \/ Reset
Spec == Init /\ [][Next]_result

(***************************************************************************)
(* Properties                                                              *)
(***************************************************************************)
\* what the parties learn when they open a sharing
OpenAs(kind, k, s) ==
    CASE kind = "field" -> open(s)
      [] kind = "ring" -> ring_open(k, s)
      [] kind = "binary" -> binary_open(s)
      [] kind = "additive" -> additive_open_vec(<< s >>)[1]
      [] kind = "opened" -> s

\* Whatever the masks and the dealers' randomness, every party that opens the
\* result of a protocol learns what the operation computes in the clear: no
\* protocol of mpc-core's rep3, rep3_ring and preprocessing modules loses a
\* carry, a mask or a correction term.
ResultOpensToPlain ==
    result # Idle =>
        \A j \in DOMAIN result.shares :
            \A i \in Parties : OpenAs(result.kind, result.width, result.shares[j])[i] = result.plain[j]

\* Every half a party holds is the half its predecessor holds: a protocol that
\* let one party's copy drift would open correctly once and fail when used again.
ReplicasAgree ==
    result # Idle /\ result.kind \in {"field", "ring", "binary"} =>
        \A j \in DOMAIN result.shares : Consistent(result.shares[j])
=============================================================================
