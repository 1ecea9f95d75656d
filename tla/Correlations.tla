---------------------------- MODULE Correlations ----------------------------
(***************************************************************************)
(* The correlated tuples of the offline phase and the protocols that use    *)
(* them online (mpc-core preprocessing/: edabits.rs, dabits.rs,             *)
(* wrap_mask.rs, dapoint.rs, rand_ohv.rs; protocols/: conversion.rs,        *)
(* casts.rs, pointshare.rs).                                                *)
(*                                                                         *)
(* A source is generated by all three parties from a fork of their pairwise *)
(* generators: t is where the fork starts, key 1 is shared by P0 and P1,    *)
(* key 2 by P1 and P2, key 3 by P2 and P0.  What a party can regenerate it   *)
(* does not store: it seeks the generator to its cursor and draws again, so  *)
(* what it finds there must be what the offline phase drew.    *)
(* A position is one element (a ring or field element, or a byte).           *)
(***************************************************************************)
EXTENDS Rep3Ring

(***************************************************************************)
(* The offline phase fills one buffer from the start of the fork; a take of  *)
(* n items moves a fresh generator to the word that holds the first of them. *)
(***************************************************************************)
\* positions of one word of the generator: four bytes in the code
WORD == 2
fill_bytes(key, pos, n) == Listed([p \in 1 .. n |-> Draw(key, pos + p - 1)])
\* fault: the start of the first word is kept
seek_and_generateUnskipped(key, base_pos, offset, needed) ==
    fill_bytes(key, base_pos + WORD * (offset \div WORD), needed)
\* positions are sought by whole words, and what the first one holds too much dropped
seek_and_generate(key, base_pos, offset, needed) ==
    LET skip == offset % WORD
        buf == fill_bytes(key, base_pos + WORD * (offset \div WORD), needed + skip)
    IN SubSeq(buf, skip + 1, Len(buf))

Bit(v, j) == (v \div 2 ^ j) % 2
SignOf(bit) == IF bit = 1 THEN Minus(1) ELSE 1

(***************************************************************************)
(* edaBits: a k-bit gamma known to P0, every bit of it shared additively     *)
(* between P1 (alpha_1, which P0 knows as well) and P2 (alpha_2)             *)
(***************************************************************************)
\* item i of the stream P0 and P1 share is gamma's first half and k alphas; the
\* stream of P0 and P2 holds the second halves of gamma only
Stride(k) == 1 + k
EdaGamma(k, s1, s2, i, stride2) == (s1[i * Stride(k) + 1] % 2 ^ k) ^^ (s2[i * stride2 + 1] % 2 ^ k)
EdaAlphas(k, s1, i) == Listed([j \in 1 .. k |-> Fp(s1[i * Stride(k) + 1 + j])])
\* what P0 sends to P2: for item i and bit j at position i * k + j
random_edabits_lazy(k, num, t) ==
    LET s1 == fill_bytes(1, t, num * Stride(k))
        s2 == fill_bytes(3, t, num)
    IN Listed([p \in 1 .. num * k |-> LET i == (p - 1) \div k
            j == (p - 1) % k
        IN Fp(Bit(EdaGamma(k, s1, s2, i, 1), j)) \ominus EdaAlphas(k, s1, i)[j + 1]])
\* the n items from the cursor on as each party takes them: gamma is 0 for P1 and P2
EdaTake(k, t, alpha2_flat, cursor, n) ==
    LET s1 == seek_and_generate(1, t, cursor * Stride(k), n * Stride(k))
        s2 == seek_and_generate(3, t, cursor, n)
    IN Listed([i \in 1 .. n |->
           [gamma |-> << EdaGamma(k, s1, s2, i - 1, 1), 0, 0 >>,
            alphas |-> << EdaAlphas(k, s1, i - 1), EdaAlphas(k, s1, i - 1),
                          SubSeq(alpha2_flat, (cursor + i - 1) * k + 1, (cursor + i) * k) >>]])
\* the eager form draws both keys for every element, so both have one stride
random_edabits(k, t) ==
    LET gamma == (Draw(1, t) % 2 ^ k) ^^ (Draw(3, t) % 2 ^ k)
        alpha1 == Listed([j \in 1 .. k |-> Fp(Draw(1, t + j))])
    IN [gamma |-> << gamma, 0, 0 >>,
        alphas |-> << alpha1, alpha1, Listed([j \in 1 .. k |-> Fp(Bit(gamma, j - 1)) \ominus alpha1[j]]) >>]

\* P0 sends m; P1 and P2 learn beta = x XOR gamma from m and the half P0 lacks.
\* Every bit of x is gamma's where beta is 0 and one minus it where beta is 1.
Beta(x, m, i) == m ^^ (IF i = 2 THEN x[2].a ELSE x[3].b)
r2f_b2a_preproc(k, x, eda, t) ==
    LET m == Xor3(x[1].a, x[1].b, eda.gamma[1])
        beta2 == Beta(x, m, 2)
        beta3 == Beta(x, m, 3)
        v(beta, alphas) == SumOver(0, k - 1, LAMBDA j :
                               Fp(2 ^ j) \otimes SignOf(Bit(beta, j)) \otimes alphas[j + 1])
        s_self == << 0, v(beta2, eda.alphas[2]) \oplus Fp(beta2), v(beta3, eda.alphas[3]) >>
    IN Replicate(Masked(s_self, t))
r2f_b2a_preproc_many(k, xs, edas, t) == Listed([j \in 1 .. Len(xs) |-> r2f_b2a_preproc(k, xs[j], edas[j], t + j)])

(***************************************************************************)
(* Ring edaBits: the alphas are ring elements                              *)
(***************************************************************************)
RingEdaAlphas(k, s1, i) == Listed([j \in 1 .. k |-> s1[i * Stride(k) + 1 + j] % 2 ^ k])
\* both streams have the long stride here
random_edabits_ring_lazy(k, num, t) ==
    LET s1 == fill_bytes(1, t, num * Stride(k))
        s2 == fill_bytes(3, t, num * Stride(k))
    IN Listed([p \in 1 .. num * k |-> LET i == (p - 1) \div k
            j == (p - 1) % k
        IN (Bit(EdaGamma(k, s1, s2, i, Stride(k)), j) - RingEdaAlphas(k, s1, i)[j + 1]) % 2 ^ k])
RingEdaTake(k, t, alpha2_flat, cursor, n) ==
    LET s1 == seek_and_generate(1, t, cursor * Stride(k), n * Stride(k))
        s2 == seek_and_generate(3, t, cursor * Stride(k), n * Stride(k))
    IN Listed([i \in 1 .. n |->
           [gamma |-> << EdaGamma(k, s1, s2, i - 1, Stride(k)), 0, 0 >>,
            alphas |-> << RingEdaAlphas(k, s1, i - 1), RingEdaAlphas(k, s1, i - 1),
                          SubSeq(alpha2_flat, (cursor + i - 1) * k + 1, (cursor + i) * k) >>]])
b2a_preproc_many(k, xs, edas, t) ==
    LET one(x, eda, u) ==
            LET m == Xor3(x[1].a, x[1].b, eda.gamma[1])
                beta(i) == Beta(x, m, i)
                signed(i, j) == IF Bit(beta(i), j) = 1 THEN - eda.alphas[i][j + 1] ELSE eda.alphas[i][j + 1]
                v(i) == LET sum[j \in -1 .. k - 1] ==
                                IF j = -1 THEN 0 ELSE (sum[j - 1] + 2 ^ j * signed(i, j)) % 2 ^ k
                        IN sum[k - 1]
            IN Replicate(RingMasked(k, << 0, (v(2) + beta(2)) % 2 ^ k, v(3) >>, u))
    IN Listed([j \in 1 .. Len(xs) |-> one(xs[j], edas[j], t + j)])

(***************************************************************************)
(* daBits: gamma known to P0, theta to P1 and P2, v = (-1)^theta gamma       *)
(* replicated among the three                                              *)
(***************************************************************************)
\* item i of the stream of P0 and P1 is << gamma's first half, alpha_1, r_1 >>
DaGamma(s1, g2, i) == (s1[3 * i + 1] + g2[i + 1]) % 2
DaAlpha1(s1, i) == Fp(s1[3 * i + 2])
DaR1(s1, i) == Fp(s1[3 * i + 3])
DaTheta(thetas, i) == thetas[i + 1] % 2
\* P1's third of v
DaS12(s1, thetas, i) == SignOf(DaTheta(thetas, i)) \otimes DaAlpha1(s1, i) \ominus DaR1(s1, i)
\* P0 sends alpha_2 and P1 its third of v to P2; P2 sends its own third to P0.
\* What P0 and P2 keep of it; P1 keeps nothing.
random_dabits_lazy(num, t) ==
    LET s1 == fill_bytes(1, t, 3 * num)
        g2 == fill_bytes(3, t, num)
        thetas == fill_bytes(2, t, num)
        alpha2(i) == Fp(DaGamma(s1, g2, i)) \ominus DaAlpha1(s1, i)
        s20(i) == SignOf(DaTheta(thetas, i)) \otimes alpha2(i)
    IN [p0 |-> Listed([i \in 1 .. num |-> s20(i - 1)]),
        p2 |-> Listed([p \in 1 .. 2 * num |-> IF p % 2 = 1 THEN s20((p - 1) \div 2)
                                        ELSE DaS12(s1, thetas, (p - 1) \div 2)])]
\* take_batch: P0 and P1 regenerate their stream, P1 and P2 theta
DaBitTake(t, stored, cursor, n) ==
    LET s1 == seek_and_generate(1, t, 3 * cursor, 3 * n)
        g2 == seek_and_generate(3, t, cursor, n)
        thetas == seek_and_generate(2, t, cursor, n)
        item(i) ==
            [gamma |-> << DaGamma(s1, g2, i), 0, 0 >>,
             theta |-> << 0, DaTheta(thetas, i), DaTheta(thetas, i) >>,
             v |-> << [a |-> DaR1(s1, i), b |-> stored.p0[cursor + i + 1]],
                      [a |-> DaS12(s1, thetas, i), b |-> DaR1(s1, i)],
                      [a |-> stored.p2[2 * (cursor + i) + 1], b |-> stored.p2[2 * (cursor + i) + 2]] >>]
    IN Listed([i \in 1 .. n |-> item(i - 1)])
\* beta = x XOR gamma; x = beta + (-1)^beta gamma, and (-1)^theta v = gamma
bit_inject_field_preproc_many(xs, dabits) ==
    LET one(x, d) ==
            LET m0 == Xor3(x[1].a, x[1].b, d.gamma[1])
                m1 == x[2].a ^^ d.theta[2]
                beta(i) == Beta(x, m0, i)
                \* beta XOR theta: P0 learns it from m1 without learning theta
                sigma(i) == IF i = 1 THEN m0 ^^ m1 ELSE beta(i) ^^ d.theta[i]
                signed == Listed([i \in Parties |-> [a |-> d.v[i].a \otimes SignOf(sigma(i)),
                                              b |-> d.v[i].b \otimes SignOf(sigma(i))]])
            IN << signed[1], [signed[2] EXCEPT !.a = @ \oplus beta(2)],
                  [signed[3] EXCEPT !.b = @ \oplus beta(3)] >>
    IN Listed([j \in 1 .. Len(xs) |-> one(xs[j], dabits[j])])

(***************************************************************************)
(* Wrap masks: two random bits, shared in binary and as the two top bits of  *)
(* a ring element; they open the wrap count of a sum of three halves          *)
(***************************************************************************)
\* the bits of all items are drawn first, then the second bits of all items
WrapBit(total, t, i, which) == random_elements(1, t + which * total + i)
generate_wrap_masks_lazy(k, total, t, io) ==
    LET bits == Listed([p \in 1 .. 2 * total |-> random_elements(1, t + p - 1)])
        arith == bit_inject_from_bits_many(k, bits, io)
    IN Listed([i \in 1 .. total |-> ring_mul_public(k, ring_add(k, arith[i], ring_mul_public(k, arith[total + i], 2)), 2 ^ (k - 2))])
WrapTake(total, t, mask_arith, cursor) ==
    [r0 |-> WrapBit(total, t, cursor, 0), r1 |-> WrapBit(total, t, cursor, 1), mask |-> mask_arith[cursor + 1]]
two_bit_add_public_const_into_binary_share(ctop, r0, r1) ==
    LET c0 == ctop % 2
        c1 == ctop \div 2
        carry == IF c0 = 1 THEN r0 ELSE ZeroShare
    IN << xor_public(r0, c0), xor_public(binary_xor(r1, carry), c1) >>
extract_wrap_m2_from_diff(k, diff, w) ==
    LET c == ring_open(k, ring_sub(k, diff, w.mask))[1]
    IN two_bit_add_public_const_into_binary_share(c \div 2 ^ (k - 2), w.r0, w.r1)

(***************************************************************************)
(* daPoints: gamma known to P0, gamma Q shared additively by P1 and P2.  A   *)
(* curve point is an element of a group of order P.                         *)
(***************************************************************************)
DaPointGamma(t, i) == (Draw(1, t + i) + Draw(3, t + i)) % 2
\* the points follow the n gammas in the stream of P0 and P1
random_dapoints(qs, t) ==
    LET n == Len(qs)
        a1(i) == Fp(Draw(1, t + n + i - 1))
    IN [gammas |-> Listed([i \in 1 .. n |-> DaPointGamma(t, i - 1)]),
        alphas1 |-> Listed([i \in 1 .. n |-> a1(i)]),
        alphas2 |-> Listed([i \in 1 .. n |-> (IF DaPointGamma(t, i - 1) = 1 THEN qs[i] ELSE 0) \ominus a1(i)])]
\* the points of a matrix, row by row: first those of bit 0, then those of bit 1
DaPointColumns(q0_cols, q1_cols, num_coeffs, num_columns) ==
    LET row(r) == IF num_coeffs - r * num_columns < num_columns THEN num_coeffs - r * num_columns
                  ELSE num_columns
        rows == (num_coeffs + num_columns - 1) \div num_columns
        out[r \in 0 .. rows] ==
            IF r = 0 THEN << >>
            ELSE out[r - 1] \o SubSeq(q0_cols, 1, row(r - 1)) \o SubSeq(q1_cols, 1, row(r - 1))
    IN out[rows]
random_dapoints_from_columns(q0_cols, q1_cols, num_coeffs, num_columns, t) ==
    random_dapoints(DaPointColumns(q0_cols, q1_cols, num_coeffs, num_columns), t)
DaPointTake(points, cursor, n) ==
    [gammas |-> SubSeq(points.gammas, cursor + 1, cursor + n),
     alphas1 |-> SubSeq(points.alphas1, cursor + 1, cursor + n),
     alphas2 |-> SubSeq(points.alphas2, cursor + 1, cursor + n)]
dot_product_dapoints(bits, qs, batch) ==
    LET m(i) == Xor3(bits[i][1].a, bits[i][1].b, batch.gammas[i])
        beta(i, p) == Beta(bits[i], m(i), p)
        term1(i) == IF beta(i, 2) = 1 THEN qs[i] \ominus batch.alphas1[i] ELSE batch.alphas1[i]
        term2(i) == IF beta(i, 3) = 1 THEN Minus(batch.alphas2[i]) ELSE batch.alphas2[i]
    IN << 0, SumOver(1, Len(bits), term1), SumOver(1, Len(bits), term2) >>

(***************************************************************************)
(* Random one-hot vectors: a shared index and its one-hot vector in the field *)
(***************************************************************************)
generate_rand_ohvs_lazy(k, n, t) ==
    Listed([i \in 1 .. n |-> LET r == rand_ohv(k, t + 200 * i)
        IN [r |-> r[1], e |-> bit_inject_from_bits_to_field_many(r[2], t + 200 * i + 20)]])
=============================================================================
