----------------------------- MODULE Rep3Shares -----------------------------
(***************************************************************************)
(* Replicated secret sharing among three parties over the prime field       *)
(* (mpc-core protocols/rep3 and protocols/additive).  A sharing is what the *)
(* three parties hold together: << s0, s1, s2 >>, each [a, b], where b is    *)
(* the a of the previous party.  A protocol is one operator from the         *)
(* sharings it is called with to the sharing it leaves; its messages are the *)
(* components one party's result takes from another's local value.           *)
(*                                                                         *)
(* Randomness: key i is known to party i (rng1) and to the party after it    *)
(* (rng2).  Draw(i, t) is what key i yields at position t; the parties draw   *)
(* in lock step, so a protocol is called with the position it starts at.     *)
(***************************************************************************)
EXTENDS Field

CONSTANT Draw(_, _)

Parties == 1 .. 3
Prev(i) == IF i = 1 THEN 3 ELSE i - 1
NextParty(i) == IF i = 3 THEN 1 ELSE i + 1
\* the tuple of a function on 1 .. n
Listed(f) == << >> \o f
Failed == << >>

\* a sharing whose replicated halves agree
Consistent(s) == \A i \in Parties : s[i].b = s[Prev(i)].a
\* what is known when every party's own half is known
Replicate(v) == Listed([i \in Parties |-> [a |-> v[i], b |-> v[Prev(i)]]])
ZeroShare == Listed([i \in Parties |-> [a |-> 0, b |-> 0]])

(***************************************************************************)
(* Dealing and combining (rep3.rs, additive/mod.rs)                        *)
(***************************************************************************)
share_field_element(val, r1, r2) == Replicate(<< r1, r2, val \ominus r1 \ominus r2 >>)
share_field_element_additive(val, r1, r2) == << r1, r2, val \ominus r1 \ominus r2 >>
share_field_elements(vals, r1, r2) ==
    Listed([j \in 1 .. Len(vals) |-> share_field_element(vals[j], r1 \oplus Fp(j), r2)])
share_maybe_field_elements(vals, r1, r2) ==
    Listed([j \in 1 .. Len(vals) |-> IF vals[j] = Failed THEN Failed
                               ELSE share_field_element(vals[j][1], r1, r2)])
share_field_elements_additive(vals, r1, r2) ==
    Listed([j \in 1 .. Len(vals) |-> share_field_element_additive(vals[j], r1 \oplus Fp(j), r2)])
combine_field_element(s) == s[1].a \oplus s[2].a \oplus s[3].a
combine_field_elements(ss) == Listed([j \in 1 .. Len(ss) |-> combine_field_element(ss[j])])
combine_additive_share(v) == v[1] \oplus v[2] \oplus v[3]
combine_additive_vec(vs) == Listed([j \in 1 .. Len(vs) |-> combine_additive_share(vs[j])])

(***************************************************************************)
(* Correlated randomness (rngs.rs)                                         *)
(***************************************************************************)
random_fes(t) == Replicate(Listed([i \in Parties |-> Fp(Draw(i, t))]))
masking_field_element(t) == Listed([i \in Parties |-> Fp(Draw(i, t)) \ominus Fp(Draw(Prev(i), t))])
masking_field_elements_vec(n, t) == Listed([j \in 1 .. n |-> masking_field_element(t + j)])
\* drawn with the keys of all three parties: c distinguishes bitcomp1 from bitcomp2
random_fes_3keys(c, t) ==
    Fp(Draw(3 * c + 1, t)) \oplus Fp(Draw(3 * c + 2, t)) \oplus Fp(Draw(3 * c + 3, t))

(***************************************************************************)
(* Local operations (types/arithmetic.rs, additive/types.rs)               *)
(***************************************************************************)
add(s, q) == Listed([i \in Parties |-> [a |-> s[i].a \oplus q[i].a, b |-> s[i].b \oplus q[i].b]])
sub(s, q) == Listed([i \in Parties |-> [a |-> s[i].a \ominus q[i].a, b |-> s[i].b \ominus q[i].b]])
neg(s) == Listed([i \in Parties |-> [a |-> Minus(s[i].a), b |-> Minus(s[i].b)]])
mul_public(s, c) == Listed([i \in Parties |-> [a |-> s[i].a \otimes c, b |-> s[i].b \otimes c]])
\* each party's part of the product: the three cross terms it can compute
LocalProduct(s, q) ==
    Listed([i \in Parties |-> s[i].a \otimes q[i].a \oplus s[i].a \otimes q[i].b \oplus s[i].b \otimes q[i].a])
into_additive(s) == Listed([i \in Parties |-> (s[i].a \oplus s[i].b) \otimes Fp((P + 1) \div 2)])
sum_batched(ss) ==
    LET sum[j \in 0 .. Len(ss)] == IF j = 0 THEN ZeroShare ELSE add(sum[j - 1], ss[j]) IN sum[Len(ss)]

\* a public value belongs to the first party's half
add_public(s, c) == << [s[1] EXCEPT !.a = @ \oplus c], [s[2] EXCEPT !.b = @ \oplus c], s[3] >>
sub_shared_by_public(s, c) == add_public(s, Minus(c))
sub_public_by_shared(c, s) == add_public(neg(s), c)
promote_to_trivial_share(c) == << [a |-> c, b |-> 0], [a |-> 0, b |-> c], [a |-> 0, b |-> 0] >>
promote_to_trivial_shares(cs) == Listed([j \in 1 .. Len(cs) |-> promote_to_trivial_share(cs[j])])
\* the same for additive sharings
additive_add_public(v, c) == [v EXCEPT ![1] = @ \oplus c]
additive_sub_shared_by_public(v, c) == additive_add_public(v, Minus(c))
additive_sub_public_by_shared(c, v) == additive_add_public(Listed([i \in Parties |-> Minus(v[i])]), c)
additive_promote_to_trivial_share(c) == << c, 0, 0 >>
field_mul_0_1_optimized(u, v) ==
    IF u = 0 \/ v = 0 THEN 0 ELSE IF u = 1 THEN v ELSE IF v = 1 THEN u ELSE u \otimes v
mul_public_0_1_optimized(s, c) ==
    IF c = 0 THEN ZeroShare ELSE IF c = 1 THEN s
    ELSE Listed([i \in Parties |-> [a |-> field_mul_0_1_optimized(s[i].a, c), b |-> field_mul_0_1_optimized(s[i].b, c)]])

(***************************************************************************)
(* Protocols with one message to the next party (arithmetic.rs)            *)
(***************************************************************************)
Masked(v, t) == LET m == masking_field_element(t) IN Listed([i \in Parties |-> v[i] \oplus m[i]])
mul(s, q, t) == Replicate(Masked(LocalProduct(s, q), t))
reshare_vec(vs) == Listed([j \in 1 .. Len(vs) |-> Replicate(vs[j])])
mul_vec(ss, qs, t) == reshare_vec(Listed([j \in 1 .. Len(ss) |-> Masked(LocalProduct(ss[j], qs[j]), t + j)]))
mul_vec_par(ss, qs, t) ==
    LET rngs == Listed([j \in 1 .. Len(ss) |-> masking_field_element(t + j)])
    IN reshare_vec(Listed([j \in 1 .. Len(ss) |-> LET l == LocalProduct(ss[j], qs[j]) IN Listed([i \in Parties |-> l[i] \oplus rngs[j][i]])]))
reshare_additive(v) == Replicate(v)
reshare_additive_many(vs) == Listed([j \in 1 .. Len(vs) |-> Replicate(vs[j])])

\* every party adds what it holds and the half its predecessor forwards
open(s) == Listed([i \in Parties |-> s[i].a \oplus s[i].b \oplus s[Prev(i)].b])
open_vec(ss) == Listed([j \in 1 .. Len(ss) |-> open(ss[j])])
additive_open_vec(vs) == Listed([j \in 1 .. Len(vs) |-> Listed([i \in Parties |-> combine_additive_share(vs[j])])])
mul_open(s, q, t) ==
    LET v == Masked(LocalProduct(s, q), t) IN Listed([i \in Parties |-> v[i] \oplus v[Prev(i)] \oplus v[NextParty(i)]])
mul_open_vec(ss, qs, t) == Listed([j \in 1 .. Len(ss) |-> mul_open(ss[j], qs[j], t + j)])

cmux(c, yes, no, t) == add(no, mul(c, sub(yes, no), t))
CmuxLocal(c, yes, no, t) ==
    LET d == LocalProduct(sub(yes, no), c)
    IN Masked(Listed([i \in Parties |-> d[i] \oplus no[i].a]), t)
cmux_vec(c, yes, no, t) ==
    reshare_vec(Listed([j \in 1 .. Len(yes) |-> CmuxLocal(c, yes[j], no[j], t + j)]))
cmux_many(c, yes, no, t) ==
    reshare_vec(Listed([j \in 1 .. Len(yes) |-> CmuxLocal(c[j], yes[j], no[j], t + j)]))
add_mul_public(s, q, c) == add(s, mul_public(q, c))
add_mul(s, q, r, t) == add(s, mul(r, q, t))

InverseOf(v) == CHOOSE w \in FieldElems : v \otimes w = 1
SquareRoots(v) == {w \in FieldElems : w \otimes w = v}
rand(t) == random_fes(t)
\* r / open(r * s); fails when the mask happens to be 0, too
inv(s, t) ==
    LET y == mul_open(s, rand(t), t + 1)[1]
    IN IF y = 0 THEN Failed ELSE mul_public(rand(t), InverseOf(y))
inv_vec(ss, t) ==
    LET rs == Listed([j \in 1 .. Len(ss) |-> rand(t + j)])
        ys == mul_open_vec(ss, rs, t + Len(ss))
    IN IF \E j \in DOMAIN ys : ys[j][1] = 0 THEN Failed
       ELSE Listed([j \in 1 .. Len(ss) |-> mul_public(rs[j], InverseOf(ys[j][1]))])
div(s, q, t) == LET w == inv(q, t) IN IF w = Failed THEN Failed ELSE mul(s, w, t + 2)
div_shared_by_public(s, c) == IF c = 0 THEN Failed ELSE mul_public(s, InverseOf(c))
div_public_by_shared(c, s, t) == LET w == inv(s, t) IN IF w = Failed THEN Failed ELSE mul_public(w, c)
sqrt(s, t) ==
    LET r_squ == rand(t)
        r_inv == rand(t + 1)
        m == mul_vec(<< mul(r_squ, r_squ, t + 2), r_squ >>, << s, r_inv >>, t + 3)
        y_sq == open(m[1])[1]
        y_inv == open(m[2])[1]
    IN IF SquareRoots(y_sq) = {} \/ y_inv = 0 THEN Failed
       ELSE mul_public(mul_public(r_inv, InverseOf(y_inv)), CHOOSE w \in SquareRoots(y_sq) : TRUE)

\* square and multiply from the lowest bit of the exponent; then one more product
pow_public(s, e, t) ==
    LET step[n \in 0 .. P] ==
            \* << result, base, what is left of the exponent >>
            IF n = 0 THEN << promote_to_trivial_share(1), s, e >>
            ELSE LET p == step[n - 1]
                 IN IF p[3] = 0 THEN p
                    ELSE << IF p[3] % 2 = 1 THEN mul(p[1], p[2], t + 2 * n) ELSE p[1],
                            mul(p[2], p[2], t + 2 * n + 1), p[3] \div 2 >>
        last == step[CHOOSE n \in 0 .. P : 2 ^ n > e]
    IN mul(last[1], last[2], t)

product(ss, t) ==
    LET acc[j \in 1 .. Len(ss)] == IF j = 1 THEN ss[1] ELSE mul(acc[j - 1], ss[j], t + j) IN acc[Len(ss)]
\* all but the last factor, the public one included, then a local product
product_into_additive(ss, extra, t) ==
    LET n == Len(ss)
        first == mul_public(ss[1], extra)
        acc[j \in 1 .. n] == IF j = 1 THEN first ELSE mul(acc[j - 1], ss[j], t + j)
    IN IF n = 1 THEN into_additive(first)
       ELSE IF n = 2 THEN LocalProduct(ss[1], mul_public(ss[2], extra))
       ELSE LocalProduct(acc[n - 1], ss[n])
product_many(sss, t) ==
    LET acc[j \in 1 .. Len(sss)] == IF j = 1 THEN sss[1] ELSE mul_vec(acc[j - 1], sss[j], t + 10 * j)
    IN acc[Len(sss)]
\* rows of factors: the rows after the first, not the columns, are multiplied in
product_many_into_additive(rows, extra, t) ==
    LET n == Len(rows[1])
        first == Listed([j \in 1 .. Len(rows) |-> mul_public(rows[j][1], extra)])
        acc[k \in 1 .. n] == IF k = 1 THEN first ELSE mul_vec(acc[k - 1], rows[k], t + 10 * k)
    IN Listed([j \in 1 .. Len(rows) |-> IF n = 1 THEN into_additive(first[j])
           ELSE IF n = 2 THEN LocalProduct(rows[j][1], mul_public(rows[j][2], extra))
           ELSE LocalProduct(acc[n - 1][j], rows[j][n])])

\* x + y - 2xy, for bits
XorLocal(s, q, t) ==
    LET d == Masked(LocalProduct(s, q), t)
    IN Listed([i \in Parties |-> s[i].a \oplus q[i].a \ominus (d[i] \oplus d[i])])
arithmetic_xor(s, q, t) == Replicate(XorLocal(s, q, t))
arithmetic_xor_many(ss, qs, t) == Listed([j \in 1 .. Len(ss) |-> Replicate(XorLocal(ss[j], qs[j], t + j))])
=============================================================================
