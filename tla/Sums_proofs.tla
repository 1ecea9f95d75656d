---------------------------- MODULE Sums_proofs -----------------------------
(***************************************************************************)
(* What Partial and Total compute, for every sequence.  Induction over the *)
(* natural numbers comes from the well-foundedness of <, in the first-order*)
(* form of WFMin.                                                          *)
(***************************************************************************)
EXTENDS Sums, WellFoundedInduction, TLAPS

\* A non-empty set of natural numbers has a least element.
LEMMA LeastNatural ==
  ASSUME NEW S \in SUBSET Nat, S # {}
  PROVE  \E n \in S : \A m \in S : n <= m
<1>. DEFINE R == {ss \in Nat \X Nat : ss[1] < ss[2]}
<1>1. IsWellFoundedOn(R, Nat)
  BY NatLessThanWellFounded DEF OpToRel
<1>. HIDE DEF R
<1>2. PICK n \in S : \A m \in S : <<m, n>> \notin R
  BY <1>1, WFMin
<1>3. ASSUME NEW m \in S PROVE n <= m
  <2>1. <<m, n>> \notin R
    BY <1>2
  <2>2. m \in Nat /\ n \in Nat
    OBVIOUS
  <2>. QED  BY <2>1, <2>2 DEF R
<1>. QED  BY <1>3

\* Induction: a set with 0 and the successors of its members has all of 0 .. n.
LEMMA SetInduction ==
  ASSUME NEW S, 0 \in S, NEW n \in Nat, \A m \in 0 .. n - 1 : m \in S => m + 1 \in S
  PROVE  0 .. n \subseteq S
<1>. DEFINE Bad == (0 .. n) \ S
<1>1. SUFFICES ASSUME Bad # {} PROVE FALSE
  OBVIOUS
<1>2. PICK b \in Bad : \A m \in Bad : b <= m
  <2>1. Bad \in SUBSET Nat
    OBVIOUS
  <2>. HIDE DEF Bad
  <2>. QED  BY <1>1, <2>1, LeastNatural
<1>3. b # 0 /\ b - 1 \in 0 .. n - 1 /\ b - 1 \notin Bad
  BY <1>2
<1>4. (b - 1) + 1 \in S
  BY <1>3
<1>. QED  BY <1>2, <1>4

\* Partial is the function its recursive definition describes.
LEMMA PartialDef ==
  ASSUME NEW f \in Seq(Int)
  PROVE  /\ Partial(f) \in [0 .. Len(f) -> Int]
         /\ Partial(f)[0] = 0
         /\ \A n \in 1 .. Len(f) : Partial(f)[n] = Partial(f)[n - 1] + f[n]
<1>. DEFINE L == Len(f)
            Sums(n) == {g \in [0 .. n -> Int] :
                          g[0] = 0 /\ \A i \in 1 .. n : g[i] = g[i - 1] + f[i]}
            S == {n \in 0 .. L : Sums(n) # {}}
<1>0. L \in Nat /\ \A n \in 1 .. L : f[n] \in Int
  OBVIOUS
<1>. HIDE DEF L
<1>1. 0 \in S
  <2>1. [i \in 0 .. 0 |-> 0] \in Sums(0)
    OBVIOUS
  <2>. QED  BY <1>0, <2>1
<1>2. ASSUME NEW m \in 0 .. L - 1, m \in S PROVE m + 1 \in S
  <2>1. PICK g : g \in Sums(m)
    BY <1>2
  <2>. DEFINE h == [i \in 0 .. m + 1 |-> IF i = m + 1 THEN g[m] + f[m + 1] ELSE g[i]]
  <2>2. h \in Sums(m + 1)
    <3>1. h \in [0 .. m + 1 -> Int]
      BY <1>0, <2>1
    <3>2. h[0] = 0
      BY <2>1
    <3>3. ASSUME NEW i \in 1 .. m + 1 PROVE h[i] = h[i - 1] + f[i]
      BY <2>1
    <3>. QED  BY <3>1, <3>2, <3>3
  <2>3. m + 1 \in 0 .. L
    BY <1>0
  <2>. QED  BY <2>2, <2>3
<1>3. L \in S
  <2>. HIDE DEF S
  <2>1. \A m \in 0 .. L - 1 : m \in S => m + 1 \in S
    BY <1>2
  <2>2. 0 .. L \subseteq S
    BY <1>0, <1>1, <2>1, SetInduction
  <2>. QED  BY <1>0, <2>2
<1>4. PICK g : g \in Sums(L)
  BY <1>3
<1>. DEFINE Body(s) == [n \in 0 .. L |-> IF n = 0 THEN 0 ELSE s[n - 1] + f[n]]
<1>5. g = Body(g)
  BY <1>0, <1>4
<1>6. Partial(f) = CHOOSE s : s = Body(s)
  BY DEF Partial, L
<1>7. PICK p : p = Partial(f) /\ p = Body(p)
  BY <1>5, <1>6
<1>8. p[0] = 0 /\ (\A n \in 1 .. L : p[n] = p[n - 1] + f[n]) /\ DOMAIN p = 0 .. L
  <2>1. DOMAIN p = 0 .. L
    BY <1>7
  <2>2. \A n \in 0 .. L : p[n] = IF n = 0 THEN 0 ELSE p[n - 1] + f[n]
    BY <1>7
  <2>3. 0 \in 0 .. L /\ \A n \in 1 .. L : n \in 0 .. L /\ n # 0
    BY <1>0
  <2>. QED  BY <2>1, <2>2, <2>3
<1>9. \A n \in 0 .. L : p[n] \in Int
  <2>. DEFINE T == {n \in 0 .. L : p[n] \in Int}
  <2>1. 0 \in T
    BY <1>0, <1>8
  <2>2. ASSUME NEW m \in 0 .. L - 1, m \in T PROVE m + 1 \in T
    <3>1. m + 1 \in 1 .. L /\ (m + 1) - 1 = m
      BY <1>0
    <3>2. p[m + 1] = p[m] + f[m + 1]
      BY <1>8, <3>1
    <3>. QED  BY <1>0, <2>2, <3>1, <3>2
  <2>3. 0 .. L \subseteq T
    <3>. HIDE DEF T
    <3>. QED  BY <1>0, <2>1, <2>2, SetInduction
  <2>. QED  BY <2>3
<1>10. p \in [0 .. L -> Int]
  <2>1. p = [n \in 0 .. L |-> p[n]]
    BY <1>7
  <2>. QED  BY <1>9, <2>1
<1>. QED  BY <1>7, <1>8, <1>10 DEF L

\* Sums of natural numbers are natural numbers and grow.
LEMMA PartialNat ==
  ASSUME NEW f \in Seq(Nat)
  PROVE  /\ Partial(f) \in [0 .. Len(f) -> Nat]
         /\ \A m, n \in 0 .. Len(f) : m <= n => Partial(f)[m] <= Partial(f)[n]
<1>. DEFINE L == Len(f)  p == Partial(f)
<1>0. L \in Nat /\ \A n \in 1 .. L : f[n] \in Nat
  OBVIOUS
<1>1. f \in Seq(Int)
  OBVIOUS
<1>2. p \in [0 .. L -> Int] /\ p[0] = 0 /\ \A n \in 1 .. L : p[n] = p[n - 1] + f[n]
  BY <1>1, PartialDef
<1>. HIDE DEF L, p
<1>3. ASSUME NEW m \in 0 .. L PROVE \A n \in 0 .. L : m <= n => p[m] <= p[n]
  <2>. DEFINE T == {n \in 0 .. L : m <= n => p[m] <= p[n]}
  <2>1. 0 \in T
    BY <1>0, <1>2
  <2>2. ASSUME NEW n \in 0 .. L - 1, n \in T PROVE n + 1 \in T
    <3>1. n + 1 \in 1 .. L /\ n + 1 \in 0 .. L /\ n \in 0 .. L /\ (n + 1) - 1 = n
      BY <1>0
    <3>2. p[n + 1] = p[n] + f[n + 1] /\ f[n + 1] \in Nat
      BY <1>0, <1>2, <3>1
    <3>3. p[n] \in Int /\ p[m] \in Int /\ p[n + 1] \in Int
      BY <1>2, <3>1
    <3>4. CASE m = n + 1
      BY <3>1, <3>3, <3>4
    <3>5. CASE m <= n
      BY <2>2, <3>1, <3>2, <3>3, <3>5
    <3>. QED  BY <3>1, <3>4, <3>5
  <2>3. 0 .. L \subseteq T
    <3>. HIDE DEF T
    <3>. QED  BY <1>0, <2>1, <2>2, SetInduction
  <2>. QED  BY <2>3
<1>4. \A n \in 0 .. L : p[n] \in Nat
  <2>1. \A n \in 0 .. L : p[0] <= p[n] /\ p[n] \in Int
    BY <1>0, <1>2, <1>3
  <2>. QED  BY <1>2, <2>1
<1>. QED  BY <1>2, <1>3, <1>4 DEF L, p

\* The sum of zeros is zero.
LEMMA PartialZero ==
  ASSUME NEW f \in Seq(Int), NEW n \in 0 .. Len(f), \A i \in 1 .. n : f[i] = 0
  PROVE  Partial(f)[n] = 0
<1>. DEFINE p == Partial(f)
            T == {m \in 0 .. n : p[m] = 0}
<1>1. p \in [0 .. Len(f) -> Int] /\ p[0] = 0 /\ \A m \in 1 .. Len(f) : p[m] = p[m - 1] + f[m]
  BY PartialDef
<1>. HIDE DEF p
<1>2. 0 \in T
  BY <1>1
<1>3. ASSUME NEW m \in 0 .. n - 1, m \in T PROVE m + 1 \in T
  <2>1. m + 1 \in 1 .. n /\ m + 1 \in 1 .. Len(f) /\ (m + 1) - 1 = m
    OBVIOUS
  <2>2. p[m + 1] = p[m] + f[m + 1]
    BY <1>1, <2>1
  <2>. QED  BY <1>3, <2>1, <2>2
<1>4. n \in Nat
  OBVIOUS
<1>5. 0 .. n \subseteq T
  <2>. HIDE DEF T
  <2>. QED  BY <1>2, <1>3, <1>4, SetInduction
<1>. QED  BY <1>4, <1>5 DEF p

\* The partial sums of a prefix are those of the whole.
LEMMA PartialAgree ==
  ASSUME NEW f \in Seq(Int), NEW g \in Seq(Int), NEW n \in Nat,
         n <= Len(f), n <= Len(g), \A i \in 1 .. n : f[i] = g[i]
  PROVE  Partial(f)[n] = Partial(g)[n]
<1>. DEFINE p == Partial(f)  q == Partial(g)
            T == {m \in 0 .. n : p[m] = q[m]}
<1>1. /\ p[0] = 0 /\ \A m \in 1 .. Len(f) : p[m] = p[m - 1] + f[m]
      /\ q[0] = 0 /\ \A m \in 1 .. Len(g) : q[m] = q[m - 1] + g[m]
  BY PartialDef
<1>. HIDE DEF p, q
<1>2. 0 \in T
  BY <1>1
<1>3. ASSUME NEW m \in 0 .. n - 1, m \in T PROVE m + 1 \in T
  <2>1. m + 1 \in 1 .. n /\ m + 1 \in 1 .. Len(f) /\ m + 1 \in 1 .. Len(g) /\ (m + 1) - 1 = m
    OBVIOUS
  <2>2. p[m + 1] = p[m] + f[m + 1] /\ q[m + 1] = q[m] + g[m + 1]
    BY <1>1, <2>1
  <2>. QED  BY <1>3, <2>1, <2>2
<1>4. 0 .. n \subseteq T
  <2>. HIDE DEF T
  <2>. QED  BY <1>2, <1>3, SetInduction
<1>. QED  BY <1>4 DEF p, q

\* Nothing sums to zero.
LEMMA TotalEmpty == Total(<<>>) = 0
<1>1. <<>> \in Seq(Int) /\ Len(<<>>) = 0
  OBVIOUS
<1>. QED  BY <1>1, PartialDef DEF Total

\* The sum of a sequence of natural numbers is one.
LEMMA TotalType ==
  ASSUME NEW f \in Seq(Nat) PROVE Total(f) \in Nat
<1>1. Len(f) \in 0 .. Len(f)
  OBVIOUS
<1>. QED  BY <1>1, PartialNat DEF Total

\* Appending adds the new element to the sum.
LEMMA TotalAppend ==
  ASSUME NEW f \in Seq(Int), NEW x \in Int
  PROVE  Total(Append(f, x)) = Total(f) + x
<1>. DEFINE g == Append(f, x)
<1>1. g \in Seq(Int) /\ Len(g) = Len(f) + 1 /\ g[Len(f) + 1] = x /\ Len(f) \in Nat
      /\ \A i \in 1 .. Len(f) : f[i] = g[i]
  OBVIOUS
<1>. HIDE DEF g
<1>2. Partial(f)[Len(f)] = Partial(g)[Len(f)]
  <2>1. Len(f) <= Len(f) /\ Len(f) <= Len(g)
    BY <1>1
  <2>. QED  BY <1>1, <2>1, PartialAgree
<1>3. Len(f) + 1 \in 1 .. Len(g) /\ (Len(f) + 1) - 1 = Len(f)
  BY <1>1
<1>4. Partial(g)[Len(f) + 1] = Partial(g)[Len(f)] + g[Len(f) + 1]
  BY <1>1, <1>3, PartialDef
<1>. QED  BY <1>1, <1>2, <1>4 DEF Total, g

\* Taking the head off subtracts it from the sum.
LEMMA TotalTail ==
  ASSUME NEW f \in Seq(Int), f # <<>>
  PROVE  Total(f) = Head(f) + Total(Tail(f))
<1>. DEFINE g == Tail(f)  p == Partial(f)  q == Partial(g)  L == Len(g)
            T == {m \in 0 .. L : p[m + 1] = f[1] + q[m]}
<1>1. g \in Seq(Int) /\ L \in Nat /\ Len(f) = L + 1 /\ Head(f) = f[1] /\ f[1] \in Int
      /\ \A i \in 1 .. L : g[i] = f[i + 1] /\ f[i + 1] \in Int
  OBVIOUS
<1>2. /\ p \in [0 .. Len(f) -> Int]
      /\ p[0] = 0 /\ \A m \in 1 .. Len(f) : p[m] = p[m - 1] + f[m]
  BY PartialDef
<1>3. /\ q \in [0 .. L -> Int]
      /\ q[0] = 0 /\ \A m \in 1 .. L : q[m] = q[m - 1] + g[m]
  BY <1>1, PartialDef
<1>. HIDE DEF g, p, q, L
<1>4. 0 \in T
  <2>1. 1 \in 1 .. Len(f)
    BY <1>1
  <2>2. p[1] = p[0] + f[1]
    BY <1>2, <2>1
  <2>. QED  BY <1>1, <1>2, <1>3, <2>2
<1>5. ASSUME NEW m \in 0 .. L - 1, m \in T PROVE m + 1 \in T
  <2>1. m + 1 \in 1 .. L /\ (m + 1) + 1 \in 1 .. Len(f) /\ (m + 1) - 1 = m
        /\ ((m + 1) + 1) - 1 = m + 1 /\ m + 1 \in 0 .. L /\ m \in 0 .. L
    BY <1>1
  <2>2. p[(m + 1) + 1] = p[m + 1] + f[(m + 1) + 1] /\ q[m + 1] = q[m] + g[m + 1]
    BY <1>2, <1>3, <2>1
  <2>3. g[m + 1] = f[(m + 1) + 1] /\ q[m] \in Int /\ g[m + 1] \in Int
    BY <1>1, <1>3, <2>1
  <2>. QED  BY <1>1, <1>5, <2>1, <2>2, <2>3
<1>6. 0 .. L \subseteq T
  <2>. HIDE DEF T
  <2>. QED  BY <1>1, <1>4, <1>5, SetInduction
<1>7. L \in T
  BY <1>1, <1>6
<1>. QED  BY <1>1, <1>7 DEF Total, p, q, g, L
\* Two sequences that differ at one place only: so do their sums.
LEMMA TotalUpdate ==
  ASSUME NEW f \in Seq(Int), NEW g \in Seq(Int), Len(f) = Len(g), NEW j \in 1 .. Len(f),
         \A i \in 1 .. Len(f) : i # j => f[i] = g[i]
  PROVE  Total(g) = Total(f) + g[j] - f[j]
<1>. DEFINE p == Partial(f)  q == Partial(g)  L == Len(f)
            T == {m \in 0 .. L : q[m] = p[m] + (IF j <= m THEN g[j] - f[j] ELSE 0)}
<1>1. L \in Nat /\ j \in 1 .. L /\ f[j] \in Int /\ g[j] \in Int
      /\ \A m \in 1 .. L : f[m] \in Int /\ g[m] \in Int /\ (m # j => f[m] = g[m])
  OBVIOUS
<1>2. /\ p \in [0 .. L -> Int] /\ p[0] = 0 /\ \A m \in 1 .. L : p[m] = p[m - 1] + f[m]
      /\ q \in [0 .. L -> Int] /\ q[0] = 0 /\ \A m \in 1 .. L : q[m] = q[m - 1] + g[m]
  BY PartialDef
<1>. HIDE DEF p, q, L
<1>3. 0 \in T
  BY <1>1, <1>2
<1>4. ASSUME NEW m \in 0 .. L - 1, m \in T PROVE m + 1 \in T
  <2>1. m + 1 \in 1 .. L /\ m + 1 \in 0 .. L /\ m \in 0 .. L /\ (m + 1) - 1 = m
    BY <1>1
  <2>2. p[m + 1] = p[m] + f[m + 1] /\ q[m + 1] = q[m] + g[m + 1]
        /\ p[m] \in Int /\ q[m] \in Int /\ f[m + 1] \in Int /\ g[m + 1] \in Int
    BY <1>1, <1>2, <2>1
  <2>3. CASE m + 1 = j
    BY <1>1, <1>4, <2>1, <2>2, <2>3, SMTT(60)
  <2>4. CASE m + 1 # j
    <3>1. f[m + 1] = g[m + 1] /\ (j <= m + 1 <=> j <= m)
      BY <1>1, <2>1, <2>4
    <3>. QED  BY <1>1, <1>4, <2>1, <2>2, <3>1, SMTT(60)
  <2>. QED  BY <2>3, <2>4
<1>5. 0 .. L \subseteq T
  <2>. HIDE DEF T
  <2>. QED  BY <1>1, <1>3, <1>4, SetInduction
<1>6. L \in T /\ p[L] \in Int
  BY <1>1, <1>2, <1>5
<1>7. q[L] = p[L] + g[j] - f[j]
  BY <1>1, <1>6
<1>. QED  BY <1>7 DEF Total, p, q, L

\* Larger elements give larger sums.
LEMMA TotalMonotone ==
  ASSUME NEW f \in Seq(Int), NEW g \in Seq(Int), Len(f) = Len(g),
         \A i \in 1 .. Len(f) : f[i] <= g[i]
  PROVE  Total(f) <= Total(g)
<1>. DEFINE p == Partial(f)  q == Partial(g)  L == Len(f)
            T == {m \in 0 .. L : p[m] <= q[m]}
<1>1. L \in Nat /\ \A m \in 1 .. L : f[m] \in Int /\ g[m] \in Int /\ f[m] <= g[m]
  OBVIOUS
<1>2. /\ p \in [0 .. L -> Int] /\ p[0] = 0 /\ \A m \in 1 .. L : p[m] = p[m - 1] + f[m]
      /\ q \in [0 .. L -> Int] /\ q[0] = 0 /\ \A m \in 1 .. L : q[m] = q[m - 1] + g[m]
  BY PartialDef
<1>. HIDE DEF p, q, L
<1>3. 0 \in T
  BY <1>1, <1>2
<1>4. ASSUME NEW m \in 0 .. L - 1, m \in T PROVE m + 1 \in T
  <2>1. m + 1 \in 1 .. L /\ m + 1 \in 0 .. L /\ m \in 0 .. L /\ (m + 1) - 1 = m
    BY <1>1
  <2>2. p[m + 1] = p[m] + f[m + 1] /\ q[m + 1] = q[m] + g[m + 1]
        /\ p[m] \in Int /\ q[m] \in Int /\ f[m + 1] \in Int /\ g[m + 1] \in Int
        /\ f[m + 1] <= g[m + 1]
    BY <1>1, <1>2, <2>1
  <2>. QED  BY <1>4, <2>1, <2>2
<1>5. 0 .. L \subseteq T
  <2>. HIDE DEF T
  <2>. QED  BY <1>1, <1>3, <1>4, SetInduction
<1>6. L \in T
  BY <1>1, <1>5
<1>. QED  BY <1>6 DEF Total, p, q, L

\* A sum is that of a prefix and that of the rest.
LEMMA TotalDrop ==
  ASSUME NEW f \in Seq(Int), NEW k \in 0 .. Len(f), NEW g \in Seq(Int),
         Len(g) = Len(f) - k, \A i \in 1 .. Len(g) : g[i] = f[i + k]
  PROVE  Total(f) = Partial(f)[k] + Total(g)
<1>. DEFINE p == Partial(f)  q == Partial(g)  L == Len(g)
            T == {m \in 0 .. L : p[m + k] = p[k] + q[m]}
<1>1. L \in Nat /\ k \in Nat /\ Len(f) = L + k
      /\ \A m \in 1 .. L : g[m] \in Int /\ m + k \in 1 .. Len(f) /\ g[m] = f[m + k]
  OBVIOUS
<1>2. /\ p \in [0 .. Len(f) -> Int] /\ p[0] = 0
      /\ \A m \in 1 .. Len(f) : p[m] = p[m - 1] + f[m]
      /\ q \in [0 .. L -> Int] /\ q[0] = 0 /\ \A m \in 1 .. L : q[m] = q[m - 1] + g[m]
  BY PartialDef
<1>. HIDE DEF p, q, L
<1>3. 0 \in T
  <2>1. k \in 0 .. Len(f) /\ 0 + k = k
    BY <1>1
  <2>2. p[k] \in Int /\ p[0 + k] = p[k] + q[0]
    BY <1>2, <2>1, SMTT(60)
  <2>. QED  BY <1>1, <2>2
<1>4. ASSUME NEW m \in 0 .. L - 1, m \in T PROVE m + 1 \in T
  <2>1. m + 1 \in 1 .. L /\ m + 1 \in 0 .. L /\ m \in 0 .. L /\ (m + 1) - 1 = m
        /\ (m + 1) + k \in 1 .. Len(f) /\ ((m + 1) + k) - 1 = m + k /\ k \in 0 .. Len(f)
        /\ m + k \in 0 .. Len(f)
    BY <1>1
  <2>2. p[(m + 1) + k] = p[m + k] + f[(m + 1) + k] /\ q[m + 1] = q[m] + g[m + 1]
        /\ p[m + k] \in Int /\ p[k] \in Int /\ q[m] \in Int /\ g[m + 1] \in Int
        /\ f[(m + 1) + k] = g[m + 1]
    BY <1>1, <1>2, <2>1
  <2>3. p[m + k] = p[k] + q[m]
    BY <1>4
  <2>4. p[(m + 1) + k] = p[k] + q[m + 1]
    BY <2>2, <2>3
  <2>. QED  BY <2>1, <2>4
<1>5. 0 .. L \subseteq T
  <2>. HIDE DEF T
  <2>. QED  BY <1>1, <1>3, <1>4, SetInduction
<1>6. L \in T
  BY <1>1, <1>5
<1>. QED  BY <1>1, <1>6 DEF Total, p, q, L
=============================================================================
