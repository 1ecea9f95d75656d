----------------------- MODULE SessionPrograms_proofs -----------------------
(***************************************************************************)
(* What the programs of Session do, for any number of lanes, forks, chunks *)
(* and calls: which streams they set up and which messages they exchange,  *)
(* in which order.                                                         *)
(***************************************************************************)
EXTENDS Session, Sums_proofs, SequenceTheorems, FiniteSetTheorems

-----------------------------------------------------------------------------
(* Concatenation.  Cat keeps the provers from unfolding \o where only its  *)
(* laws matter.                                                            *)

Cat(s, t) == s \o t

\* Concatenation stays in the sequence type, adds lengths and keeps the elements of both parts.
LEMMA CatType ==
  ASSUME NEW T, NEW a \in Seq(T), NEW b \in Seq(T)
  PROVE  /\ Cat(a, b) \in Seq(T)
         /\ Len(Cat(a, b)) = Len(a) + Len(b)
         /\ \A i \in 1 .. Len(a) : Cat(a, b)[i] = a[i]
         /\ \A i \in 1 .. Len(b) : Cat(a, b)[Len(a) + i] = b[i]
  BY DEF Cat

\* The length of a concatenation, alone, for the steps that need no more.
LEMMA CatLen ==
  ASSUME NEW T, NEW a \in Seq(T), NEW b \in Seq(T)
  PROVE  Len(Cat(a, b)) = Len(a) + Len(b)
  BY DEF Cat

\* The empty sequence is neutral for concatenation.
LEMMA CatEmpty ==
  ASSUME NEW T, NEW a \in Seq(T)
  PROVE  Cat(a, <<>>) = a /\ Cat(<<>>, a) = a
  BY ConcatEmptySeq DEF Cat

\* Concatenations of sequences of at most one element, written out.
LEMMA CatSmall ==
  /\ Cat(<<>>, <<>>) = <<>>
  /\ \A x, y : Cat(<<x>>, <<y>>) = <<x, y>> /\ Cat(<<>>, <<x>>) = <<x>> /\ Cat(<<x>>, <<>>) = <<x>>
<1>1. \A x : <<x>> \in Seq({x}) /\ <<>> \in Seq({x})
  OBVIOUS
<1>2. ASSUME NEW x, NEW y PROVE Cat(<<x>>, <<y>>) = <<x, y>>
  <2>1. <<x>> \in Seq({x, y}) /\ <<x, y>> = Append(<<x>>, y)
    OBVIOUS
  <2>. QED  BY <2>1, AppendIsConcat DEF Cat
<1>. QED  BY <1>1, <1>2, CatEmpty

\* Concatenation is associative.
LEMMA CatAssociative ==
  ASSUME NEW T, NEW a \in Seq(T), NEW b \in Seq(T), NEW c \in Seq(T)
  PROVE  Cat(Cat(a, b), c) = Cat(a, Cat(b, c))
  BY ConcatAssociative DEF Cat

\* Appending commutes with concatenation on the left.
LEMMA CatAppend ==
  ASSUME NEW T, NEW a \in Seq(T), NEW b \in Seq(T), NEW x \in T
  PROVE  Cat(a, Append(b, x)) = Append(Cat(a, b), x)
<1>1. Append(b, x) = Cat(b, <<x>>) /\ <<x>> \in Seq(T)
  BY AppendIsConcat DEF Cat
<1>2. Cat(a, b) \in Seq(T)
  BY CatType
<1>3. Append(Cat(a, b), x) = Cat(Cat(a, b), <<x>>)
  BY <1>2, AppendIsConcat DEF Cat
<1>4. Cat(Cat(a, b), <<x>>) = Cat(a, Cat(b, <<x>>))
  <2>1. \A c \in Seq(T) : Cat(Cat(a, b), c) = Cat(a, Cat(b, c))
    BY CatAssociative
  <2>. QED  BY ONLY <1>1, <2>1
<1>. QED  BY ONLY <1>1, <1>3, <1>4

-----------------------------------------------------------------------------
(* Concatenating the members of a sequence of sequences *)

\* FlattenSeq concatenates from the left.
LEMMA FlattenDef ==
  ASSUME NEW T, NEW ss \in Seq(Seq(T))
  PROVE  \E fl \in [0 .. Len(ss) -> Seq(T)] :
            /\ fl[0] = <<>>
            /\ \A n \in 1 .. Len(ss) : fl[n] = Cat(fl[n - 1], ss[n])
            /\ FlattenSeq(ss) = fl[Len(ss)]
<1>. DEFINE D == Seq(T)
            L == Len(ss)
            Flats(n) == {g \in [0 .. n -> D] :
                           g[0] = <<>> /\ \A i \in 1 .. n : g[i] = Cat(g[i - 1], ss[i])}
            S == {n \in 0 .. L : Flats(n) # {}}
<1>0. L \in Nat /\ <<>> \in D /\ (\A n \in 1 .. L : ss[n] \in D)
  BY EmptySeq
<1>a. L = 0 => ss = <<>>
  BY EmptySeq
<1>b. \A s \in D, t \in D : Cat(s, t) \in D
  BY CatType
<1>c. \A s \in D : Cat(<<>>, s) = s
  BY CatEmpty
<1>d. FlattenSeq(ss) = IF L = 0 THEN ss
        ELSE (CHOOSE f : f = [i \in 1 .. L |-> IF i = 1 THEN ss[i] ELSE Cat(f[i - 1], ss[i])])[L]
  BY DEF FlattenSeq, Cat
<1>. SUFFICES \E fl \in [0 .. L -> D] :
            /\ fl[0] = <<>>
            /\ \A n \in 1 .. L : fl[n] = Cat(fl[n - 1], ss[n])
            /\ FlattenSeq(ss) = fl[L]
  OBVIOUS
<1>. HIDE DEF L, D
<1>1. 0 \in S
  <2>1. [i \in 0 .. 0 |-> <<>>] \in Flats(0)
    BY <1>0
  <2>. QED  BY <1>0, <2>1
<1>2. ASSUME NEW m \in 0 .. L - 1, m \in S PROVE m + 1 \in S
  <2>1. PICK g : g \in Flats(m)
    BY <1>2
  <2>. DEFINE h == [i \in 0 .. m + 1 |-> IF i = m + 1 THEN Cat(g[m], ss[m + 1]) ELSE g[i]]
  <2>0. m + 1 \in 1 .. L /\ m \in 0 .. m /\ g[m] \in D /\ ss[m + 1] \in D
    BY <1>0, <2>1
  <2>2. h \in Flats(m + 1)
    <3>1. h \in [0 .. m + 1 -> D]
      BY <1>0, <1>b, <2>0, <2>1
    <3>2. h[0] = <<>>
      BY <2>1
    <3>3. ASSUME NEW i \in 1 .. m + 1 PROVE h[i] = Cat(h[i - 1], ss[i])
      BY <2>1
    <3>. QED  BY <3>1, <3>2, <3>3
  <2>3. m + 1 \in 0 .. L
    BY <1>0
  <2>. QED  BY <2>2, <2>3
<1>3. L \in S
  <2>. HIDE DEF S
  <2>1. \A m \in 0 .. L - 1 : m \in S => m + 1 \in S
    BY <1>2
  <2>2. 0 .. L \subseteq S
    BY <1>0, <1>1, <2>1, SetInduction
  <2>. QED  BY <1>0, <2>2
<1>4. PICK g : g \in Flats(L)
  BY <1>3
<1>5. CASE L = 0
  BY <1>a, <1>d, <1>4, <1>5
<1>6. CASE L # 0
  <2>. DEFINE Body(f) == [i \in 1 .. L |-> IF i = 1 THEN ss[i] ELSE Cat(f[i - 1], ss[i])]
              r == [i \in 1 .. L |-> g[i]]
  <2>1. r = Body(r)
    <3>1. ASSUME NEW i \in 1 .. L PROVE g[i] = IF i = 1 THEN ss[i] ELSE Cat(r[i - 1], ss[i])
      <4>1. g[i] = Cat(g[i - 1], ss[i]) /\ g[0] = <<>>
        BY <1>4
      <4>2. Cat(<<>>, ss[i]) = ss[i]
        BY <1>0, <1>c
      <4>. QED  BY <1>0, <4>1, <4>2
    <3>. QED  BY <3>1
  <2>2. FlattenSeq(ss) = (CHOOSE f : f = Body(f))[L]
    BY <1>d, <1>6
  <2>. DEFINE f == CHOOSE f : f = Body(f)
  <2>3. f = Body(f)
    BY <2>1
  <2>. HIDE DEF f, r
  <2>4. \A i \in 1 .. L : f[i] = IF i = 1 THEN ss[i] ELSE Cat(f[i - 1], ss[i])
    <3>1. \A i \in 1 .. L : Body(f)[i] = IF i = 1 THEN ss[i] ELSE Cat(f[i - 1], ss[i])
      OBVIOUS
    <3>. QED  BY <2>3, <3>1
  <2>. HIDE DEF Body
  <2>. DEFINE U == {n \in 0 .. L : n = 0 \/ f[n] = g[n]}
  <2>5. 0 \in U
    BY <1>0
  <2>6. ASSUME NEW m \in 0 .. L - 1, m \in U PROVE m + 1 \in U
    <3>1. m + 1 \in 1 .. L /\ (m + 1) - 1 = m
      BY <1>0
    <3>2. g[m + 1] = Cat(g[m], ss[m + 1]) /\ g[0] = <<>>
      BY <1>4, <3>1
    <3>3. Cat(<<>>, ss[m + 1]) = ss[m + 1]
      BY <1>0, <1>c, <3>1
    <3>4. f[m + 1] = IF m + 1 = 1 THEN ss[m + 1] ELSE Cat(f[m], ss[m + 1])
      BY <2>4, <3>1
    <3>5. CASE m = 0
      BY <3>1, <3>2, <3>3, <3>4, <3>5
    <3>6. CASE m # 0
      BY <2>6, <3>1, <3>2, <3>4, <3>6
    <3>. QED  BY <3>5, <3>6
  <2>7. L \in U
    <3>. HIDE DEF U
    <3>1. \A m \in 0 .. L - 1 : m \in U => m + 1 \in U
      BY <2>6
    <3>2. 0 .. L \subseteq U
      BY <1>0, <2>5, <3>1, SetInduction
    <3>. QED  BY <1>0, <3>2
  <2>8. FlattenSeq(ss) = g[L]
    BY <1>6, <2>2, <2>7 DEF f
  <2>. QED  BY <1>4, <2>8
<1>. QED  BY <1>5, <1>6

\* Flattening a list of sequences over T gives a sequence over T.
LEMMA FlattenType ==
  ASSUME NEW T, NEW ss \in Seq(Seq(T)) PROVE FlattenSeq(ss) \in Seq(T)
<1>. DEFINE D == Seq(T)
<1>1. Len(ss) \in Nat
  OBVIOUS
<1>2. \E fl \in [0 .. Len(ss) -> D] : FlattenSeq(ss) = fl[Len(ss)]
  BY FlattenDef
<1>. HIDE DEF D
<1>3. FlattenSeq(ss) \in D
  BY <1>1, <1>2
<1>. QED  BY <1>3 DEF D

\* Flattening no sequence at all gives the empty one.
LEMMA FlattenEmpty == FlattenSeq(<<>>) = <<>>
  BY DEF FlattenSeq

\* What a longer sequence adds comes at the end.
LEMMA FlattenAppend ==
  ASSUME NEW T, NEW ss \in Seq(Seq(T)), NEW x \in Seq(T)
  PROVE  FlattenSeq(Append(ss, x)) = Cat(FlattenSeq(ss), x)
<1>. DEFINE D == Seq(T)  tt == Append(ss, x)  L == Len(ss)
<1>0. tt \in Seq(Seq(T))
  OBVIOUS
<1>1. Len(tt) = L + 1 /\ tt[L + 1] = x /\ L \in Nat /\ \A i \in 1 .. L : tt[i] = ss[i]
  OBVIOUS
<1>2. \E f \in [0 .. L -> D] :
            /\ f[0] = <<>>
            /\ \A n \in 1 .. L : f[n] = Cat(f[n - 1], ss[n])
            /\ FlattenSeq(ss) = f[L]
  BY FlattenDef
<1>. HIDE DEF tt
<1>3. \E g \in [0 .. Len(tt) -> D] :
            /\ g[0] = <<>>
            /\ \A n \in 1 .. Len(tt) : g[n] = Cat(g[n - 1], tt[n])
            /\ FlattenSeq(tt) = g[Len(tt)]
  BY <1>0, FlattenDef
<1>. HIDE DEF L, D
<1>4. PICK f \in [0 .. L -> D] :
            /\ f[0] = <<>>
            /\ \A n \in 1 .. L : f[n] = Cat(f[n - 1], ss[n])
            /\ FlattenSeq(ss) = f[L]
  BY <1>2
<1>5. PICK g \in [0 .. L + 1 -> D] :
            /\ g[0] = <<>>
            /\ \A n \in 1 .. L + 1 : g[n] = Cat(g[n - 1], tt[n])
            /\ FlattenSeq(tt) = g[L + 1]
  BY <1>1, <1>3
<1>. DEFINE U == {n \in 0 .. L : f[n] = g[n]}
<1>6. 0 \in U
  BY <1>1, <1>4, <1>5
<1>7. ASSUME NEW m \in 0 .. L - 1, m \in U PROVE m + 1 \in U
  <2>1. m + 1 \in 1 .. L /\ m + 1 \in 1 .. L + 1 /\ (m + 1) - 1 = m
    BY <1>1
  <2>2. f[m + 1] = Cat(f[m], ss[m + 1]) /\ g[m + 1] = Cat(g[m], tt[m + 1])
    BY <1>4, <1>5, <2>1
  <2>. QED  BY <1>1, <1>7, <2>1, <2>2
<1>8. L \in U
  <2>. HIDE DEF U
  <2>1. \A m \in 0 .. L - 1 : m \in U => m + 1 \in U
    BY <1>7
  <2>2. 0 .. L \subseteq U
    BY <1>1, <1>6, <2>1, SetInduction
  <2>. QED  BY <1>1, <2>2
<1>9. g[L + 1] = Cat(g[L], tt[L + 1])
  <2>1. L + 1 \in 1 .. L + 1 /\ (L + 1) - 1 = L
    BY <1>1
  <2>. QED  BY <1>5, <2>1
<1>. QED  BY <1>1, <1>4, <1>5, <1>8, <1>9 DEF tt

\* One more element of a prefix.
LEMMA PrefixStep ==
  ASSUME NEW T, NEW s \in Seq(T), NEW n \in 0 .. Len(s) - 1
  PROVE  /\ SubSeq(s, 1, n) \in Seq(T) /\ Len(SubSeq(s, 1, n)) = n
         /\ SubSeq(s, 1, n + 1) = Append(SubSeq(s, 1, n), s[n + 1])
         /\ s[n + 1] \in T
<1>1. n + 1 \in 1 .. Len(s) /\ 1 \in 1 .. Len(s) /\ (n + 1) - 1 = n /\ n \in Nat /\ n <= Len(s)
  OBVIOUS
<1>2. SubSeq(s, 1, n + 1) = SubSeq(s, 1, n) \o <<s[n + 1]>>
  BY <1>1, SubSeqRecursiveSecond
<1>3. SubSeq(s, 1, n) \in Seq(T) /\ Len(SubSeq(s, 1, n)) = n /\ s[n + 1] \in T
  BY <1>1
<1>. QED  BY <1>2, <1>3, AppendIsConcat

\* The longest and the shortest prefix of a sequence.
LEMMA PrefixWhole ==
  ASSUME NEW T, NEW s \in Seq(T)
  PROVE  SubSeq(s, 1, Len(s)) = s /\ SubSeq(s, 1, 0) = <<>> /\ Len(s) \in Nat
  BY SubSeqFull, SubSeqEmpty

\* Flattening distributes over concatenation.
LEMMA FlattenConcat ==
  ASSUME NEW T, NEW ss \in Seq(Seq(T)), NEW tt \in Seq(Seq(T))
  PROVE  FlattenSeq(Cat(ss, tt)) = Cat(FlattenSeq(ss), FlattenSeq(tt))
<1>. DEFINE D == Seq(T)
            P(n) == SubSeq(tt, 1, n)
            L == Len(tt)
            U == {n \in 0 .. L : FlattenSeq(Cat(ss, P(n))) = Cat(FlattenSeq(ss), FlattenSeq(P(n)))}
<1>1. P(L) = tt /\ P(0) = <<>> /\ L \in Nat
  BY PrefixWhole
<1>2. FlattenSeq(ss) \in D /\ Cat(ss, <<>>) = ss /\ FlattenSeq(<<>>) = <<>>
  BY FlattenType, FlattenEmpty, CatEmpty
<1>3. Cat(FlattenSeq(ss), <<>>) = FlattenSeq(ss)
  BY <1>2, CatEmpty
<1>4. ASSUME NEW m \in 0 .. L - 1
      PROVE  /\ FlattenSeq(Cat(ss, P(m + 1))) = Cat(FlattenSeq(Cat(ss, P(m))), tt[m + 1])
             /\ Cat(Cat(FlattenSeq(ss), FlattenSeq(P(m))), tt[m + 1])
                  = Cat(FlattenSeq(ss), FlattenSeq(P(m + 1)))
  <2>. DEFINE x == tt[m + 1]
  <2>1. P(m) \in Seq(D) /\ P(m + 1) = Append(P(m), x) /\ x \in D
    BY PrefixStep
  <2>. HIDE DEF P, x, L
  <2>2. Cat(ss, P(m)) \in Seq(D)
    BY <2>1, CatType
  <2>3. Cat(ss, Append(P(m), x)) = Append(Cat(ss, P(m)), x)
    <3>1. ss \in Seq(D)
      OBVIOUS
    <3>. HIDE DEF D
    <3>2. P(m) \in Seq(D) /\ x \in D
      BY ONLY <2>1
    <3>. QED  BY ONLY <3>1, <3>2, CatAppend
  <2>4. FlattenSeq(Append(Cat(ss, P(m)), x)) = Cat(FlattenSeq(Cat(ss, P(m))), x)
    BY <2>1, <2>2, FlattenAppend
  <2>5. FlattenSeq(Append(P(m), x)) = Cat(FlattenSeq(P(m)), x)
    BY <2>1, FlattenAppend
  <2>6. FlattenSeq(P(m)) \in D
    BY <2>1, FlattenType
  <2>7. Cat(Cat(FlattenSeq(ss), FlattenSeq(P(m))), x) = Cat(FlattenSeq(ss), Cat(FlattenSeq(P(m)), x))
    BY <1>2, <2>1, <2>6, CatAssociative
  <2>. QED  BY ONLY <2>1, <2>3, <2>4, <2>5, <2>7 DEF x
<1>. HIDE DEF P, L
<1>5. 0 \in U
  BY ONLY <1>1, <1>2, <1>3
<1>6. ASSUME NEW m \in 0 .. L - 1, m \in U PROVE m + 1 \in U
  <2>1. m + 1 \in 0 .. L
    BY <1>1
  <2>. QED  BY ONLY <1>4, <1>6, <2>1
<1>7. L \in U
  <2>. HIDE DEF U
  <2>1. \A m \in 0 .. L - 1 : m \in U => m + 1 \in U
    BY <1>6
  <2>2. 0 .. L \subseteq U
    BY ONLY <1>1, <1>5, <2>1, SetInduction
  <2>. QED  BY ONLY <1>1, <2>2
<1>. QED  BY ONLY <1>1, <1>7

-----------------------------------------------------------------------------
(* What the calls of a program do one after the other: f gives for each    *)
(* call the sequence of what it does.                                      *)

Traces(O, T) == [O -> Seq(T)]
Hist(f, s) == FlattenSeq([i \in 1 .. Len(s) |-> f[s[i]]])

\* What one operation contributes is a sequence.
LEMMA TraceType ==
  ASSUME NEW O, NEW T, NEW f \in Traces(O, T), NEW op \in O PROVE f[op] \in Seq(T)
  BY DEF Traces

\* The history of a list of operations is a sequence of what they contribute.
LEMMA HistType ==
  ASSUME NEW O, NEW T, NEW f \in Traces(O, T), NEW s \in Seq(O)
  PROVE  [i \in 1 .. Len(s) |-> f[s[i]]] \in Seq(Seq(T)) /\ Hist(f, s) \in Seq(T)
<1>. DEFINE D == Seq(T)  h == [i \in 1 .. Len(s) |-> f[s[i]]]
<1>1. h \in Seq(D)
  <2>. HIDE DEF D
  <2>1. f \in [O -> D]
    BY DEF D, Traces
  <2>. QED  BY ONLY <2>1, s \in Seq(O)
<1>. QED  BY <1>1, FlattenType DEF Hist

\* No operation, no history.
LEMMA HistEmpty == ASSUME NEW f PROVE Hist(f, <<>>) = <<>>
<1>1. [i \in 1 .. Len(<<>>) |-> f[<<>>[i]]] = <<>>
  OBVIOUS
<1>. QED  BY ONLY <1>1, FlattenEmpty DEF Hist

\* One more operation extends the history by what it contributes.
LEMMA HistAppend ==
  ASSUME NEW O, NEW T, NEW f \in Traces(O, T), NEW s \in Seq(O), NEW op \in O
  PROVE  Hist(f, Append(s, op)) = Cat(Hist(f, s), f[op])
<1>. DEFINE D == Seq(T)
            g == [i \in 1 .. Len(s) |-> f[s[i]]]
            h == [i \in 1 .. Len(Append(s, op)) |-> f[Append(s, op)[i]]]
<1>1. g \in Seq(D) /\ f[op] \in D
  BY HistType, TraceType
<1>2. h = Append(g, f[op])
  <2>. HIDE DEF D
  <2>1. Append(s, op) \in Seq(O) /\ Len(Append(s, op)) = Len(s) + 1 /\ Len(s) \in Nat
        /\ Append(s, op)[Len(s) + 1] = op /\ \A i \in 1 .. Len(s) : Append(s, op)[i] = s[i]
    OBVIOUS
  <2>2. DOMAIN h = 1 .. Len(s) + 1
    BY ONLY <2>1
  <2>3. DOMAIN Append(g, f[op]) = 1 .. Len(s) + 1 /\ Len(g) = Len(s)
    BY ONLY <2>1, <1>1
  <2>4. ASSUME NEW i \in 1 .. Len(s) + 1 PROVE h[i] = Append(g, f[op])[i]
    <3>1. CASE i = Len(s) + 1
      BY ONLY <2>1, <1>1, <2>3, <3>1
    <3>2. CASE i \in 1 .. Len(s)
      BY ONLY <2>1, <1>1, <2>3, <3>2
    <3>. QED  BY ONLY <2>1, <3>1, <3>2, i \in 1 .. Len(s) + 1
  <2>. HIDE DEF g
  <2>5. h = [i \in 1 .. Len(s) + 1 |-> h[i]]
    BY ONLY <2>2
  <2>6. Append(g, f[op]) = [i \in 1 .. Len(s) + 1 |-> Append(g, f[op])[i]]
    BY ONLY <1>1, <2>3
  <2>. HIDE DEF h
  <2>. QED  BY ONLY <2>4, <2>5, <2>6
<1>3. FlattenSeq(Append(g, f[op])) = Cat(FlattenSeq(g), f[op])
  BY <1>1, FlattenAppend
<1>. QED  BY ONLY <1>2, <1>3 DEF Hist

\* The history of one operation is what it contributes.
LEMMA HistSingle ==
  ASSUME NEW O, NEW T, NEW f \in Traces(O, T), NEW op \in O
  PROVE  Hist(f, <<op>>) = f[op]
<1>1. <<op>> = Append(<<>>, op) /\ <<>> \in Seq(O) /\ f[op] \in Seq(T)
  BY TraceType
<1>2. Hist(f, Append(<<>>, op)) = Cat(Hist(f, <<>>), f[op])
  BY <1>1, HistAppend
<1>. QED  BY ONLY <1>1, <1>2, HistEmpty, CatEmpty

\* The history of two programs run in a row is the concatenation of their histories.
LEMMA HistConcat ==
  ASSUME NEW O, NEW T, NEW f \in Traces(O, T), NEW a \in Seq(O), NEW b \in Seq(O)
  PROVE  Hist(f, Cat(a, b)) = Cat(Hist(f, a), Hist(f, b))
<1>. DEFINE P(n) == SubSeq(b, 1, n)
            L == Len(b)
            U == {n \in 0 .. L : Hist(f, Cat(a, P(n))) = Cat(Hist(f, a), Hist(f, P(n)))}
<1>1. P(L) = b /\ P(0) = <<>> /\ L \in Nat
  BY PrefixWhole
<1>2. Cat(Hist(f, a), <<>>) = Hist(f, a) /\ Cat(a, <<>>) = a
  <2>1. Hist(f, a) \in Seq(T)
    BY HistType
  <2>. QED  BY ONLY <2>1, a \in Seq(O), CatEmpty
<1>3. ASSUME NEW m \in 0 .. L - 1
      PROVE  /\ Hist(f, Cat(a, P(m + 1))) = Cat(Hist(f, Cat(a, P(m))), f[b[m + 1]])
             /\ Cat(Cat(Hist(f, a), Hist(f, P(m))), f[b[m + 1]]) = Cat(Hist(f, a), Hist(f, P(m + 1)))
  <2>. DEFINE x == b[m + 1]
  <2>1. P(m) \in Seq(O) /\ P(m + 1) = Append(P(m), x) /\ x \in O
    BY PrefixStep
  <2>. HIDE DEF P, x, L
  <2>2. Cat(a, P(m)) \in Seq(O) /\ Cat(a, Append(P(m), x)) = Append(Cat(a, P(m)), x)
    BY <2>1, CatType, CatAppend
  <2>3. Hist(f, Append(Cat(a, P(m)), x)) = Cat(Hist(f, Cat(a, P(m))), f[x])
    BY <2>1, <2>2, HistAppend
  <2>4. Hist(f, Append(P(m), x)) = Cat(Hist(f, P(m)), f[x])
    BY <2>1, HistAppend
  <2>5. Hist(f, P(m)) \in Seq(T) /\ Hist(f, a) \in Seq(T) /\ f[x] \in Seq(T)
    BY <2>1, HistType, TraceType
  <2>6. Cat(Cat(Hist(f, a), Hist(f, P(m))), f[x]) = Cat(Hist(f, a), Cat(Hist(f, P(m)), f[x]))
    BY ONLY <2>5, CatAssociative
  <2>. QED  BY ONLY <2>1, <2>2, <2>3, <2>4, <2>6 DEF x
<1>. HIDE DEF P, L
<1>4. 0 \in U
  BY ONLY <1>1, <1>2, HistEmpty
<1>5. ASSUME NEW m \in 0 .. L - 1, m \in U PROVE m + 1 \in U
  <2>1. m + 1 \in 0 .. L
    BY <1>1
  <2>. QED  BY ONLY <1>3, <1>5, <2>1
<1>6. L \in U
  <2>. HIDE DEF U
  <2>1. \A m \in 0 .. L - 1 : m \in U => m + 1 \in U
    BY <1>5
  <2>2. 0 .. L \subseteq U
    BY ONLY <1>1, <1>4, <2>1, SetInduction
  <2>. QED  BY ONLY <1>1, <2>2
<1>. QED  BY ONLY <1>1, <1>6

Lists(T) == Seq(Seq(T))

\* Of programs in a row: one after the other.
LEMMA HistFlatten ==
  ASSUME NEW O, NEW T, NEW f \in Traces(O, T), NEW ps \in Lists(O),
         NEW h \in Lists(T), Len(h) = Len(ps), \A i \in 1 .. Len(ps) : h[i] = Hist(f, ps[i])
  PROVE  Hist(f, FlattenSeq(ps)) = FlattenSeq(h)
<1>. DEFINE C == Seq(O)  D == Seq(T)
            P(n) == SubSeq(ps, 1, n)  H(n) == SubSeq(h, 1, n)
            L == Len(ps)
            U == {n \in 0 .. L : Hist(f, FlattenSeq(P(n))) = FlattenSeq(H(n))}
<1>0. ps \in Seq(C) /\ h \in Seq(D)
  BY DEF Lists
<1>1. P(L) = ps /\ P(0) = <<>> /\ H(L) = h /\ H(0) = <<>> /\ L \in Nat
  BY <1>0, PrefixWhole
<1>2. ASSUME NEW m \in 0 .. L - 1, Hist(f, FlattenSeq(P(m))) = FlattenSeq(H(m))
      PROVE  Hist(f, FlattenSeq(P(m + 1))) = FlattenSeq(H(m + 1))
  <2>. DEFINE x == ps[m + 1]  y == h[m + 1]
  <2>1. P(m) \in Seq(C) /\ P(m + 1) = Append(P(m), x) /\ x \in C
    BY <1>0, PrefixStep
  <2>2. H(m) \in Seq(D) /\ H(m + 1) = Append(H(m), y) /\ y \in D
    BY <1>0, PrefixStep
  <2>3. y = Hist(f, x)
    OBVIOUS
  <2>. HIDE DEF P, H, x, y, L
  <2>4. FlattenSeq(Append(P(m), x)) = Cat(FlattenSeq(P(m)), x) /\ FlattenSeq(P(m)) \in C
    BY <2>1, FlattenAppend, FlattenType
  <2>5. FlattenSeq(Append(H(m), y)) = Cat(FlattenSeq(H(m)), y)
    BY <2>2, FlattenAppend
  <2>6. Hist(f, Cat(FlattenSeq(P(m)), x)) = Cat(Hist(f, FlattenSeq(P(m))), Hist(f, x))
    <3>1. FlattenSeq(P(m)) \in Seq(O) /\ x \in Seq(O)
      BY ONLY <2>1, <2>4
    <3>. QED  BY ONLY <3>1, f \in Traces(O, T), HistConcat
  <2>. QED  BY ONLY <1>2, <2>1, <2>2, <2>3, <2>4, <2>5, <2>6
<1>. HIDE DEF P, H, L, C, D
<1>3. 0 \in U
  BY ONLY <1>1, HistEmpty, FlattenEmpty
<1>4. ASSUME NEW m \in 0 .. L - 1, m \in U PROVE m + 1 \in U
  <2>1. m + 1 \in 0 .. L
    BY <1>1
  <2>. QED  BY ONLY <1>2, <1>4, <2>1
<1>5. L \in U
  <2>. HIDE DEF U
  <2>1. \A m \in 0 .. L - 1 : m \in U => m + 1 \in U
    BY <1>4
  <2>2. 0 .. L \subseteq U
    BY ONLY <1>1, <1>3, <2>1, SetInduction
  <2>. QED  BY ONLY <1>1, <2>2
<1>. QED  BY ONLY <1>1, <1>5

\* Calls that do nothing leave no trace.
LEMMA HistSilent ==
  ASSUME NEW O, NEW T, NEW f \in Traces(O, T), NEW Q \in SUBSET O, NEW s \in Seq(Q),
         \A op \in Q : f[op] = <<>>
  PROVE  Hist(f, s) = <<>>
<1>. DEFINE P(n) == SubSeq(s, 1, n)
            L == Len(s)
            U == {n \in 0 .. L : Hist(f, P(n)) = <<>>}
<1>1. P(L) = s /\ P(0) = <<>> /\ L \in Nat
  BY PrefixWhole
<1>2. ASSUME NEW m \in 0 .. L - 1, Hist(f, P(m)) = <<>>
      PROVE  Hist(f, P(m + 1)) = <<>>
  <2>. DEFINE x == s[m + 1]
  <2>1. P(m) \in Seq(Q) /\ P(m + 1) = Append(P(m), x) /\ x \in Q
    BY PrefixStep
  <2>. HIDE DEF P, x, L
  <2>2. P(m) \in Seq(O) /\ x \in O /\ f[x] = <<>> /\ <<>> \in Seq(T)
    BY <2>1, SeqMonotonic
  <2>3. Hist(f, Append(P(m), x)) = Cat(Hist(f, P(m)), f[x])
    BY <2>2, HistAppend
  <2>. QED  BY ONLY <1>2, <2>1, <2>2, <2>3, CatEmpty
<1>. HIDE DEF P, L
<1>3. 0 \in U
  BY ONLY <1>1, HistEmpty
<1>4. ASSUME NEW m \in 0 .. L - 1, m \in U PROVE m + 1 \in U
  <2>1. m + 1 \in 0 .. L
    BY <1>1
  <2>. QED  BY ONLY <1>2, <1>4, <2>1
<1>5. L \in U
  <2>. HIDE DEF U
  <2>1. \A m \in 0 .. L - 1 : m \in U => m + 1 \in U
    BY <1>4
  <2>2. 0 .. L \subseteq U
    BY ONLY <1>1, <1>3, <2>1, SetInduction
  <2>. QED  BY ONLY <1>1, <2>2
<1>. QED  BY ONLY <1>1, <1>5

\* The history of two operations.
LEMMA HistTwo ==
  ASSUME NEW O, NEW T, NEW f \in Traces(O, T), NEW a \in O, NEW b \in O
  PROVE  Hist(f, <<a, b>>) = Cat(f[a], f[b])
<1>1. <<a, b>> = Append(<<a>>, b) /\ <<a>> \in Seq(O)
  OBVIOUS
<1>2. Hist(f, Append(<<a>>, b)) = Cat(Hist(f, <<a>>), f[b])
  BY ONLY <1>1, f \in Traces(O, T), b \in O, HistAppend
<1>3. Hist(f, <<a>>) = f[a]
  BY HistSingle
<1>. QED  BY ONLY <1>1, <1>2, <1>3

\* Flattening a list of one sequence.
LEMMA FlattenSingle ==
  ASSUME NEW T, NEW a \in Seq(T) PROVE FlattenSeq(<<a>>) = a
<1>. DEFINE D == Seq(T)
<1>1. <<a>> = Append(<<>>, a) /\ <<>> \in Seq(D) /\ a \in D
  OBVIOUS
<1>2. FlattenSeq(Append(<<>>, a)) = Cat(FlattenSeq(<<>>), a)
  BY ONLY <1>1, FlattenAppend
<1>. QED  BY <1>1, <1>2, FlattenEmpty, CatEmpty

\* Flattening a list of two sequences.
LEMMA FlattenTwo ==
  ASSUME NEW T, NEW a \in Seq(T), NEW b \in Seq(T)
  PROVE  FlattenSeq(<<a, b>>) = Cat(a, b)
<1>. DEFINE D == Seq(T)
<1>1. <<a, b>> = Append(<<a>>, b) /\ <<a>> \in Seq(D) /\ b \in D
  OBVIOUS
<1>2. FlattenSeq(Append(<<a>>, b)) = Cat(FlattenSeq(<<a>>), b)
  BY ONLY <1>1, FlattenAppend
<1>. QED  BY <1>1, <1>2, FlattenSingle

-----------------------------------------------------------------------------
(* The calls of the workers *)

LaneSet == 0 .. LANES - 1
Tags == {<<"sync">>} \cup ({"alpha2", "s20", "s12"} \X Nat) \cup (Nat \X Nat \X Nat)
Parallel == {c \in DOMAIN CALLS : NumChunks(CALLS[c].len) > 1}

ChanOps(p) ==
  ({"open_bi", "read_id"} \X {q \in Workers : q < p} \X LaneSet)
    \cup ({"accept_bi"} \X {q \in Workers : q > p} \X LaneSet)
SetupOps ==
  ({"dial", "greet"} \X Procs \X LaneSet)
    \cup {<<"accept">>, <<"identify">>, <<"open_coordinator">>}
RngOps == {<<"prf_send">>, <<"prf_recv">>, <<"bitcomp_send">>, <<"bitcomp_recv">>}
StarOps == {<<"recv_c">>, <<"send_c">>}
MsgOps(p) == {"send", "recv"} \X (Workers \ {p}) \X {0, -1} \X Tags
ParOps == {"par"} \X Parallel
ShutOps(p) ==
  ({"done", "wait_done"} \X (Workers \ {p}) \X LaneSet)
    \cup {<<"done", Coordinator, 0>>}

NewOps(p) == SetupOps \cup ChanOps(p)
ForkOps(p) == {<<"fork_rngs">>} \cup ChanOps(p)
WorkOps(p) == StarOps \cup MsgOps(p) \cup ParOps
AnyChanOps == {"open_bi", "read_id", "accept_bi"} \X Workers \X LaneSet
AnyMsgOps == {"send", "recv"} \X Workers \X {0, -1} \X Tags
AnyShutOps == {"done", "wait_done"} \X Procs \X LaneSet
Ops ==
  SetupOps \cup AnyChanOps \cup RngOps \cup StarOps \cup AnyMsgOps \cup ParOps \cup AnyShutOps
    \cup {<<"fork_rngs">>, <<"drop">>, <<"close">>}

\* The parameters of a session, as SessionAssumption gives them.
LEMMA ParametersTyped ==
  /\ LANES \in Nat \ {0} /\ CAP \in Nat \ {0}
  /\ FORKS \in Nat /\ DABIT_CHUNKS \in Nat /\ FAULTS \in Nat
  /\ BULK \in BOOLEAN /\ THREADS \in [Workers -> Nat \ {0}]
  /\ 0 \in LaneSet
  BY SessionAssumption DEF LaneSet

\* The operations of each part of a worker's program are operations of the session.
LEMMA OpsOf ==
  ASSUME NEW p \in Workers
  PROVE  /\ NewOps(p) \subseteq Ops /\ RngOps \subseteq Ops /\ ForkOps(p) \subseteq Ops
         /\ WorkOps(p) \subseteq Ops /\ ShutOps(p) \subseteq Ops
         /\ ChanOps(p) \subseteq NewOps(p) /\ ChanOps(p) \subseteq ForkOps(p)
         /\ <<"drop">> \in Ops /\ <<"close">> \in Ops /\ ChanOps(p) \subseteq Ops
<1>1. ChanOps(p) \subseteq AnyChanOps
  BY DEF ChanOps, AnyChanOps
<1>2. MsgOps(p) \subseteq AnyMsgOps
  BY DEF MsgOps, AnyMsgOps
<1>3. ShutOps(p) \subseteq AnyShutOps
  BY ParametersTyped DEF ShutOps, AnyShutOps, Procs
<1>. QED  BY <1>1, <1>2, <1>3 DEF Ops, NewOps, ForkOps, WorkOps

\* The lanes on which the channels to q are set up.
LaneF(q) ==
  [op \in Ops |-> IF op[1] \in {"open_bi", "accept_bi"} /\ op[2] = q THEN <<op[3]>> ELSE <<>>]

\* What an operation adds to the lanes of the channels with q: the lane it opens or accepts a stream on.
LEMMA LaneType ==
  ASSUME NEW q \in Workers
  PROVE  /\ LaneF(q) \in Traces(Ops, LaneSet)
         /\ \A op \in Ops :
               LaneF(q)[op] = IF op[1] \in {"open_bi", "accept_bi"} /\ op[2] = q THEN <<op[3]>> ELSE <<>>
<1>1. ASSUME NEW op \in Ops, op[1] \in {"open_bi", "accept_bi"} PROVE op[3] \in LaneSet
  <2>1. op \in AnyChanOps
    BY <1>1 DEF Ops, SetupOps, RngOps, StarOps, AnyMsgOps, ParOps, AnyShutOps
  <2>. QED  BY <2>1 DEF AnyChanOps
<1>. QED  BY <1>1 DEF LaneF, Traces

-----------------------------------------------------------------------------
(* The channels of a worker *)

ChanPart(p, q, l) ==
  IF q < p THEN << <<"open_bi", q, l>>, <<"read_id", q, l>> >> ELSE << <<"accept_bi", q, l>> >>

\* One peer's share of Rep3NetworkChannels::new (open or accept) is made of channel operations.
LEMMA ChanPartType ==
  ASSUME NEW p \in Workers, NEW q \in Workers \ {p}, NEW l \in LaneSet
  PROVE  ChanPart(p, q, l) \in Seq(ChanOps(p))
<1>1. CASE q < p
  <2>1. <<"open_bi", q, l>> \in ChanOps(p) /\ <<"read_id", q, l>> \in ChanOps(p)
    BY <1>1 DEF ChanOps
  <2>. QED  BY ONLY <1>1, <2>1 DEF ChanPart
<1>2. CASE ~(q < p)
  <2>1. <<"accept_bi", q, l>> \in ChanOps(p)
    BY <1>2 DEF ChanOps, Workers
  <2>. QED  BY ONLY <1>2, <2>1 DEF ChanPart
<1>. QED  BY <1>1, <1>2

\* One peer's share of a channel set-up adds one stream, on the given lane, to that peer alone.
LEMMA ChanPartLane ==
  ASSUME NEW p \in Workers, NEW q \in Workers \ {p}, NEW r \in Workers \ {p}, NEW l \in LaneSet
  PROVE  Hist(LaneF(q), ChanPart(p, r, l)) = IF r = q THEN <<l>> ELSE <<>>
<1>1. LaneF(q) \in Traces(Ops, LaneSet)
  BY LaneType
<1>2. CASE r < p
  <2>1. <<"open_bi", r, l>> \in Ops /\ <<"read_id", r, l>> \in Ops
    BY OpsOf, <1>2 DEF ChanOps
  <2>2. /\ LaneF(q)[<<"open_bi", r, l>>] = IF r = q THEN <<l>> ELSE <<>>
        /\ LaneF(q)[<<"read_id", r, l>>] = <<>>
    BY <2>1, LaneType
  <2>3. Hist(LaneF(q), ChanPart(p, r, l)) = Cat(IF r = q THEN <<l>> ELSE <<>>, <<>>)
    BY ONLY <1>1, <1>2, <2>1, <2>2, HistTwo DEF ChanPart
  <2>4. (IF r = q THEN <<l>> ELSE <<>>) \in Seq(LaneSet)
    OBVIOUS
  <2>. QED  BY ONLY <2>3, <2>4, CatEmpty
<1>3. CASE ~(r < p)
  <2>1. <<"accept_bi", r, l>> \in Ops
    BY OpsOf, <1>3 DEF ChanOps, Workers
  <2>2. LaneF(q)[<<"accept_bi", r, l>>] = IF r = q THEN <<l>> ELSE <<>>
    BY <2>1, LaneType
  <2>. QED  BY ONLY <1>1, <1>3, <2>1, <2>2, HistSingle DEF ChanPart
<1>. QED  BY <1>2, <1>3

\* A worker's peers are the two other workers, each once.
LEMMA PeersAre ==
  ASSUME NEW p \in Workers
  PROVE  \E q \in Workers \ {p}, r \in Workers \ {p} :
            q # r /\ Peers(p) = <<q, r>> /\ Workers = {p, q, r}
<1>1. CASE p = 0
  BY <1>1 DEF Peers, Workers
<1>2. CASE p = 1
  BY <1>2 DEF Peers, Workers
<1>3. CASE p = 2
  BY <1>3 DEF Peers, Workers
<1>. QED  BY <1>1, <1>2, <1>3 DEF Workers

\* Setting up channels on a lane sets up one to each peer.
LEMMA ChannelsLane ==
  ASSUME NEW p \in Workers, NEW l \in LaneSet
  PROVE  /\ Channels(p, l) \in Seq(ChanOps(p))
         /\ \A q \in Workers \ {p} : Hist(LaneF(q), Channels(p, l)) = <<l>>
<1>1. PICK q \in Workers \ {p}, r \in Workers \ {p} :
            q # r /\ Peers(p) = <<q, r>> /\ Workers = {p, q, r}
  BY PeersAre
<1>. DEFINE a == ChanPart(p, q, l)  b == ChanPart(p, r, l)
<1>2. a \in Seq(ChanOps(p)) /\ b \in Seq(ChanOps(p))
  BY ChanPartType
<1>3. Channels(p, l) = FlattenSeq(<<a, b>>)
  <2>1. Channels(p, l) = FlattenSeq([i \in DOMAIN <<q, r>> |-> ChanPart(p, <<q, r>>[i], l)])
    BY ONLY <1>1 DEF Channels, ForEach, ChanPart
  <2>2. [i \in DOMAIN <<q, r>> |-> ChanPart(p, <<q, r>>[i], l)] = <<a, b>>
    OBVIOUS
  <2>. QED  BY <2>1, <2>2
<1>4. FlattenSeq(<<a, b>>) = Cat(a, b)
  BY ONLY <1>2, FlattenTwo
<1>5. Cat(a, b) \in Seq(ChanOps(p))
  BY ONLY <1>2, CatType
<1>6. ASSUME NEW x \in Workers \ {p} PROVE Hist(LaneF(x), Cat(a, b)) = <<l>>
  <2>1. LaneF(x) \in Traces(Ops, LaneSet)
    BY LaneType
  <2>2. a \in Seq(Ops) /\ b \in Seq(Ops)
    <3>1. ChanOps(p) \subseteq Ops
      BY OpsOf
    <3>. QED  BY ONLY <1>2, <3>1, SeqMonotonic
  <2>3. Hist(LaneF(x), Cat(a, b)) = Cat(Hist(LaneF(x), a), Hist(LaneF(x), b))
    BY ONLY <2>1, <2>2, HistConcat
  <2>4. /\ Hist(LaneF(x), a) = IF q = x THEN <<l>> ELSE <<>>
        /\ Hist(LaneF(x), b) = IF r = x THEN <<l>> ELSE <<>>
    BY ChanPartLane
  <2>5. (x = q /\ x # r) \/ (x = r /\ x # q)
    BY <1>1
  <2>6. <<l>> \in Seq(LaneSet)
    OBVIOUS
  <2>. QED  BY ONLY <2>3, <2>4, <2>5, <2>6, CatEmpty
<1>. QED  BY <1>3, <1>4, <1>5, <1>6

\* A family of n sequences, as a list and flattened.
LEMMA FlattenOf ==
  ASSUME NEW T, NEW n \in Nat, NEW g, g = [i \in 1 .. n |-> g[i]], \A i \in 1 .. n : g[i] \in Seq(T)
  PROVE  g \in Seq(Seq(T)) /\ Len(g) = n /\ FlattenSeq(g) \in Seq(T)
<1>. DEFINE D == Seq(T)
<1>1. \A i \in 1 .. n : g[i] \in D
  OBVIOUS
<1>. HIDE DEF D
<1>2. g \in Seq(D) /\ Len(g) = n
  BY ONLY <1>1, n \in Nat, g = [i \in 1 .. n |-> g[i]]
<1>. QED  BY <1>2, FlattenType DEF D

\* The set-up of the connections opens no stream.
LEMMA EstablishType ==
  ASSUME NEW p \in Workers PROVE Establish(p) \in Seq(SetupOps)
<1>. DEFINE Pair(q, l) == << <<"dial", q, l>>, <<"greet", q, l>> >>
            G(q) == [i \in 1 .. LANES |-> Pair(q, i - 1)]
            E == [i \in 1 .. p |-> FlattenSeq(G(i - 1))]
            a == << <<"dial", Coordinator, 0>>, <<"greet", Coordinator, 0>> >>
            n == (2 - p) * LANES
            c == << <<"accept">>, <<"identify">> >>
            R == [i \in 1 .. n |-> c]
<1>0. LANES \in Nat /\ p \in Nat /\ p <= 2
  BY ParametersTyped DEF Workers
<1>1. \A q \in Procs, l \in LaneSet : Pair(q, l) \in Seq(SetupOps)
  <2>. SUFFICES ASSUME NEW q \in Procs, NEW l \in LaneSet PROVE Pair(q, l) \in Seq(SetupOps)
    OBVIOUS
  <2>1. <<"dial", q, l>> \in SetupOps /\ <<"greet", q, l>> \in SetupOps
    BY DEF SetupOps
  <2>. QED  BY ONLY <2>1
<1>2. ASSUME NEW q \in Procs PROVE FlattenSeq(G(q)) \in Seq(SetupOps)
  <2>1. G(q) = [i \in 1 .. LANES |-> G(q)[i]] /\ \A i \in 1 .. LANES : G(q)[i] = Pair(q, i - 1)
    OBVIOUS
  <2>2. \A i \in 1 .. LANES : i - 1 \in LaneSet
    BY <1>0 DEF LaneSet
  <2>3. \A i \in 1 .. LANES : G(q)[i] \in Seq(SetupOps)
    BY ONLY <1>1, <2>1, <2>2, q \in Procs
  <2>. HIDE DEF G
  <2>. QED  BY ONLY <1>0, <2>1, <2>3, FlattenOf
<1>3. FlattenSeq(E) \in Seq(SetupOps)
  <2>. HIDE DEF G
  <2>1. E = [i \in 1 .. p |-> E[i]] /\ \A i \in 1 .. p : E[i] = FlattenSeq(G(i - 1))
    OBVIOUS
  <2>2. \A i \in 1 .. p : i - 1 \in Procs
    BY <1>0 DEF Procs, Workers
  <2>3. \A i \in 1 .. p : E[i] \in Seq(SetupOps)
    BY ONLY <1>2, <2>1, <2>2
  <2>. HIDE DEF E
  <2>. QED  BY ONLY <1>0, <2>1, <2>3, FlattenOf
<1>4. a \in Seq(SetupOps) /\ c \in Seq(SetupOps)
  <2>1. <<"accept">> \in SetupOps /\ <<"identify">> \in SetupOps
    BY DEF SetupOps
  <2>2. c \in Seq(SetupOps)
    BY ONLY <2>1
  <2>3. Coordinator \in Procs /\ 0 \in LaneSet
    BY ParametersTyped DEF Procs
  <2>. QED  BY <1>1, <2>2, <2>3
<1>5. FlattenSeq(R) \in Seq(SetupOps)
  <2>. HIDE DEF c
  <2>1. R = [i \in 1 .. n |-> R[i]] /\ \A i \in 1 .. n : R[i] = c
    OBVIOUS
  <2>2. n \in Nat
    BY <1>0, p \in {0, 1, 2} DEF Workers
  <2>3. \A i \in 1 .. n : R[i] \in Seq(SetupOps)
    BY ONLY <1>4, <2>1
  <2>. HIDE DEF R, n
  <2>. QED  BY ONLY <2>1, <2>2, <2>3, FlattenOf
<1>6. Establish(p) = Cat(Cat(a, FlattenSeq(E)), FlattenSeq(R))
  <2>1. \A q : ForEach(Lanes, LAMBDA l : Pair(q, l)) = FlattenSeq(G(q))
    <3>1. DOMAIN Lanes = 1 .. LANES /\ \A i \in 1 .. LANES : Lanes[i] = i - 1
      BY DEF Lanes
    <3>2. \A q : [i \in DOMAIN Lanes |-> Pair(q, Lanes[i])] = G(q)
      BY ONLY <3>1
    <3>. QED  BY ONLY <3>2 DEF ForEach
  <2>2. DOMAIN LowerIds(p) = 1 .. p /\ \A i \in 1 .. p : LowerIds(p)[i] = i - 1
    BY DEF LowerIds
  <2>. HIDE DEF G
  <2>3. [i \in DOMAIN LowerIds(p) |-> FlattenSeq(G(LowerIds(p)[i]))] = E
    BY ONLY <2>2
  <2>4. ForEach(LowerIds(p), LAMBDA q : ForEach(Lanes, LAMBDA l : Pair(q, l)))
          = FlattenSeq([i \in DOMAIN LowerIds(p) |-> ForEach(Lanes, LAMBDA l : Pair(LowerIds(p)[i], l))])
    BY DEF ForEach
  <2>5. ForEach(LowerIds(p), LAMBDA q : ForEach(Lanes, LAMBDA l : Pair(q, l))) = FlattenSeq(E)
    BY <2>1, <2>3, <2>4
  <2>. QED  BY ONLY <2>5 DEF Establish, Repeat, Cat
<1>. HIDE DEF E, R, a
<1>7. Cat(a, FlattenSeq(E)) \in Seq(SetupOps)
  BY ONLY <1>3, <1>4, CatType
<1>. QED  BY ONLY <1>5, <1>6, <1>7, CatType

\* Only the calls for channels set up channels.
LEMMA LaneSilent ==
  ASSUME NEW q \in Workers, NEW Q, Q \subseteq Ops \ AnyChanOps, NEW s \in Seq(Q)
  PROVE  s \in Seq(Ops) /\ Hist(LaneF(q), s) = <<>>
<1>1. LaneF(q) \in Traces(Ops, LaneSet) /\ Q \in SUBSET Ops
  BY LaneType
<1>2. ASSUME NEW op \in Q PROVE LaneF(q)[op] = <<>>
  <2>1. op \in Ops /\ op \notin AnyChanOps
    OBVIOUS
  <2>2. op[1] \notin {"open_bi", "accept_bi"}
    BY <2>1 DEF Ops, SetupOps, RngOps, StarOps, AnyMsgOps, ParOps, AnyShutOps
  <2>. QED  BY <2>1, <2>2, LaneType
<1>3. s \in Seq(Ops)
  BY ONLY <1>1, s \in Seq(Q), SeqMonotonic
<1>. QED  BY ONLY <1>1, <1>2, <1>3, s \in Seq(Q), HistSilent

\* The parts of a program that set up no channel contain no channel operation.
LEMMA OtherOps ==
  ASSUME NEW p \in Workers
  PROVE  /\ SetupOps \subseteq Ops \ AnyChanOps /\ RngOps \subseteq Ops \ AnyChanOps
         /\ WorkOps(p) \subseteq Ops \ AnyChanOps
         /\ ShutOps(p) \cup {<<"drop">>, <<"close">>} \subseteq Ops \ AnyChanOps
         /\ {<<"fork_rngs">>} \subseteq Ops \ AnyChanOps
<1>1. MsgOps(p) \subseteq AnyMsgOps
  BY DEF MsgOps, AnyMsgOps
<1>2. ShutOps(p) \subseteq AnyShutOps
  BY ParametersTyped DEF ShutOps, AnyShutOps, Procs
<1>3. (SetupOps \cup RngOps \cup StarOps \cup AnyMsgOps \cup ParOps \cup AnyShutOps
        \cup {<<"fork_rngs">>, <<"drop">>, <<"close">>}) \cap AnyChanOps = {}
  BY DEF AnyChanOps, SetupOps, RngOps, StarOps, AnyMsgOps, ParOps, AnyShutOps
<1>. QED  BY <1>1, <1>2, <1>3 DEF Ops, WorkOps

\* `new` sets up two channels to every peer, on lane 0.
LEMMA NewLane ==
  ASSUME NEW p \in Workers
  PROVE  /\ NewNetwork(p) \in Seq(NewOps(p))
         /\ \A q \in Workers \ {p} : Hist(LaneF(q), NewNetwork(p)) = <<0, 0>>
<1>. DEFINE a == Establish(p)  b == << <<"open_coordinator">> >>  c == Channels(p, 0)
<1>1. NewNetwork(p) = Cat(Cat(Cat(a, b), c), c)
  BY ONLY DEF NewNetwork, Cat
<1>2. a \in Seq(SetupOps) /\ b \in Seq(SetupOps) /\ c \in Seq(ChanOps(p))
  <2>1. <<"open_coordinator">> \in SetupOps
    BY DEF SetupOps
  <2>2. b \in Seq(SetupOps)
    BY ONLY <2>1
  <2>. QED  BY EstablishType, ChannelsLane, ParametersTyped, <2>2
<1>3. \A q \in Workers \ {p} : Hist(LaneF(q), c) = <<0>>
  BY ChannelsLane, ParametersTyped
<1>. HIDE DEF a, b, c
<1>4. a \in Seq(NewOps(p)) /\ b \in Seq(NewOps(p)) /\ c \in Seq(NewOps(p))
  <2>1. SetupOps \subseteq NewOps(p) /\ ChanOps(p) \subseteq NewOps(p)
    BY DEF NewOps
  <2>. QED  BY ONLY <1>2, <2>1, SeqMonotonic
<1>5. Cat(a, b) \in Seq(NewOps(p))
  BY ONLY <1>4, CatType
<1>6. Cat(Cat(a, b), c) \in Seq(NewOps(p))
  BY ONLY <1>4, <1>5, CatType
<1>7. NewNetwork(p) \in Seq(NewOps(p))
  BY ONLY <1>1, <1>4, <1>6, CatType
<1>8. ASSUME NEW q \in Workers \ {p} PROVE Hist(LaneF(q), NewNetwork(p)) = <<0, 0>>
  <2>1. LaneF(q) \in Traces(Ops, LaneSet)
    BY LaneType
  <2>2. NewOps(p) \subseteq Ops
    BY OpsOf
  <2>3. a \in Seq(Ops) /\ b \in Seq(Ops) /\ c \in Seq(Ops) /\ Cat(a, b) \in Seq(Ops)
        /\ Cat(Cat(a, b), c) \in Seq(Ops)
    BY ONLY <1>4, <1>5, <1>6, <2>2, SeqMonotonic
  <2>4. Hist(LaneF(q), a) = <<>> /\ Hist(LaneF(q), b) = <<>>
    BY <1>2, OtherOps, LaneSilent
  <2>5. Hist(LaneF(q), Cat(a, b)) = Cat(<<>>, <<>>)
    BY ONLY <2>1, <2>3, <2>4, HistConcat
  <2>6. Hist(LaneF(q), Cat(Cat(a, b), c)) = Cat(Hist(LaneF(q), Cat(a, b)), Hist(LaneF(q), c))
    BY ONLY <2>1, <2>3, HistConcat
  <2>7. Hist(LaneF(q), NewNetwork(p)) = Cat(Hist(LaneF(q), Cat(Cat(a, b), c)), Hist(LaneF(q), c))
    BY ONLY <1>1, <2>1, <2>3, HistConcat
  <2>8. Hist(LaneF(q), NewNetwork(p)) = Cat(Cat(Cat(<<>>, <<>>), <<0>>), <<0>>)
    BY ONLY <1>3, <2>5, <2>6, <2>7, q \in Workers \ {p}
  <2>. QED  BY ONLY <2>8, CatSmall
<1>. QED  BY <1>7, <1>8

-----------------------------------------------------------------------------
(* The contexts *)

First5 == << <<"prf_send">>, <<"prf_recv">>, <<"bitcomp_send">>, <<"bitcomp_recv">>, <<"fork_rngs">> >>
ForkProg(p, k) == Cat(<< <<"fork_rngs">> >>, ForkNetwork(p, k))
ForkProgs(p) == [k \in 1 .. FORKS |-> ForkProg(p, k)]
LanePart(k) == IF BULK THEN <<LaneOf(k), LaneOf(k)>> ELSE <<LaneOf(k)>>
LaneParts == [k \in 1 .. FORKS |-> LanePart(k)]

\* lane_for_context picks an existing lane.
LEMMA LaneOfType == ASSUME NEW k \in Nat PROVE LaneOf(k) \in LaneSet
  BY ParametersTyped DEF LaneOf, LaneSet

\* A fork opens one stream per peer, or two when it has bulk channels of its own.
LEMMA LanePartType ==
  ASSUME NEW k \in Nat
  PROVE  LanePart(k) \in Seq(LaneSet) /\ Len(LanePart(k)) = IF BULK THEN 2 ELSE 1
<1>1. LaneOf(k) \in LaneSet
  BY LaneOfType
<1>. QED  BY ONLY <1>1 DEF LanePart

\* A fork sets up a channel to every peer, or two, on its lane.
LEMMA ForkLane ==
  ASSUME NEW p \in Workers, NEW k \in Nat
  PROVE  /\ ForkProg(p, k) \in Seq(ForkOps(p))
         /\ ForkNetwork(p, k) \in Seq(ChanOps(p))
         /\ \A q \in Workers \ {p} : Hist(LaneF(q), ForkProg(p, k)) = LanePart(k)
<1>. DEFINE l == LaneOf(k)  c == Channels(p, l)  a == << <<"fork_rngs">> >>
            b == IF BULK THEN c ELSE <<>>
            n == ForkNetwork(p, k)
<1>1. l \in LaneSet /\ BULK \in BOOLEAN
  BY LaneOfType, ParametersTyped
<1>2. n = Cat(c, b)
  BY ONLY DEF ForkNetwork, Cat
<1>3. c \in Seq(ChanOps(p)) /\ \A q \in Workers \ {p} : Hist(LaneF(q), c) = <<l>>
  BY <1>1, ChannelsLane
<1>. HIDE DEF l, c
<1>4. b \in Seq(ChanOps(p)) /\ \A q \in Workers \ {p} : Hist(LaneF(q), b) = IF BULK THEN <<l>> ELSE <<>>
  <2>1. CASE BULK
    BY ONLY <1>3, <2>1
  <2>2. CASE ~BULK
    <3>1. b = <<>>
      BY ONLY <2>2
    <3>. QED  BY ONLY <2>2, <3>1, HistEmpty, EmptySeq
  <2>. QED  BY <2>1, <2>2
<1>. HIDE DEF b
<1>5. n \in Seq(ChanOps(p))
  BY ONLY <1>2, <1>3, <1>4, CatType
<1>6. a \in Seq({<<"fork_rngs">>})
  <2>1. <<"fork_rngs">> \in {<<"fork_rngs">>}
    OBVIOUS
  <2>. QED  BY ONLY <2>1
<1>. HIDE DEF n, a
<1>7. a \in Seq(ForkOps(p)) /\ n \in Seq(ForkOps(p))
  <2>1. {<<"fork_rngs">>} \subseteq ForkOps(p) /\ ChanOps(p) \subseteq ForkOps(p)
    BY DEF ForkOps
  <2>. QED  BY ONLY <1>5, <1>6, <2>1, SeqMonotonic
<1>8. ForkProg(p, k) = Cat(a, n)
  BY DEF ForkProg, a, n
<1>9. ASSUME NEW q \in Workers \ {p} PROVE Hist(LaneF(q), ForkProg(p, k)) = LanePart(k)
  <2>1. LaneF(q) \in Traces(Ops, LaneSet)
    BY LaneType
  <2>2. ForkOps(p) \subseteq Ops /\ ChanOps(p) \subseteq Ops
    BY OpsOf
  <2>3. a \in Seq(Ops) /\ n \in Seq(Ops) /\ b \in Seq(Ops) /\ c \in Seq(Ops)
    BY ONLY <1>3, <1>4, <1>7, <2>2, SeqMonotonic
  <2>4. Hist(LaneF(q), a) = <<>>
    BY <1>6, OtherOps, LaneSilent
  <2>5. Hist(LaneF(q), n) = Cat(<<l>>, IF BULK THEN <<l>> ELSE <<>>)
    BY ONLY <1>2, <1>3, <1>4, <2>1, <2>3, HistConcat, q \in Workers \ {p}
  <2>6. Cat(<<l>>, IF BULK THEN <<l>> ELSE <<>>) = LanePart(k)
    BY ONLY CatSmall DEF LanePart, l
  <2>7. Hist(LaneF(q), ForkProg(p, k)) = Cat(<<>>, LanePart(k))
    BY ONLY <1>8, <2>1, <2>3, <2>4, <2>5, <2>6, HistConcat
  <2>8. LanePart(k) \in Seq(LaneSet)
    BY LanePartType
  <2>. QED  BY ONLY <2>7, <2>8, CatEmpty
<1>10. ForkProg(p, k) \in Seq(ForkOps(p))
  BY ONLY <1>7, <1>8, CatType
<1>. QED  BY <1>5, <1>9, <1>10 DEF n

\* IoContextPool's initialisation as operations, and the streams its forks add to each peer.
LEMMA InitLane ==
  ASSUME NEW p \in Workers
  PROVE  /\ InitContexts(p) = Cat(First5, FlattenSeq(ForkProgs(p)))
         /\ First5 \in Seq(RngOps \cup {<<"fork_rngs">>})
         /\ ForkProgs(p) \in Seq(Seq(ForkOps(p)))
         /\ FlattenSeq(ForkProgs(p)) \in Seq(ForkOps(p))
         /\ InitContexts(p) \in Seq(RngOps \cup ForkOps(p))
         /\ FlattenSeq(LaneParts) \in Seq(LaneSet)
         /\ \A q \in Workers \ {p} : Hist(LaneF(q), InitContexts(p)) = FlattenSeq(LaneParts)
<1>. DEFINE F == FlattenSeq(ForkProgs(p))  Q == RngOps \cup {<<"fork_rngs">>}
<1>0. FORKS \in Nat
  BY ParametersTyped
<1>1. InitContexts(p) = Cat(First5, F)
  <2>1. ForEach([k \in 1 .. FORKS |-> k], LAMBDA k : << <<"fork_rngs">> >> \o ForkNetwork(p, k))
          = FlattenSeq([i \in DOMAIN [k \in 1 .. FORKS |-> k] |-> ForkProg(p, [k \in 1 .. FORKS |-> k][i])])
    BY DEF ForEach, ForkProg, Cat
  <2>2. [i \in DOMAIN [k \in 1 .. FORKS |-> k] |-> ForkProg(p, [k \in 1 .. FORKS |-> k][i])] = ForkProgs(p)
    BY DEF ForkProgs
  <2>3. ForEach([k \in 1 .. FORKS |-> k], LAMBDA k : << <<"fork_rngs">> >> \o ForkNetwork(p, k)) = F
    BY ONLY <2>1, <2>2
  <2>. HIDE DEF F
  <2>. QED  BY ONLY <2>3 DEF InitContexts, First5, Cat
<1>2. First5 \in Seq(Q)
  <2>. DEFINE x == <<"prf_send">>  y == <<"prf_recv">>  z == <<"bitcomp_send">>  u == <<"bitcomp_recv">>
              v == <<"fork_rngs">>
  <2>1. x \in Q /\ y \in Q /\ z \in Q /\ u \in Q /\ v \in Q
    BY DEF RngOps
  <2>2. First5 = <<x, y, z, u, v>>
    BY DEF First5
  <2>. HIDE DEF x, y, z, u, v, Q
  <2>. QED  BY ONLY <2>1, <2>2
<1>3. \A k \in 1 .. FORKS : ForkProgs(p)[k] \in Seq(ForkOps(p)) /\ ForkProgs(p)[k] = ForkProg(p, k)
  BY ForkLane DEF ForkProgs
<1>4. ForkProgs(p) = [k \in 1 .. FORKS |-> ForkProgs(p)[k]]
  BY DEF ForkProgs
<1>5. ForkProgs(p) \in Seq(Seq(ForkOps(p))) /\ Len(ForkProgs(p)) = FORKS /\ F \in Seq(ForkOps(p))
  BY ONLY <1>0, <1>3, <1>4, FlattenOf
<1>6. LaneParts \in Seq(Seq(LaneSet)) /\ Len(LaneParts) = FORKS /\ FlattenSeq(LaneParts) \in Seq(LaneSet)
  <2>1. \A k \in 1 .. FORKS : LaneParts[k] \in Seq(LaneSet)
    BY LanePartType DEF LaneParts
  <2>2. LaneParts = [k \in 1 .. FORKS |-> LaneParts[k]]
    BY DEF LaneParts
  <2>. QED  BY ONLY <1>0, <2>1, <2>2, FlattenOf
<1>7. ASSUME NEW q \in Workers \ {p} PROVE Hist(LaneF(q), InitContexts(p)) = FlattenSeq(LaneParts)
  <2>1. LaneF(q) \in Traces(Ops, LaneSet)
    BY LaneType
  <2>2. First5 \in Seq(Ops) /\ Hist(LaneF(q), First5) = <<>>
    <3>1. Q \subseteq Ops \ AnyChanOps
      BY OtherOps
    <3>. QED  BY ONLY <1>2, <3>1, LaneSilent, q \in Workers \ {p}
  <2>3. ForkProgs(p) \in Seq(Seq(Ops)) /\ F \in Seq(Ops)
    <3>1. ForkOps(p) \subseteq Ops
      BY OpsOf
    <3>2. Seq(ForkOps(p)) \subseteq Seq(Ops)
      BY ONLY <3>1, SeqMonotonic
    <3>. HIDE DEF F
    <3>. QED  BY ONLY <1>5, <3>2, SeqMonotonic
  <2>4. \A k \in 1 .. Len(ForkProgs(p)) : LaneParts[k] = Hist(LaneF(q), ForkProgs(p)[k])
    BY <1>3, <1>5, ForkLane DEF LaneParts
  <2>5. Hist(LaneF(q), F) = FlattenSeq(LaneParts)
    <3>1. ForkProgs(p) \in Lists(Ops)
      BY ONLY <2>3 DEF Lists
    <3>2. LaneParts \in Lists(LaneSet) /\ Len(LaneParts) = Len(ForkProgs(p))
      BY ONLY <1>5, <1>6 DEF Lists
    <3>. QED  BY ONLY <2>1, <2>4, <3>1, <3>2, HistFlatten
  <2>6. Hist(LaneF(q), Cat(First5, F)) = Cat(Hist(LaneF(q), First5), Hist(LaneF(q), F))
    BY ONLY <2>1, <2>2, <2>3, HistConcat
  <2>. QED  BY ONLY <1>1, <1>6, <2>2, <2>5, <2>6, CatEmpty
<1>8. InitContexts(p) \in Seq(RngOps \cup ForkOps(p))
  <2>1. Q \subseteq RngOps \cup ForkOps(p) /\ ForkOps(p) \subseteq RngOps \cup ForkOps(p)
    BY DEF ForkOps
  <2>. HIDE DEF Q
  <2>2. First5 \in Seq(RngOps \cup ForkOps(p)) /\ F \in Seq(RngOps \cup ForkOps(p))
    BY ONLY <1>2, <1>5, <2>1, SeqMonotonic
  <2>. QED  BY ONLY <1>1, <2>2, CatType
<1>. QED  BY <1>1, <1>2, <1>5, <1>6, <1>7, <1>8

LaneSeq == Cat(<<0, 0>>, FlattenSeq(LaneParts))
Ctxs == {-1, 0} \cup 1 .. FORKS

\* How many channels a worker ends up with per peer.
LEMMA LaneSeqLength ==
  /\ LaneSeq \in Seq(LaneSet)
  /\ Len(LaneSeq) = 2 + (IF BULK THEN FORKS + FORKS ELSE FORKS)
<1>. DEFINE P(n) == SubSeq(LaneParts, 1, n)
            S == {n \in 0 .. FORKS : Len(FlattenSeq(P(n))) = IF BULK THEN n + n ELSE n}
            D == Seq(LaneSet)
<1>0. FORKS \in Nat /\ <<0, 0>> \in D
  <2>1. 0 \in LaneSet /\ FORKS \in Nat
    BY ParametersTyped
  <2>. QED  BY ONLY <2>1
<1>1. LaneParts = [k \in 1 .. FORKS |-> LaneParts[k]]
      /\ \A k \in 1 .. FORKS : LaneParts[k] \in D /\ LaneParts[k] = LanePart(k)
  BY LanePartType DEF LaneParts
<1>2. LaneParts \in Seq(D) /\ Len(LaneParts) = FORKS /\ FlattenSeq(LaneParts) \in D
  BY ONLY <1>0, <1>1, FlattenOf
<1>3. P(FORKS) = LaneParts /\ P(0) = <<>>
  BY <1>2, PrefixWhole
<1>4. 0 \in S
  <2>. HIDE DEF P
  <2>1. Len(FlattenSeq(P(0))) = 0
    <3>1. FlattenSeq(P(0)) = <<>>
      BY ONLY <1>3, FlattenEmpty
    <3>. QED  BY ONLY <3>1
  <2>. QED  BY <1>0, <2>1
<1>5. ASSUME NEW m \in 0 .. FORKS - 1, m \in S PROVE m + 1 \in S
  <2>1. P(m) \in Seq(D) /\ P(m + 1) = Append(P(m), LaneParts[m + 1]) /\ LaneParts[m + 1] \in D
    BY <1>2, PrefixStep
  <2>2. Len(LaneParts[m + 1]) = IF BULK THEN 2 ELSE 1
    <3>1. m + 1 \in 1 .. FORKS /\ m + 1 \in Nat
      BY <1>0
    <3>. QED  BY <1>1, <3>1, LanePartType
  <2>. HIDE DEF P
  <2>3. FlattenSeq(P(m + 1)) = Cat(FlattenSeq(P(m)), LaneParts[m + 1])
    BY ONLY <2>1, FlattenAppend
  <2>4. FlattenSeq(P(m)) \in D
    BY ONLY <2>1, FlattenType
  <2>5. Len(FlattenSeq(P(m + 1))) = Len(FlattenSeq(P(m))) + Len(LaneParts[m + 1])
    <3>1. \A a, b \in D : Len(Cat(a, b)) = Len(a) + Len(b)
      BY CatType
    <3>. HIDE DEF D
    <3>2. LaneParts[m + 1] \in D /\ FlattenSeq(P(m)) \in D
      BY ONLY <2>1, <2>4
    <3>. QED  BY ONLY <2>3, <3>1, <3>2
  <2>. QED  BY ONLY <1>0, <1>5, <2>2, <2>5
<1>6. FORKS \in S
  <2>. HIDE DEF S
  <2>1. 0 .. FORKS \subseteq S
    BY ONLY <1>0, <1>4, <1>5, SetInduction
  <2>. QED  BY ONLY <1>0, <2>1
<1>7. LaneSeq \in D /\ Len(LaneSeq) = Len(<<0, 0>>) + Len(FlattenSeq(LaneParts))
  BY ONLY <1>0, <1>2, CatType DEF LaneSeq
<1>. QED  BY ONLY <1>3, <1>6, <1>7

\* Every context has a channel of its own.
LEMMA SlotBound ==
  /\ \A k \in Ctxs : Slot(k) \in 1 .. Len(LaneSeq)
  /\ \A k, n \in Ctxs : Slot(k) = Slot(n) => k = n
  /\ Slot(0) = 1 /\ Slot(-1) = 2
<1>1. BULK \in BOOLEAN /\ FORKS \in Nat
  BY ParametersTyped
<1>2. CASE BULK
  <2>1. \A k \in Ctxs : Slot(k) = IF k = 0 THEN 1 ELSE IF k = -1 THEN 2 ELSE 3 + (k - 1) + (k - 1)
    BY ONLY <1>1, <1>2 DEF Slot, Ctxs
  <2>. QED  BY <1>1, <1>2, <2>1, LaneSeqLength DEF Ctxs
<1>3. CASE ~BULK
  <2>1. \A k \in Ctxs : Slot(k) = IF k = 0 THEN 1 ELSE IF k = -1 THEN 2 ELSE 3 + (k - 1)
    BY ONLY <1>1, <1>3 DEF Slot, Ctxs
  <2>. QED  BY <1>1, <1>3, <2>1, LaneSeqLength DEF Ctxs
<1>. QED  BY <1>1, <1>2, <1>3

-----------------------------------------------------------------------------
(* Streams: the s-th channel of a pair is the n-th stream of its connection, *)
(* where n counts the channels on the same lane.                             *)

LaneCount(s, l) == Cardinality({i \in 1 .. s : LaneSeq[i] = l})
StreamId(p, q, s) == <<Conn(p, q, LaneSeq[s]), LaneCount(s, LaneSeq[s])>>

\* The number of streams on a lane, one channel at a time.
LEMMA LaneCountStep ==
  ASSUME NEW s \in Nat, NEW l
  PROVE  /\ LaneCount(s, l) \in Nat
         /\ LaneCount(0, l) = 0
         /\ LaneCount(s + 1, l) = IF LaneSeq[s + 1] = l THEN LaneCount(s, l) + 1 ELSE LaneCount(s, l)
<1>. DEFINE C(t) == {i \in 1 .. t : LaneSeq[i] = l}
<1>1. IsFiniteSet(C(s)) /\ Cardinality(C(s)) \in Nat
  <2>1. IsFiniteSet(1 .. s) /\ C(s) \in SUBSET (1 .. s)
    BY FS_Interval
  <2>. QED  BY ONLY <2>1, FS_Subset, FS_CardinalityType
<1>2. C(0) = {}
  OBVIOUS
<1>3. C(s + 1) = IF LaneSeq[s + 1] = l THEN C(s) \cup {s + 1} ELSE C(s)
  OBVIOUS
<1>4. s + 1 \notin C(s)
  OBVIOUS
<1>. HIDE DEF C
<1>5. Cardinality(C(s) \cup {s + 1}) = Cardinality(C(s)) + 1
  BY ONLY <1>1, <1>4, FS_AddElement
<1>6. Cardinality(C(0)) = 0
  BY ONLY <1>2, FS_EmptySet
<1>7. \A t : LaneCount(t, l) = Cardinality(C(t))
  BY DEF LaneCount, C
<1>. QED  BY ONLY <1>1, <1>3, <1>5, <1>6, <1>7

\* Later channels never lower the number of streams on a lane.
LEMMA LaneCountMono ==
  ASSUME NEW s \in Nat, NEW t \in Nat, NEW l, s <= t
  PROVE  LaneCount(s, l) <= LaneCount(t, l)
<1>. DEFINE S == {n \in 0 .. t - s : LaneCount(s, l) <= LaneCount(s + n, l)}
<1>1. 0 \in S
  BY LaneCountStep
<1>2. ASSUME NEW m \in 0 .. (t - s) - 1, m \in S PROVE m + 1 \in S
  <2>1. /\ LaneCount(s, l) \in Nat /\ LaneCount(s + m, l) \in Nat
        /\ LaneCount((s + m) + 1, l) \in {LaneCount(s + m, l), LaneCount(s + m, l) + 1}
    <3>1. s + m \in Nat
      OBVIOUS
    <3>. QED  BY <3>1, LaneCountStep
  <2>2. (s + m) + 1 = s + (m + 1) /\ m + 1 \in 0 .. t - s
    OBVIOUS
  <2>. QED  BY ONLY <1>2, <2>1, <2>2
<1>3. t - s \in S
  <2>. HIDE DEF S
  <2>1. t - s \in Nat
    OBVIOUS
  <2>2. 0 .. (t - s) \subseteq S
    BY ONLY <1>1, <1>2, <2>1, SetInduction
  <2>. QED  BY ONLY <2>1, <2>2
<1>4. s + (t - s) = t
  OBVIOUS
<1>. QED  BY <1>3, <1>4

\* Between workers the one with the higher id is the client.
LEMMA ConnIs ==
  ASSUME NEW p \in Workers, NEW q \in Workers \ {p}, NEW l \in LaneSet
  PROVE  /\ Conn(p, q, l) = IF q < p THEN <<p, q, l>> ELSE <<q, p, l>>
         /\ Conn(p, q, l) = Conn(q, p, l) /\ Conn(p, q, l) \in Conns
<1>. DEFINE C(x, y) == <<x, y, l>> \in Conns
<1>1. \A x, y \in Workers : <<x, y, l>> \in Conns <=> y < x
  BY DEF Conns, LaneSet, Coordinator, Workers
<1>2. p \in Nat /\ q \in Nat /\ p # q /\ p \in Workers /\ q \in Workers
  BY DEF Workers
<1>3. C(p, q) <=> q < p
  BY <1>1, <1>2
<1>4. C(q, p) <=> p < q
  BY <1>1, <1>2
<1>. QED  BY <1>2, <1>3, <1>4 DEF Conn

\* The connection of a worker with the coordinator, seen from both ends.
LEMMA ConnCoordinator ==
  ASSUME NEW p \in Workers
  PROVE  /\ Conn(p, Coordinator, 0) = <<p, Coordinator, 0>>
         /\ Conn(Coordinator, p, 0) = <<p, Coordinator, 0>>
         /\ <<p, Coordinator, 0>> \in Conns
<1>1. <<p, Coordinator, 0>> \in Conns
  BY DEF Conns
<1>2. <<Coordinator, p, 0>> \notin Conns
  BY DEF Conns, Coordinator, Workers
<1>. QED  BY <1>1, <1>2 DEF Conn

SKey(p, q, k) == <<StreamId(p, q, Slot(k)), p>>

\* The two ends of a channel compute the same stream, on the connection between them.
LEMMA StreamIdOne ==
  ASSUME NEW p \in Workers, NEW q \in Workers \ {p}, NEW s \in 1 .. Len(LaneSeq)
  PROVE  /\ StreamId(p, q, s) = StreamId(q, p, s)
         /\ StreamId(p, q, s)[1] \in Conns
         /\ StreamId(p, q, s)[1] = IF q < p THEN <<p, q, LaneSeq[s]>> ELSE <<q, p, LaneSeq[s]>>
<1>1. LaneSeq[s] \in LaneSet
  BY LaneSeqLength
<1>. QED  BY <1>1, ConnIs DEF StreamId

\* No two contexts, pairs or directions share a queue.
LEMMA StreamIdInjective ==
  ASSUME NEW p \in Workers, NEW q \in Workers \ {p}, NEW s \in 1 .. Len(LaneSeq),
         NEW x \in Workers, NEW y \in Workers \ {x}, NEW t \in 1 .. Len(LaneSeq),
         StreamId(p, q, s) = StreamId(x, y, t)
  PROVE  s = t /\ {p, q} = {x, y}
<1>. DEFINE l == LaneSeq[s]
<1>1. StreamId(p, q, s)[1] = StreamId(x, y, t)[1]
  OBVIOUS
<1>2. /\ StreamId(p, q, s)[1] = IF q < p THEN <<p, q, LaneSeq[s]>> ELSE <<q, p, LaneSeq[s]>>
      /\ StreamId(x, y, t)[1] = IF y < x THEN <<x, y, LaneSeq[t]>> ELSE <<y, x, LaneSeq[t]>>
  BY StreamIdOne
<1>3. LaneSeq[t] = l /\ {p, q} = {x, y}
  <2>1. PICK a, b, c, d : /\ <<a, b, LaneSeq[s]>> = <<c, d, LaneSeq[t]>>
                          /\ (a = p /\ b = q) \/ (a = q /\ b = p)
                          /\ (c = x /\ d = y) \/ (c = y /\ d = x)
    BY ONLY <1>1, <1>2
  <2>2. a = c /\ b = d /\ LaneSeq[s] = LaneSeq[t]
    BY ONLY <2>1
  <2>. QED  BY ONLY <2>1, <2>2
<1>4. LaneCount(s, l) = LaneCount(t, l)
  BY <1>3 DEF StreamId
<1>5. ASSUME NEW a \in 1 .. Len(LaneSeq), NEW b \in 1 .. Len(LaneSeq), a < b, LaneSeq[b] = l
      PROVE  LaneCount(a, l) < LaneCount(b, l)
  <2>0. Len(LaneSeq) \in Nat
    BY LaneSeqLength
  <2>1. b - 1 \in Nat /\ a \in Nat /\ (b - 1) + 1 = b /\ a <= b - 1
    BY <2>0, <1>5
  <2>2. LaneCount(a, l) <= LaneCount(b - 1, l)
    BY <2>1, LaneCountMono
  <2>3. LaneCount((b - 1) + 1, l) = LaneCount(b - 1, l) + 1
    <3>1. LaneSeq[(b - 1) + 1] = l
      BY <1>5, <2>1
    <3>. HIDE DEF l
    <3>. QED  BY ONLY <2>1, <3>1, LaneCountStep
  <2>4. LaneCount(a, l) \in Nat /\ LaneCount(b - 1, l) \in Nat
    BY <2>1, LaneCountStep
  <2>. QED  BY ONLY <2>1, <2>2, <2>3, <2>4
<1>6. s \in Nat /\ t \in Nat
  <2>0. Len(LaneSeq) \in Nat
    BY LaneSeqLength
  <2>. QED  BY <2>0
<1>7. LaneCount(s, l) \in Nat /\ LaneCount(t, l) \in Nat
  BY <1>6, LaneCountStep
<1>8. ~(s < t) /\ ~(t < s)
  BY <1>3, <1>4, <1>5, <1>7
<1>. QED  BY <1>3, <1>6, <1>8

\* Two message queues are the same only for the same sender, receiver and context.
LEMMA SKeyInjective ==
  ASSUME NEW p \in Workers, NEW q \in Workers \ {p}, NEW k \in Ctxs,
         NEW x \in Workers, NEW y \in Workers \ {x}, NEW n \in Ctxs,
         SKey(p, q, k) = SKey(x, y, n)
  PROVE  p = x /\ q = y /\ k = n
<1>1. Slot(k) \in 1 .. Len(LaneSeq) /\ Slot(n) \in 1 .. Len(LaneSeq)
  BY SlotBound
<1>2. StreamId(p, q, Slot(k)) = StreamId(x, y, Slot(n)) /\ p = x
  BY DEF SKey
<1>3. Slot(k) = Slot(n) /\ {p, q} = {x, y}
  BY <1>1, <1>2, StreamIdInjective
<1>. QED  BY <1>2, <1>3, SlotBound

-----------------------------------------------------------------------------
(* The chunks of a call *)

\* Division with remainder, as the provers need it.
LEMMA DivFacts ==
  ASSUME NEW a \in Nat, NEW b \in Nat \ {0}
  PROVE  a \div b \in Nat /\ b * (a \div b) <= a /\ a < b * (a \div b) + b
  OBVIOUS

\* A call that is cut is cut into at most one chunk per fork.
LEMMA ChunksBound ==
  ASSUME NEW n \in Nat \ {0}, NumChunks(n) > 1
  PROVE  NumChunks(n) \in 2 .. FORKS
<1>. DEFINE s == CeilDiv(n, FORKS)  c == CeilDiv(n, s)
<1>0. FORKS \in Nat
  BY ParametersTyped
<1>1. FORKS # 0 /\ NumChunks(n) = c
  BY DEF NumChunks
<1>2. s \in Nat /\ FORKS * s <= n + FORKS - 1 /\ n + FORKS - 1 < FORKS * s + FORKS
  <2>1. n + FORKS - 1 \in Nat /\ FORKS \in Nat \ {0}
    BY <1>0, <1>1
  <2>. QED  BY <2>1, DivFacts DEF CeilDiv
<1>. HIDE DEF s
<1>3. s # 0
  <2>1. s = 0 => FORKS * s = 0
    BY <1>0, <1>2
  <2>. QED  BY <1>0, <1>2, <2>1
<1>4. c \in Nat /\ s * c <= n + s - 1
  <2>1. n + s - 1 \in Nat /\ s \in Nat \ {0}
    BY <1>2, <1>3
  <2>. QED  BY <2>1, DivFacts DEF CeilDiv
<1>. HIDE DEF c
<1>5. c <= FORKS
  <2>1. SUFFICES ASSUME c > FORKS PROVE FALSE
    BY <1>0, <1>4
  <2>2. s * c >= s * (FORKS + 1)
    BY <1>0, <1>2, <1>3, <1>4, <2>1
  <2>3. s * (FORKS + 1) = FORKS * s + s
    BY <1>0, <1>2
  <2>4. FORKS * s \in Int /\ s * c \in Int /\ s * (FORKS + 1) \in Int
    BY <1>0, <1>2, <1>4
  <2>. HIDE DEF s, c
  <2>. QED  BY ONLY <1>0, <1>2, <1>3, <1>4, <2>2, <2>3, <2>4, n \in Nat
<1>. QED  BY <1>0, <1>1, <1>4, <1>5

CallsType == [len : Nat \ {0}, rounds : Nat \ {0}, nested : BOOLEAN]

\* The parallel calls of a session, as SessionAssumption gives them.
LEMMA CallsTyped ==
  /\ DOMAIN CALLS = 1 .. Len(CALLS) /\ Len(CALLS) \in Nat
  /\ \A c \in DOMAIN CALLS :
        CALLS[c] \in CallsType /\ CALLS[c].len \in Nat \ {0} /\ CALLS[c].rounds \in Nat \ {0}
<1>1. CALLS \in Seq(CallsType)
  BY SessionAssumption DEF CallsType
<1>2. \A x \in CallsType : x.len \in Nat \ {0} /\ x.rounds \in Nat \ {0}
  BY DEF CallsType
<1>. QED  BY ONLY <1>1, <1>2

-----------------------------------------------------------------------------
(* The parts of the work *)

Dabit(p, i) ==
  CASE p = 0 -> << <<"send", 2, -1, <<"alpha2", i>> >>, <<"recv", 2, -1, <<"s20", i>> >> >>
    [] p = 1 -> << <<"send", 2, -1, <<"s12", i>> >> >>
    [] p = 2 -> << <<"recv", 0, -1, <<"alpha2", i>> >>, <<"recv", 1, -1, <<"s12", i>> >>,
                   <<"send", 0, -1, <<"s20", i>> >> >>
Dabits(p) == [i \in 1 .. DABIT_CHUNKS |-> Dabit(p, i)]
Round(p, c, r) ==
  << <<"send", NextId(p), 0, <<c, 0, r>> >>, <<"recv", PrevId(p), 0, <<c, 0, r>> >> >>
Rounds(p, c) == [r \in 1 .. CALLS[c].rounds |-> Round(p, c, r)]
Pars(p) == [c \in 1 .. Len(CALLS) |-> ParChunks(p, c)]
Start == << <<"recv_c">>, <<"send_c">>, <<"send_c">> >>
Reply == << <<"send_c">> >>
Result(p) == IF p = 0 THEN << <<"recv_c">> >> ELSE <<>>

\* next_id and prev_id are the two other workers, and each other's inverse.
LEMMA Neighbours ==
  ASSUME NEW p \in Workers
  PROVE  /\ NextId(p) \in Workers \ {p} /\ PrevId(p) \in Workers \ {p} /\ NextId(p) # PrevId(p)
         /\ \A q \in Workers : NextId(q) = p <=> PrevId(p) = q
         /\ NextId(p) = (IF p = 2 THEN 0 ELSE p + 1) /\ PrevId(p) = (IF p = 0 THEN 2 ELSE p - 1)
<1>1. NextId(0) = 1 /\ NextId(1) = 2 /\ NextId(2) = 0 /\ PrevId(0) = 2 /\ PrevId(1) = 0 /\ PrevId(2) = 1
  BY DEF NextId, PrevId
<1>2. Workers = {0, 1, 2}
  BY DEF Workers
<1>. QED  BY ONLY <1>1, <1>2, p \in Workers

\* A worker's work as the concatenation of its phases: start, sync, daBits, calls, reply, result.
LEMMA WorkIs ==
  ASSUME NEW p \in Workers
  PROVE  /\ Work(p) = Cat(Cat(Cat(Cat(Start, Cat(SyncWithParties(p), FlattenSeq(Dabits(p)))),
                                  FlattenSeq(Pars(p))), Reply), Result(p))
         /\ \A c \in 1 .. Len(CALLS) :
               ParChunks(p, c) = IF NumChunks(CALLS[c].len) > 1 THEN << <<"par", c>> >>
                                 ELSE FlattenSeq(Rounds(p, c))
<1>1. ASSUME NEW c \in 1 .. Len(CALLS)
      PROVE  ParChunks(p, c) = IF NumChunks(CALLS[c].len) > 1 THEN << <<"par", c>> >>
                               ELSE FlattenSeq(Rounds(p, c))
  <2>. DEFINE n == CALLS[c].rounds
  <2>1. ForEach([r \in 1 .. n |-> r], LAMBDA r :
            << <<"send", NextId(p), 0, <<c, 0, r>> >>,
               <<"recv", PrevId(p), 0, <<c, 0, r>> >> >>)
          = FlattenSeq([i \in DOMAIN [r \in 1 .. n |-> r] |-> Round(p, c, [r \in 1 .. n |-> r][i])])
    BY DEF ForEach, Round
  <2>2. [i \in DOMAIN [r \in 1 .. n |-> r] |-> Round(p, c, [r \in 1 .. n |-> r][i])] = Rounds(p, c)
    BY DEF Rounds
  <2>. QED  BY <2>1, <2>2 DEF ParChunks
<1>2. ForEach([c \in DOMAIN CALLS |-> c], LAMBDA c : ParChunks(p, c)) = FlattenSeq(Pars(p))
  <2>1. ForEach([c \in DOMAIN CALLS |-> c], LAMBDA c : ParChunks(p, c))
          = FlattenSeq([i \in DOMAIN [c \in DOMAIN CALLS |-> c] |-> ParChunks(p, [c \in DOMAIN CALLS |-> c][i])])
    BY DEF ForEach
  <2>2. [i \in DOMAIN [c \in DOMAIN CALLS |-> c] |-> ParChunks(p, [c \in DOMAIN CALLS |-> c][i])] = Pars(p)
    BY CallsTyped DEF Pars
  <2>. QED  BY ONLY <2>1, <2>2
<1>3. ExtendDabits(p) = Cat(SyncWithParties(p), FlattenSeq(Dabits(p)))
  <2>1. ForEach([i \in 1 .. DABIT_CHUNKS |-> i], LAMBDA i :
            CASE p = 0 -> << <<"send", 2, -1, <<"alpha2", i>> >>,
                             <<"recv", 2, -1, <<"s20", i>> >> >>
              [] p = 1 -> << <<"send", 2, -1, <<"s12", i>> >> >>
              [] p = 2 -> << <<"recv", 0, -1, <<"alpha2", i>> >>,
                             <<"recv", 1, -1, <<"s12", i>> >>,
                             <<"send", 0, -1, <<"s20", i>> >> >>)
          = FlattenSeq([j \in DOMAIN [i \in 1 .. DABIT_CHUNKS |-> i] |-> Dabit(p, [i \in 1 .. DABIT_CHUNKS |-> i][j])])
    BY DEF ForEach, Dabit
  <2>2. [j \in DOMAIN [i \in 1 .. DABIT_CHUNKS |-> i] |-> Dabit(p, [i \in 1 .. DABIT_CHUNKS |-> i][j])] = Dabits(p)
    BY DEF Dabits
  <2>. QED  BY ONLY <2>1, <2>2 DEF ExtendDabits, Cat
<1>4. Work(p) = Cat(Cat(Cat(Cat(Start, ExtendDabits(p)), FlattenSeq(Pars(p))), Reply), Result(p))
  BY ONLY <1>2 DEF Work, Start, Reply, Result, Cat
<1>. QED  BY ONLY <1>1, <1>3, <1>4

\* Every phase of a worker's work is made of messages with peers, parallel calls and the star.
LEMMA WorkTyped ==
  ASSUME NEW p \in Workers
  PROVE  /\ Start \in Seq(StarOps) /\ Reply \in Seq(StarOps) /\ Result(p) \in Seq(StarOps)
         /\ SyncWithParties(p) \in Seq(MsgOps(p))
         /\ \A i \in Nat : Dabit(p, i) \in Seq(MsgOps(p))
         /\ Dabits(p) \in Lists(MsgOps(p)) /\ Len(Dabits(p)) = DABIT_CHUNKS
         /\ FlattenSeq(Dabits(p)) \in Seq(MsgOps(p))
         /\ \A c \in 1 .. Len(CALLS) :
              /\ \A r \in 1 .. CALLS[c].rounds : Round(p, c, r) \in Seq(MsgOps(p))
              /\ Rounds(p, c) \in Lists(MsgOps(p)) /\ Len(Rounds(p, c)) = CALLS[c].rounds
              /\ ParChunks(p, c) \in Seq(WorkOps(p))
         /\ Pars(p) \in Lists(WorkOps(p)) /\ Len(Pars(p)) = Len(CALLS)
         /\ FlattenSeq(Pars(p)) \in Seq(WorkOps(p))
         /\ Work(p) \in Seq(WorkOps(p))
<1>. DEFINE M == MsgOps(p)
<1>1. Start \in Seq(StarOps) /\ Reply \in Seq(StarOps) /\ Result(p) \in Seq(StarOps)
  <2>. DEFINE x == <<"recv_c">>  y == <<"send_c">>
  <2>1. x \in StarOps /\ y \in StarOps
    BY DEF StarOps
  <2>2. Start = <<x, y, y>> /\ Reply = <<y>> /\ Result(p) = IF p = 0 THEN <<x>> ELSE <<>>
    BY DEF Start, Reply, Result
  <2>. HIDE DEF x, y
  <2>. QED  BY ONLY <2>1, <2>2
<1>2. /\ \A t \in Tags, q \in Workers \ {p}, k \in {0, -1} :
            <<"send", q, k, t>> \in M /\ <<"recv", q, k, t>> \in M
      /\ NextId(p) \in Workers \ {p} /\ PrevId(p) \in Workers \ {p}
  BY Neighbours DEF MsgOps
<1>3. SyncWithParties(p) \in Seq(M)
  <2>. DEFINE x == <<"send", NextId(p), 0, <<"sync">> >>  y == <<"recv", PrevId(p), 0, <<"sync">> >>
  <2>1. x \in M /\ y \in M
    <3>1. <<"sync">> \in Tags
      BY DEF Tags
    <3>. QED  BY ONLY <1>2, <3>1
  <2>2. SyncWithParties(p) = <<x, y>>
    BY DEF SyncWithParties
  <2>. HIDE DEF x, y
  <2>. QED  BY ONLY <2>1, <2>2
<1>4. ASSUME NEW i \in Nat PROVE Dabit(p, i) \in Seq(M)
  <2>1. <<"alpha2", i>> \in Tags /\ <<"s20", i>> \in Tags /\ <<"s12", i>> \in Tags
    BY DEF Tags
  <2>2. p \in {0, 1, 2}
    BY DEF Workers
  <2>. HIDE DEF M
  <2>3. CASE p = 0
    <3>. DEFINE x == <<"send", 2, -1, <<"alpha2", i>> >>  y == <<"recv", 2, -1, <<"s20", i>> >>
    <3>1. x \in M /\ y \in M
      <4>1. 2 \in Workers \ {p}
        BY <2>3 DEF Workers
      <4>. QED  BY ONLY <1>2, <2>1, <4>1
    <3>2. Dabit(p, i) = <<x, y>>
      BY <2>3 DEF Dabit
    <3>. HIDE DEF x, y
    <3>. QED  BY ONLY <3>1, <3>2
  <2>4. CASE p = 1
    <3>. DEFINE x == <<"send", 2, -1, <<"s12", i>> >>
    <3>1. x \in M
      <4>1. 2 \in Workers \ {p}
        BY <2>4 DEF Workers
      <4>. QED  BY ONLY <1>2, <2>1, <4>1
    <3>2. Dabit(p, i) = <<x>>
      BY <2>4 DEF Dabit
    <3>. HIDE DEF x
    <3>. QED  BY ONLY <3>1, <3>2
  <2>5. CASE p = 2
    <3>. DEFINE x == <<"recv", 0, -1, <<"alpha2", i>> >>  y == <<"recv", 1, -1, <<"s12", i>> >>
                z == <<"send", 0, -1, <<"s20", i>> >>
    <3>1. x \in M /\ y \in M /\ z \in M
      <4>1. 0 \in Workers \ {p} /\ 1 \in Workers \ {p}
        BY <2>5 DEF Workers
      <4>. QED  BY ONLY <1>2, <2>1, <4>1
    <3>2. Dabit(p, i) = <<x, y, z>>
      BY <2>5 DEF Dabit
    <3>. HIDE DEF x, y, z
    <3>. QED  BY ONLY <3>1, <3>2
  <2>. QED  BY <2>2, <2>3, <2>4, <2>5
<1>5. Dabits(p) \in Lists(M) /\ Len(Dabits(p)) = DABIT_CHUNKS /\ FlattenSeq(Dabits(p)) \in Seq(M)
  <2>1. DABIT_CHUNKS \in Nat
    BY ParametersTyped
  <2>. HIDE DEF M
  <2>2. Dabits(p) = [i \in 1 .. DABIT_CHUNKS |-> Dabits(p)[i]]
    BY DEF Dabits
  <2>3. \A i \in 1 .. DABIT_CHUNKS : Dabits(p)[i] \in Seq(M)
    BY <1>4, <2>1 DEF Dabits
  <2>. QED  BY ONLY <2>1, <2>2, <2>3, FlattenOf DEF Lists
<1>6. M \subseteq WorkOps(p) /\ StarOps \subseteq WorkOps(p)
  BY DEF WorkOps
<1>7. ASSUME NEW c \in 1 .. Len(CALLS)
      PROVE  /\ \A r \in 1 .. CALLS[c].rounds : Round(p, c, r) \in Seq(M)
             /\ Rounds(p, c) \in Lists(M) /\ Len(Rounds(p, c)) = CALLS[c].rounds
             /\ ParChunks(p, c) \in Seq(WorkOps(p))
  <2>. DEFINE n == CALLS[c].rounds
  <2>0. n \in Nat /\ c \in Nat /\ c \in DOMAIN CALLS
    BY CallsTyped
  <2>. HIDE DEF n
  <2>1. ASSUME NEW r \in 1 .. n PROVE Round(p, c, r) \in Seq(M)
    <3>. DEFINE x == <<"send", NextId(p), 0, <<c, 0, r>> >>  y == <<"recv", PrevId(p), 0, <<c, 0, r>> >>
    <3>1. x \in M /\ y \in M
      <4>1. <<c, 0, r>> \in Tags
        BY <2>0 DEF Tags
      <4>. QED  BY ONLY <1>2, <4>1
    <3>2. Round(p, c, r) = <<x, y>>
      BY DEF Round
    <3>. HIDE DEF x, y, M
    <3>. QED  BY ONLY <3>1, <3>2
  <2>. HIDE DEF M
  <2>2. Rounds(p, c) = [r \in 1 .. n |-> Rounds(p, c)[r]]
    BY DEF Rounds, n
  <2>3. \A r \in 1 .. n : Rounds(p, c)[r] \in Seq(M)
    BY <2>1 DEF Rounds, n
  <2>4. Rounds(p, c) \in Lists(M) /\ Len(Rounds(p, c)) = n /\ FlattenSeq(Rounds(p, c)) \in Seq(M)
    BY ONLY <2>0, <2>2, <2>3, FlattenOf DEF Lists
  <2>5. ParChunks(p, c) \in Seq(WorkOps(p))
    <3>1. ParChunks(p, c) = IF NumChunks(CALLS[c].len) > 1 THEN << <<"par", c>> >>
                            ELSE FlattenSeq(Rounds(p, c))
      BY WorkIs
    <3>2. NumChunks(CALLS[c].len) > 1 => <<"par", c>> \in WorkOps(p)
      BY <2>0 DEF WorkOps, ParOps, Parallel
    <3>3. FlattenSeq(Rounds(p, c)) \in Seq(WorkOps(p))
      BY ONLY <1>6, <2>4, SeqMonotonic
    <3>4. CASE NumChunks(CALLS[c].len) > 1
      BY ONLY <3>1, <3>2, <3>4
    <3>. QED  BY ONLY <3>1, <3>3, <3>4
  <2>. QED  BY <2>1, <2>4, <2>5 DEF n
<1>8. Pars(p) \in Lists(WorkOps(p)) /\ Len(Pars(p)) = Len(CALLS) /\ FlattenSeq(Pars(p)) \in Seq(WorkOps(p))
  <2>1. Len(CALLS) \in Nat
    BY CallsTyped
  <2>2. Pars(p) = [c \in 1 .. Len(CALLS) |-> Pars(p)[c]]
    BY DEF Pars
  <2>3. \A c \in 1 .. Len(CALLS) : Pars(p)[c] \in Seq(WorkOps(p))
    BY <1>7 DEF Pars
  <2>. QED  BY ONLY <2>1, <2>2, <2>3, FlattenOf DEF Lists
<1>9. Work(p) \in Seq(WorkOps(p))
  <2>. DEFINE a == Start  b == SyncWithParties(p)  c == FlattenSeq(Dabits(p))
              d == FlattenSeq(Pars(p))  e == Reply  f == Result(p)
              W == WorkOps(p)
  <2>1. Work(p) = Cat(Cat(Cat(Cat(a, Cat(b, c)), d), e), f)
    BY WorkIs
  <2>. HIDE DEF M, W, a, b, c, d, e, f
  <2>2. a \in Seq(W) /\ b \in Seq(W) /\ c \in Seq(W) /\ d \in Seq(W) /\ e \in Seq(W) /\ f \in Seq(W)
    BY ONLY <1>1, <1>3, <1>5, <1>6, <1>8, SeqMonotonic DEF W, a, b, c, d, e, f
  <2>3. \A x, y \in Seq(W) : Cat(x, y) \in Seq(W)
    BY CatType
  <2>4. Cat(b, c) \in Seq(W)
    BY ONLY <2>2, <2>3
  <2>5. Cat(a, Cat(b, c)) \in Seq(W)
    BY ONLY <2>2, <2>3, <2>4
  <2>6. Cat(Cat(a, Cat(b, c)), d) \in Seq(W)
    BY ONLY <2>2, <2>3, <2>5
  <2>7. Cat(Cat(Cat(a, Cat(b, c)), d), e) \in Seq(W)
    BY ONLY <2>2, <2>3, <2>6
  <2>. QED  BY ONLY <2>1, <2>2, <2>3, <2>7 DEF W
<1>. QED  BY <1>1, <1>3, <1>4, <1>5, <1>7, <1>8, <1>9

-----------------------------------------------------------------------------
(* The shutdown *)

\* A worker's shutdown drops its channels first and closes its endpoints last.
LEMMA ShutdownIs ==
  ASSUME NEW p \in Workers
  PROVE  \E h \in Seq(ShutOps(p)) :
            Len(h) > 0 /\ Shutdown(p) = Cat(Cat(<< <<"drop">> >>, h), << <<"close">> >>)
<1>. DEFINE Shake(q, l) == << IF p < q THEN <<"done", q, l>> ELSE <<"wait_done", q, l>> >>
            G(q) == [i \in 1 .. LANES |-> Shake(q, i - 1)]
            last == <<"done", Coordinator, 0>>
<1>0. LANES \in Nat
  BY ParametersTyped
<1>1. ASSUME NEW q \in Workers \ {p} PROVE FlattenSeq(G(q)) \in Seq(ShutOps(p))
  <2>1. G(q) = [i \in 1 .. LANES |-> G(q)[i]] /\ \A i \in 1 .. LANES : G(q)[i] = Shake(q, i - 1)
    OBVIOUS
  <2>2. ASSUME NEW l \in LaneSet PROVE Shake(q, l) \in Seq(ShutOps(p))
    <3>. DEFINE x == IF p < q THEN <<"done", q, l>> ELSE <<"wait_done", q, l>>
    <3>1. x \in ShutOps(p)
      BY DEF ShutOps
    <3>. HIDE DEF x
    <3>2. <<x>> \in Seq(ShutOps(p))
      BY ONLY <3>1
    <3>. QED  BY <3>2 DEF x
  <2>3. \A i \in 1 .. LANES : i - 1 \in LaneSet
    BY <1>0 DEF LaneSet
  <2>. HIDE DEF Shake
  <2>4. \A i \in 1 .. LANES : G(q)[i] \in Seq(ShutOps(p))
    BY ONLY <2>1, <2>2, <2>3
  <2>. HIDE DEF G
  <2>. QED  BY ONLY <1>0, <2>1, <2>4, FlattenOf
<1>2. PICK q \in Workers \ {p}, r \in Workers \ {p} : Peers(p) = <<q, r>>
  BY PeersAre
<1>. DEFINE S == FlattenSeq(<<FlattenSeq(G(q)), FlattenSeq(G(r))>>)
<1>3. S \in Seq(ShutOps(p))
  <2>1. FlattenSeq(G(q)) \in Seq(ShutOps(p)) /\ FlattenSeq(G(r)) \in Seq(ShutOps(p))
    BY <1>1
  <2>. HIDE DEF G
  <2>2. S = Cat(FlattenSeq(G(q)), FlattenSeq(G(r)))
    BY ONLY <2>1, FlattenTwo
  <2>. QED  BY ONLY <2>1, <2>2, CatType
<1>4. ForEach(Peers(p), LAMBDA x : ForEach(Lanes, LAMBDA l : Shake(x, l))) = S
  <2>1. \A x : ForEach(Lanes, LAMBDA l : Shake(x, l)) = FlattenSeq(G(x))
    <3>1. DOMAIN Lanes = 1 .. LANES /\ \A i \in 1 .. LANES : Lanes[i] = i - 1
      BY DEF Lanes
    <3>2. \A x : [i \in DOMAIN Lanes |-> Shake(x, Lanes[i])] = G(x)
      BY ONLY <3>1
    <3>. QED  BY ONLY <3>2 DEF ForEach
  <2>. HIDE DEF G
  <2>2. ForEach(Peers(p), LAMBDA x : ForEach(Lanes, LAMBDA l : Shake(x, l)))
          = FlattenSeq([i \in DOMAIN <<q, r>> |-> ForEach(Lanes, LAMBDA l : Shake(<<q, r>>[i], l))])
    BY ONLY <1>2 DEF ForEach
  <2>3. [i \in DOMAIN <<q, r>> |-> FlattenSeq(G(<<q, r>>[i]))] = <<FlattenSeq(G(q)), FlattenSeq(G(r))>>
    OBVIOUS
  <2>. QED  BY <2>1, <2>2, <2>3
<1>. HIDE DEF S
<1>. DEFINE d == << <<"drop">> >>  h == Cat(S, <<last>>)
<1>5. Shutdown(p) = Cat(Cat(d, S), <<last, <<"close">> >>)
  BY ONLY <1>4 DEF Shutdown, Cat
<1>6. <<last>> \in Seq(ShutOps(p))
  <2>1. last \in ShutOps(p)
    BY DEF ShutOps
  <2>. HIDE DEF last
  <2>. QED  BY ONLY <2>1
<1>7. h \in Seq(ShutOps(p)) /\ Len(h) = Len(S) + Len(<<last>>)
  BY ONLY <1>3, <1>6, CatType
<1>8. Len(h) > 0
  BY <1>3, <1>7
<1>9. Cat(Cat(d, S), <<last, <<"close">> >>) = Cat(Cat(d, h), << <<"close">> >>)
  <2>. DEFINE Q == ShutOps(p) \cup {<<"drop">>, <<"close">>}  c == << <<"close">> >>
  <2>1. S \in Seq(Q) /\ <<last>> \in Seq(Q) /\ h \in Seq(Q)
    BY ONLY <1>3, <1>6, <1>7, SeqMonotonic
  <2>2. d \in Seq(Q) /\ c \in Seq(Q)
    <3>1. <<"drop">> \in Q /\ <<"close">> \in Q
      OBVIOUS
    <3>. HIDE DEF Q
    <3>. QED  BY ONLY <3>1
  <2>3. <<last, <<"close">> >> = Cat(<<last>>, c)
    BY ONLY CatSmall
  <2>. HIDE DEF d, c, Q, last, h
  <2>a. \A x, y, z \in Seq(Q) : Cat(Cat(x, y), z) = Cat(x, Cat(y, z))
    BY CatAssociative
  <2>b. \A x, y \in Seq(Q) : Cat(x, y) \in Seq(Q)
    BY CatType
  <2>4. Cat(Cat(d, S), Cat(<<last>>, c)) = Cat(Cat(Cat(d, S), <<last>>), c)
    <3>1. Cat(d, S) \in Seq(Q)
      BY ONLY <2>1, <2>2, <2>b
    <3>. QED  BY ONLY <2>1, <2>2, <3>1, <2>a
  <2>5. Cat(Cat(d, S), <<last>>) = Cat(d, h)
    BY ONLY <2>1, <2>2, <2>a DEF h
  <2>. QED  BY ONLY <2>3, <2>4, <2>5 DEF c
<1>. QED  BY <1>5, <1>7, <1>8, <1>9

-----------------------------------------------------------------------------
(* A worker's program *)

InitEnd(p) == Len(NewNetwork(p)) + Len(InitContexts(p))

\* A worker's program as set-up, contexts, work and shutdown, and where each of them ends.
LEMMA ProgramIs ==
  ASSUME NEW p \in Workers
  PROVE  /\ Program[p] = Cat(Cat(Cat(NewNetwork(p), InitContexts(p)), Work(p)), Shutdown(p))
         /\ NewNetwork(p) \in Seq(Ops) /\ InitContexts(p) \in Seq(Ops) /\ Work(p) \in Seq(Ops)
         /\ Shutdown(p) \in Seq(Ops) /\ Program[p] \in Seq(Ops)
         /\ NewEnd[p] = Len(NewNetwork(p)) /\ NewEnd[p] \in Nat
         /\ InitEnd(p) \in Nat /\ InitEnd(p) >= NewEnd[p] + 5
         /\ DropAt[p] = 1 + InitEnd(p) + Len(Work(p)) /\ DropAt[p] \in Nat
<1>. DEFINE a == NewNetwork(p)  b == InitContexts(p)  c == Work(p)  d == Shutdown(p)
<1>0. p \in Procs /\ p # Coordinator
  BY DEF Procs, Workers, Coordinator
<1>1. Program[p] = Cat(Cat(Cat(a, b), c), d)
  BY <1>0 DEF Program, Cat
<1>2. a \in Seq(Ops) /\ b \in Seq(Ops) /\ c \in Seq(Ops)
  <2>1. NewOps(p) \subseteq Ops /\ RngOps \cup ForkOps(p) \subseteq Ops /\ WorkOps(p) \subseteq Ops
    BY OpsOf
  <2>2. a \in Seq(NewOps(p)) /\ b \in Seq(RngOps \cup ForkOps(p)) /\ c \in Seq(WorkOps(p))
    BY NewLane, InitLane, WorkTyped
  <2>. HIDE DEF a, b, c
  <2>. QED  BY ONLY <2>1, <2>2, SeqMonotonic
<1>3. d \in Seq(Ops)
  <2>1. PICK h \in Seq(ShutOps(p)) : d = Cat(Cat(<< <<"drop">> >>, h), << <<"close">> >>)
    BY ShutdownIs
  <2>2. h \in Seq(Ops)
    <3>1. ShutOps(p) \subseteq Ops
      BY OpsOf
    <3>. QED  BY ONLY <2>1, <3>1, SeqMonotonic
  <2>3. << <<"drop">> >> \in Seq(Ops) /\ << <<"close">> >> \in Seq(Ops)
    <3>1. <<"drop">> \in Ops /\ <<"close">> \in Ops
      BY DEF Ops
    <3>. QED  BY ONLY <3>1
  <2>4. Cat(<< <<"drop">> >>, h) \in Seq(Ops)
    BY ONLY <2>2, <2>3, CatType
  <2>. QED  BY ONLY <2>1, <2>3, <2>4, CatType
<1>4. NewEnd[p] = Len(a) /\ DropAt[p] = 1 + Len(Cat(Cat(a, b), c))
  BY <1>0 DEF NewEnd, DropAt, Cat
<1>5. First5 \in Seq(RngOps \cup {<<"fork_rngs">>}) /\ FlattenSeq(ForkProgs(p)) \in Seq(ForkOps(p))
      /\ b = Cat(First5, FlattenSeq(ForkProgs(p)))
  BY InitLane
<1>. HIDE DEF a, b, c, d
<1>6. Cat(a, b) \in Seq(Ops) /\ Len(Cat(a, b)) = Len(a) + Len(b)
  BY ONLY <1>2, CatType
<1>7. Cat(Cat(a, b), c) \in Seq(Ops) /\ Len(Cat(Cat(a, b), c)) = Len(Cat(a, b)) + Len(c)
  BY ONLY <1>2, <1>6, CatType
<1>8. Program[p] \in Seq(Ops)
  BY ONLY <1>1, <1>3, <1>7, CatType
<1>9. Len(b) >= 5
  <2>. DEFINE Q == RngOps \cup ForkOps(p)  F == FlattenSeq(ForkProgs(p))
  <2>1. First5 \in Seq(Q) /\ F \in Seq(Q)
    <3>1. RngOps \cup {<<"fork_rngs">>} \subseteq Q /\ ForkOps(p) \subseteq Q
      BY DEF ForkOps
    <3>. HIDE DEF Q
    <3>. QED  BY ONLY <1>5, <3>1, SeqMonotonic
  <2>. HIDE DEF Q, F
  <2>2. Len(b) = Len(First5) + Len(F)
    BY ONLY <1>5, <2>1, CatType DEF F
  <2>3. Len(First5) = 5
    BY DEF First5
  <2>4. Len(F) \in Nat
    BY ONLY <2>1
  <2>. QED  BY ONLY <2>2, <2>3, <2>4
<1>10. Len(a) \in Nat /\ Len(b) \in Nat /\ Len(c) \in Nat
  BY ONLY <1>2
<1>11. InitEnd(p) = Len(a) + Len(b)
  BY DEF InitEnd, a, b
<1>12. DropAt[p] = 1 + InitEnd(p) + Len(c)
  BY ONLY <1>4, <1>6, <1>7, <1>10, <1>11
<1>. QED  BY ONLY <1>1, <1>2, <1>3, <1>4, <1>8, <1>9, <1>10, <1>11, <1>12 DEF a, b, c, d

\* Which part of a concatenation an index falls in.
LEMMA CatAt ==
  ASSUME NEW T, NEW a \in Seq(T), NEW b \in Seq(T), NEW i \in 1 .. Len(a) + Len(b)
  PROVE  Cat(a, b)[i] = IF i <= Len(a) THEN a[i] ELSE b[i - Len(a)]
<1>1. Len(a) \in Nat /\ Len(b) \in Nat
  OBVIOUS
<1>2. /\ \A j \in 1 .. Len(a) : Cat(a, b)[j] = a[j]
      /\ \A j \in 1 .. Len(b) : Cat(a, b)[Len(a) + j] = b[j]
  BY DEF Cat
<1>3. CASE i <= Len(a)
  BY ONLY <1>1, <1>2, <1>3, i \in 1 .. Len(a) + Len(b)
<1>4. CASE i > Len(a)
  <2>1. i - Len(a) \in 1 .. Len(b) /\ Len(a) + (i - Len(a)) = i
    BY ONLY <1>1, <1>4, i \in 1 .. Len(a) + Len(b)
  <2>2. Cat(a, b)[Len(a) + (i - Len(a))] = b[i - Len(a)]
    BY ONLY <1>2, <2>1
  <2>. QED  BY ONLY <1>1, <1>4, <2>1, <2>2, i \in 1 .. Len(a) + Len(b)
<1>. QED  BY ONLY <1>1, <1>3, <1>4, i \in 1 .. Len(a) + Len(b)

\* Which calls a worker makes where.
LEMMA Where ==
  ASSUME NEW p \in Workers
  PROVE  /\ Len(Program[p]) \in Nat /\ Len(Program[p]) >= DropAt[p] + 2
         /\ \A i \in 1 .. Len(Program[p]) :
              /\ i <= NewEnd[p] => Program[p][i] \in NewOps(p)
              /\ i > NewEnd[p] /\ i <= NewEnd[p] + 5 => Program[p][i] = First5[i - NewEnd[p]]
              /\ i > NewEnd[p] + 5 /\ i <= InitEnd(p) => Program[p][i] \in ForkOps(p)
              /\ i > InitEnd(p) /\ i < DropAt[p] => Program[p][i] \in WorkOps(p)
              /\ i = DropAt[p] => Program[p][i] = <<"drop">>
              /\ i > DropAt[p] /\ i < Len(Program[p]) => Program[p][i] \in ShutOps(p)
              /\ i = Len(Program[p]) => Program[p][i] = <<"close">>
<1>. DEFINE a == NewNetwork(p)  b == InitContexts(p)  c == Work(p)  d == Shutdown(p)
            F == FlattenSeq(ForkProgs(p))
<1>0. /\ Program[p] = Cat(Cat(Cat(a, b), c), d)
      /\ a \in Seq(Ops) /\ b \in Seq(Ops) /\ c \in Seq(Ops) /\ d \in Seq(Ops)
      /\ NewEnd[p] = Len(a) /\ InitEnd(p) = Len(a) + Len(b) /\ DropAt[p] = 1 + InitEnd(p) + Len(c)
  BY ProgramIs DEF InitEnd
<1>1. PICK h \in Seq(ShutOps(p)) : Len(h) > 0 /\ d = Cat(Cat(<< <<"drop">> >>, h), << <<"close">> >>)
  BY ShutdownIs
<1>2. a \in Seq(NewOps(p)) /\ F \in Seq(ForkOps(p)) /\ c \in Seq(WorkOps(p)) /\ b = Cat(First5, F)
      /\ First5 \in Seq(RngOps \cup {<<"fork_rngs">>})
  BY NewLane, InitLane, WorkTyped
<1>. HIDE DEF a, b, c, d, F
<1>3. Len(a) \in Nat /\ Len(b) \in Nat /\ Len(c) \in Nat /\ Len(d) \in Nat /\ Len(F) \in Nat /\ Len(h) \in Nat
  BY ONLY <1>0, <1>1, <1>2
<1>4. Cat(a, b) \in Seq(Ops) /\ Len(Cat(a, b)) = Len(a) + Len(b)
  BY ONLY <1>0, CatType
<1>5. Cat(Cat(a, b), c) \in Seq(Ops) /\ Len(Cat(Cat(a, b), c)) = Len(Cat(a, b)) + Len(c)
  BY ONLY <1>0, <1>4, CatType
<1>6. Len(Program[p]) = Len(a) + Len(b) + Len(c) + Len(d)
  <2>1. Len(Program[p]) = Len(Cat(Cat(a, b), c)) + Len(d)
    BY ONLY <1>0, <1>5, CatLen
  <2>. QED  BY ONLY <1>3, <1>4, <1>5, <2>1
<1>. DEFINE N(x) == x \in Nat
<1>7. \A i \in 1 .. Len(Program[p]) :
         Program[p][i] = IF i <= Len(a) THEN a[i]
                         ELSE IF i <= Len(a) + Len(b) THEN b[i - Len(a)]
                         ELSE IF i <= Len(a) + Len(b) + Len(c) THEN c[i - (Len(a) + Len(b))]
                         ELSE d[i - (Len(a) + Len(b) + Len(c))]
  <2>. SUFFICES ASSUME NEW i \in 1 .. Len(Program[p])
                PROVE  Program[p][i] = IF i <= Len(a) THEN a[i]
                         ELSE IF i <= Len(a) + Len(b) THEN b[i - Len(a)]
                         ELSE IF i <= Len(a) + Len(b) + Len(c) THEN c[i - (Len(a) + Len(b))]
                         ELSE d[i - (Len(a) + Len(b) + Len(c))]
    OBVIOUS
  <2>0. i \in Nat /\ i >= 1 /\ i <= Len(a) + Len(b) + Len(c) + Len(d)
    BY ONLY <1>3, <1>6, i \in 1 .. Len(Program[p])
  <2>1. Program[p][i] = IF i <= Len(Cat(Cat(a, b), c)) THEN Cat(Cat(a, b), c)[i]
                        ELSE d[i - Len(Cat(Cat(a, b), c))]
    <3>1. i \in 1 .. Len(Cat(Cat(a, b), c)) + Len(d)
      BY ONLY <1>3, <1>4, <1>5, <2>0
    <3>. QED  BY ONLY <1>0, <1>5, <3>1, CatAt
  <2>2. i <= Len(Cat(Cat(a, b), c)) =>
          Cat(Cat(a, b), c)[i] = IF i <= Len(Cat(a, b)) THEN Cat(a, b)[i] ELSE c[i - Len(Cat(a, b))]
    <3>. SUFFICES ASSUME i <= Len(Cat(Cat(a, b), c))
                  PROVE  Cat(Cat(a, b), c)[i] = IF i <= Len(Cat(a, b)) THEN Cat(a, b)[i] ELSE c[i - Len(Cat(a, b))]
      OBVIOUS
    <3>1. i \in 1 .. Len(Cat(a, b)) + Len(c)
      BY <1>3, <1>4, <1>5, <2>0
    <3>. QED  BY ONLY <1>0, <1>4, <3>1, CatAt
  <2>3. i <= Len(Cat(a, b)) => Cat(a, b)[i] = IF i <= Len(a) THEN a[i] ELSE b[i - Len(a)]
    <3>. SUFFICES ASSUME i <= Len(Cat(a, b))
                  PROVE  Cat(a, b)[i] = IF i <= Len(a) THEN a[i] ELSE b[i - Len(a)]
      OBVIOUS
    <3>1. i \in 1 .. Len(a) + Len(b)
      BY <1>3, <1>4, <2>0
    <3>. QED  BY ONLY <1>0, <3>1, CatAt
  <2>. QED  BY ONLY <1>3, <1>4, <1>5, <2>0, <2>1, <2>2, <2>3
<1>8. Len(b) = 5 + Len(F) /\ (\A i \in 1 .. Len(b) : i <= 5 => b[i] = First5[i])
      /\ (\A i \in 1 .. Len(b) : i > 5 => b[i] \in ForkOps(p))
  <2>. DEFINE Q == RngOps \cup ForkOps(p)
  <2>1. First5 \in Seq(Q) /\ F \in Seq(Q)
    <3>1. RngOps \cup {<<"fork_rngs">>} \subseteq Q /\ ForkOps(p) \subseteq Q
      BY DEF ForkOps
    <3>. HIDE DEF Q
    <3>. QED  BY ONLY <1>2, <3>1, SeqMonotonic
  <2>2. Len(First5) = 5
    BY DEF First5
  <2>. HIDE DEF Q
  <2>3. Len(b) = 5 + Len(F)
    BY ONLY <1>2, <2>1, <2>2, CatLen
  <2>4. \A i \in 1 .. Len(First5) + Len(F) : b[i] = IF i <= Len(First5) THEN First5[i] ELSE F[i - Len(First5)]
    BY ONLY <1>2, <2>1, CatAt
  <2>5. \A i \in 1 .. Len(b) : b[i] = IF i <= 5 THEN First5[i] ELSE F[i - 5]
    BY ONLY <2>2, <2>3, <2>4
  <2>6. \A i \in 1 .. Len(F) : F[i] \in ForkOps(p)
    BY ONLY <1>2
  <2>. QED  BY ONLY <1>3, <2>3, <2>5, <2>6
<1>9. Len(d) = Len(h) + 2 /\ d[1] = <<"drop">> /\ d[Len(d)] = <<"close">>
      /\ \A i \in 1 .. Len(d) : i > 1 /\ i < Len(d) => d[i] \in ShutOps(p)
  <2>. DEFINE Q == ShutOps(p) \cup {<<"drop">>, <<"close">>}  x == << <<"drop">> >>  y == << <<"close">> >>
  <2>1. h \in Seq(Q) /\ x \in Seq(Q) /\ y \in Seq(Q)
    <3>1. <<"drop">> \in Q /\ <<"close">> \in Q /\ ShutOps(p) \subseteq Q
      OBVIOUS
    <3>. HIDE DEF Q
    <3>2. x \in Seq(Q) /\ y \in Seq(Q)
      BY ONLY <3>1
    <3>. QED  BY ONLY <1>1, <3>1, <3>2, SeqMonotonic
  <2>2. Len(x) = 1 /\ Len(y) = 1 /\ x[1] = <<"drop">> /\ y[1] = <<"close">>
    OBVIOUS
  <2>. HIDE DEF Q, x, y
  <2>3. Cat(x, h) \in Seq(Q) /\ Len(Cat(x, h)) = 1 + Len(h)
    <3>1. Cat(x, h) \in Seq(Q)
      BY ONLY <2>1, CatType
    <3>2. Len(Cat(x, h)) = Len(x) + Len(h)
      BY ONLY <2>1, CatLen
    <3>. QED  BY ONLY <2>2, <3>1, <3>2
  <2>4. d = Cat(Cat(x, h), y)
    BY <1>1 DEF x, y
  <2>5. Len(d) = Len(Cat(x, h)) + Len(y)
    BY ONLY <2>1, <2>3, <2>4, CatType
  <2>6. \A i \in 1 .. Len(Cat(x, h)) + Len(y) :
          d[i] = IF i <= Len(Cat(x, h)) THEN Cat(x, h)[i] ELSE y[i - Len(Cat(x, h))]
    BY ONLY <2>1, <2>3, <2>4, CatAt
  <2>7. \A i \in 1 .. Len(x) + Len(h) : Cat(x, h)[i] = IF i <= Len(x) THEN x[i] ELSE h[i - Len(x)]
    BY ONLY <2>1, CatAt
  <2>8. \A i \in 1 .. Len(h) : h[i] \in ShutOps(p)
    BY ONLY <1>1
  <2>9. Len(d) = Len(h) + 2
    BY ONLY <1>3, <2>2, <2>3, <2>5
  <2>10. d[1] = <<"drop">>
    <3>1. 1 \in 1 .. Len(Cat(x, h)) + Len(y) /\ 1 <= Len(Cat(x, h)) /\ 1 \in 1 .. Len(x) + Len(h) /\ 1 <= Len(x)
      BY ONLY <1>3, <2>2, <2>3
    <3>. QED  BY ONLY <2>2, <2>6, <2>7, <3>1
  <2>11. d[Len(d)] = <<"close">>
    <3>1. Len(d) - Len(Cat(x, h)) = 1 /\ Len(d) \in 1 .. Len(Cat(x, h)) + Len(y) /\ ~(Len(d) <= Len(Cat(x, h)))
      BY ONLY <1>3, <2>2, <2>3, <2>5
    <3>. QED  BY ONLY <2>2, <2>6, <3>1
  <2>12. ASSUME NEW i \in 1 .. Len(d), i > 1, i < Len(d) PROVE d[i] \in ShutOps(p)
    <3>1. i - 1 \in 1 .. Len(h) /\ i \in 1 .. Len(Cat(x, h)) + Len(y) /\ i <= Len(Cat(x, h))
          /\ i \in 1 .. Len(x) + Len(h) /\ ~(i <= Len(x))
      BY ONLY <1>3, <2>2, <2>3, <2>9, <2>12
    <3>2. d[i] = h[i - Len(x)]
      BY ONLY <2>6, <2>7, <3>1
    <3>. QED  BY ONLY <2>2, <2>8, <3>1, <3>2
  <2>. QED  BY <2>9, <2>10, <2>11, <2>12
<1>10. \A i \in 1 .. Len(a) : a[i] \in NewOps(p)
  BY ONLY <1>2
<1>11. \A i \in 1 .. Len(c) : c[i] \in WorkOps(p)
  BY ONLY <1>2
<1>12. Len(Program[p]) \in Nat /\ Len(Program[p]) >= DropAt[p] + 2
  BY ONLY <1>0, <1>1, <1>3, <1>6, <1>9
<1>13. ASSUME NEW i \in 1 .. Len(Program[p])
       PROVE  /\ i <= NewEnd[p] => Program[p][i] \in NewOps(p)
              /\ i > NewEnd[p] /\ i <= NewEnd[p] + 5 => Program[p][i] = First5[i - NewEnd[p]]
              /\ i > NewEnd[p] + 5 /\ i <= InitEnd(p) => Program[p][i] \in ForkOps(p)
              /\ i > InitEnd(p) /\ i < DropAt[p] => Program[p][i] \in WorkOps(p)
              /\ i = DropAt[p] => Program[p][i] = <<"drop">>
              /\ i > DropAt[p] /\ i < Len(Program[p]) => Program[p][i] \in ShutOps(p)
              /\ i = Len(Program[p]) => Program[p][i] = <<"close">>
  <2>0. i \in Nat /\ i >= 1 /\ i <= Len(a) + Len(b) + Len(c) + Len(d)
    BY ONLY <1>3, <1>6, i \in 1 .. Len(Program[p])
  <2>1. Program[p][i] = IF i <= Len(a) THEN a[i]
                         ELSE IF i <= Len(a) + Len(b) THEN b[i - Len(a)]
                         ELSE IF i <= Len(a) + Len(b) + Len(c) THEN c[i - (Len(a) + Len(b))]
                         ELSE d[i - (Len(a) + Len(b) + Len(c))]
    BY <1>7
  <2>2. i <= NewEnd[p] => Program[p][i] \in NewOps(p)
    BY ONLY <1>0, <1>3, <1>10, <2>0, <2>1
  <2>3. i > NewEnd[p] /\ i <= NewEnd[p] + 5 => Program[p][i] = First5[i - NewEnd[p]]
    BY ONLY <1>0, <1>3, <1>8, <2>0, <2>1
  <2>4. i > NewEnd[p] + 5 /\ i <= InitEnd(p) => Program[p][i] \in ForkOps(p)
    BY ONLY <1>0, <1>3, <1>8, <2>0, <2>1
  <2>5. i > InitEnd(p) /\ i < DropAt[p] => Program[p][i] \in WorkOps(p)
    BY ONLY <1>0, <1>3, <1>11, <2>0, <2>1
  <2>6. i = DropAt[p] => Program[p][i] = <<"drop">>
    BY ONLY <1>0, <1>3, <1>9, <2>0, <2>1
  <2>7. i > DropAt[p] /\ i < Len(Program[p]) => Program[p][i] \in ShutOps(p)
    <3>. SUFFICES ASSUME i > DropAt[p], i < Len(Program[p]) PROVE Program[p][i] \in ShutOps(p)
      OBVIOUS
    <3>. DEFINE j == i - (Len(a) + Len(b) + Len(c))
    <3>1. j \in 1 .. Len(d) /\ j > 1 /\ j < Len(d) /\ i > Len(a) + Len(b) + Len(c)
      BY <1>0, <1>3, <1>6, <2>0
    <3>2. Program[p][i] = d[j]
      BY ONLY <1>3, <2>0, <2>1, <3>1
    <3>. HIDE DEF j
    <3>. QED  BY ONLY <1>9, <3>1, <3>2
  <2>8. i = Len(Program[p]) => Program[p][i] = <<"close">>
    <3>1. i = Len(Program[p]) => i - (Len(a) + Len(b) + Len(c)) = Len(d) /\ i > Len(a) + Len(b) + Len(c)
      BY ONLY <1>3, <1>6, <1>9, <2>0
    <3>. QED  BY ONLY <1>3, <1>9, <2>0, <2>1, <3>1
  <2>. QED  BY ONLY <2>2, <2>3, <2>4, <2>5, <2>6, <2>7, <2>8
<1>. QED  BY ONLY <1>12, <1>13

-----------------------------------------------------------------------------
(* What a worker did before its i-th call *)

HistAt(f, p, i) == Hist(f, SubSeq(Program[p], 1, i - 1))
Pre(s, t) == Len(s) <= Len(t) /\ \A i \in 1 .. Len(s) : s[i] = t[i]

\* One more operation executed extends the history by what it contributes.
LEMMA HistAtStep ==
  ASSUME NEW T, NEW p \in Workers, NEW f \in Traces(Ops, T), NEW i \in 1 .. Len(Program[p])
  PROVE  /\ Program[p][i] \in Ops /\ f[Program[p][i]] \in Seq(T)
         /\ HistAt(f, p, i) \in Seq(T) /\ HistAt(f, p, i + 1) \in Seq(T)
         /\ HistAt(f, p, 1) = <<>>
         /\ HistAt(f, p, i + 1) = Cat(HistAt(f, p, i), f[Program[p][i]])
<1>. DEFINE s == Program[p]  n == i - 1
<1>1. s \in Seq(Ops)
  BY ProgramIs
<1>. HIDE DEF s
<1>2. n \in 0 .. Len(s) - 1 /\ n + 1 = i /\ (i + 1) - 1 = n + 1 /\ 1 - 1 = 0 /\ Len(s) \in Nat
  BY <1>1 DEF s
<1>. HIDE DEF n
<1>3. SubSeq(s, 1, n) \in Seq(Ops) /\ SubSeq(s, 1, n + 1) = Append(SubSeq(s, 1, n), s[n + 1]) /\ s[n + 1] \in Ops
  BY ONLY <1>1, <1>2, PrefixStep
<1>4. Hist(f, Append(SubSeq(s, 1, n), s[n + 1])) = Cat(Hist(f, SubSeq(s, 1, n)), f[s[n + 1]])
  BY ONLY <1>3, f \in Traces(Ops, T), HistAppend
<1>5. f[s[n + 1]] \in Seq(T) /\ Hist(f, SubSeq(s, 1, n)) \in Seq(T)
  BY ONLY <1>3, f \in Traces(Ops, T), HistType, TraceType
<1>6. Cat(Hist(f, SubSeq(s, 1, n)), f[s[n + 1]]) \in Seq(T)
  BY ONLY <1>5, CatType
<1>7. SubSeq(s, 1, 0) = <<>>
  BY ONLY <1>1, PrefixWhole
<1>8. HistAt(f, p, i) = Hist(f, SubSeq(s, 1, n)) /\ HistAt(f, p, i + 1) = Hist(f, SubSeq(s, 1, n + 1))
      /\ HistAt(f, p, 1) = Hist(f, SubSeq(s, 1, 0))
  BY ONLY <1>2 DEF HistAt, s, n
<1>. QED  BY ONLY <1>2, <1>3, <1>4, <1>5, <1>6, <1>7, <1>8, HistEmpty DEF s

\* A sequence is a prefix of its concatenation with another.
LEMMA CatPre ==
  ASSUME NEW T, NEW a \in Seq(T), NEW b \in Seq(T) PROVE Pre(a, Cat(a, b))
<1>1. Len(a) \in Nat /\ Len(b) \in Nat
  OBVIOUS
<1>2. \A j \in 1 .. Len(a) : Cat(a, b)[j] = a[j]
  BY DEF Cat
<1>3. Len(Cat(a, b)) = Len(a) + Len(b)
  BY CatLen
<1>. QED  BY ONLY <1>1, <1>2, <1>3 DEF Pre

\* What is done first is a prefix of all that is done.
LEMMA HistAtPre ==
  ASSUME NEW T, NEW p \in Workers, NEW f \in Traces(Ops, T), NEW i \in 1 .. Len(Program[p]) + 1
  PROVE  HistAt(f, p, i) \in Seq(T) /\ Pre(HistAt(f, p, i), Hist(f, Program[p]))
<1>. DEFINE s == Program[p]  n == i - 1  a == SubSeq(s, 1, n)  b == SubSeq(s, n + 1, Len(s))
<1>1. s \in Seq(Ops)
  BY ProgramIs
<1>. HIDE DEF s
<1>2. n \in 0 .. Len(s) /\ Len(s) \in Nat
  BY <1>1 DEF s
<1>. HIDE DEF n
<1>3. a \in Seq(Ops) /\ b \in Seq(Ops) /\ s = a \o b
  <2>1. a \in Seq(Ops) /\ b \in Seq(Ops)
    BY ONLY <1>1, <1>2
  <2>2. a \o b = SubSeq(s, 1, Len(s))
    <3>1. n \in 1 - 1 .. Len(s) /\ 1 \in 1 .. Len(s) + 1 /\ Len(s) \in n .. Len(s)
      BY ONLY <1>2
    <3>. QED  BY ONLY <1>1, <3>1, ConcatAdjacentSubSeq
  <2>3. SubSeq(s, 1, Len(s)) = s
    BY ONLY <1>1, PrefixWhole
  <2>. QED  BY ONLY <2>1, <2>2, <2>3
<1>. HIDE DEF a, b
<1>4. Hist(f, s) = Cat(Hist(f, a), Hist(f, b))
  <2>1. s = Cat(a, b)
    BY ONLY <1>3 DEF Cat
  <2>. QED  BY ONLY <1>3, <2>1, f \in Traces(Ops, T), HistConcat
<1>5. Hist(f, a) \in Seq(T) /\ Hist(f, b) \in Seq(T)
  BY ONLY <1>3, f \in Traces(Ops, T), HistType
<1>6. Pre(Hist(f, a), Hist(f, s))
  BY ONLY <1>4, <1>5, CatPre
<1>. QED  BY ONLY <1>5, <1>6 DEF HistAt, a, s, n

\* The history past a first part of the program is that part's, then the rest's.
LEMMA HistAtSplit ==
  ASSUME NEW T, NEW p \in Workers, NEW f \in Traces(Ops, T), NEW i \in 1 .. Len(Program[p]) + 1,
         NEW a \in Seq(Ops), NEW b \in Seq(Ops), Program[p] = Cat(a, b), i > Len(a)
  PROVE  HistAt(f, p, i) = Cat(Hist(f, a), Hist(f, SubSeq(b, 1, i - 1 - Len(a))))
<1>. DEFINE n == i - 1 - Len(a)  c == SubSeq(b, 1, n)
<1>1. Len(a) \in Nat /\ Len(b) \in Nat /\ Len(Program[p]) = Len(a) + Len(b)
  BY CatLen
<1>2. n \in 0 .. Len(b) /\ i - 1 = Len(a) + n
  BY <1>1
<1>3. c \in Seq(Ops)
  BY <1>1, <1>2
<1>4. SubSeq(a \o b, 1, Len(a) + n) = a \o c
  BY <1>1, <1>2
<1>5. SubSeq(Program[p], 1, i - 1) = Cat(a, c)
  BY ONLY <1>2, <1>4, Program[p] = Cat(a, b) DEF Cat
<1>. HIDE DEF c
<1>6. Hist(f, Cat(a, c)) = Cat(Hist(f, a), Hist(f, c))
  BY ONLY <1>3, a \in Seq(Ops), f \in Traces(Ops, T), HistConcat
<1>. QED  BY ONLY <1>5, <1>6 DEF HistAt, c

-----------------------------------------------------------------------------
(* The channels a worker has set up before its i-th call *)

NumChans(p, q, i) == Len(HistAt(LaneF(q), p, i))

\* The history of a whole program is the concatenation of its parts' histories.
LEMMA ThreeParts ==
  ASSUME NEW T, NEW p \in Workers, NEW f \in Traces(Ops, T)
  PROVE  /\ Hist(f, Program[p]) = Cat(Cat(Cat(Hist(f, NewNetwork(p)), Hist(f, InitContexts(p))),
                                          Hist(f, Work(p))), Hist(f, Shutdown(p)))
         /\ Hist(f, NewNetwork(p)) \in Seq(T) /\ Hist(f, InitContexts(p)) \in Seq(T)
         /\ Hist(f, Work(p)) \in Seq(T) /\ Hist(f, Shutdown(p)) \in Seq(T)
<1>. DEFINE a == NewNetwork(p)  b == InitContexts(p)  c == Work(p)  d == Shutdown(p)
<1>1. /\ Program[p] = Cat(Cat(Cat(a, b), c), d)
      /\ a \in Seq(Ops) /\ b \in Seq(Ops) /\ c \in Seq(Ops) /\ d \in Seq(Ops)
  BY ProgramIs
<1>. HIDE DEF a, b, c, d
<1>2. \A x, y \in Seq(Ops) : Cat(x, y) \in Seq(Ops)
  BY CatType
<1>3. Cat(a, b) \in Seq(Ops)
  BY ONLY <1>1, <1>2
<1>4. Cat(Cat(a, b), c) \in Seq(Ops)
  BY ONLY <1>1, <1>2, <1>3
<1>5. \A x, y \in Seq(Ops) : Hist(f, Cat(x, y)) = Cat(Hist(f, x), Hist(f, y))
  BY ONLY f \in Traces(Ops, T), HistConcat
<1>6. Hist(f, Program[p]) = Cat(Cat(Cat(Hist(f, a), Hist(f, b)), Hist(f, c)), Hist(f, d))
  BY ONLY <1>1, <1>3, <1>4, <1>5
<1>7. \A x \in Seq(Ops) : Hist(f, x) \in Seq(T)
  BY ONLY f \in Traces(Ops, T), HistType
<1>. QED  BY ONLY <1>1, <1>6, <1>7 DEF a, b, c, d

\* All workers set up the channels of a pair on the same lanes.
LEMMA LaneTotal ==
  ASSUME NEW p \in Workers, NEW q \in Workers \ {p}
  PROVE  /\ Hist(LaneF(q), Program[p]) = LaneSeq
         /\ Hist(LaneF(q), Work(p)) = <<>> /\ Hist(LaneF(q), Shutdown(p)) = <<>>
         /\ Cat(Hist(LaneF(q), NewNetwork(p)), Hist(LaneF(q), InitContexts(p))) = LaneSeq
<1>1. LaneF(q) \in Traces(Ops, LaneSet)
  BY LaneType
<1>2. Hist(LaneF(q), NewNetwork(p)) = <<0, 0>> /\ Hist(LaneF(q), InitContexts(p)) = FlattenSeq(LaneParts)
  BY NewLane, InitLane
<1>3. Hist(LaneF(q), Work(p)) = <<>>
  BY OtherOps, WorkTyped, LaneSilent
<1>4. Hist(LaneF(q), Shutdown(p)) = <<>>
  <2>. DEFINE Q == ShutOps(p) \cup {<<"drop">>, <<"close">>}
  <2>0. Q \subseteq Ops \ AnyChanOps
    BY OtherOps
  <2>1. PICK h \in Seq(ShutOps(p)) : Shutdown(p) = Cat(Cat(<< <<"drop">> >>, h), << <<"close">> >>)
    BY ShutdownIs
  <2>2. << <<"drop">> >> \in Seq(Q) /\ << <<"close">> >> \in Seq(Q)
    <3>1. <<"drop">> \in Q /\ <<"close">> \in Q
      OBVIOUS
    <3>. HIDE DEF Q
    <3>. QED  BY ONLY <3>1
  <2>3. h \in Seq(Q)
    <3>1. ShutOps(p) \subseteq Q
      OBVIOUS
    <3>. QED  BY ONLY <2>1, <3>1, SeqMonotonic
  <2>. HIDE DEF Q
  <2>4. Cat(<< <<"drop">> >>, h) \in Seq(Q)
    BY ONLY <2>2, <2>3, CatType
  <2>5. Shutdown(p) \in Seq(Q)
    BY ONLY <2>1, <2>2, <2>4, CatType
  <2>. QED  BY <2>0, <2>5, LaneSilent
<1>5. Hist(LaneF(q), Program[p]) = Cat(Cat(LaneSeq, <<>>), <<>>)
  BY ONLY <1>1, <1>2, <1>3, <1>4, ThreeParts, p \in Workers DEF LaneSeq
<1>6. LaneSeq \in Seq(LaneSet)
  BY LaneSeqLength
<1>. QED  BY ONLY <1>2, <1>3, <1>4, <1>5, <1>6, CatEmpty DEF LaneSeq

\* How many channels a worker has with a peer: two after the set-up, all of them after the contexts.
LEMMA NumChansFacts ==
  ASSUME NEW p \in Workers, NEW q \in Workers \ {p}, NEW i \in 1 .. Len(Program[p])
  PROVE  /\ NumChans(p, q, i) \in Nat /\ NumChans(p, q, i) <= Len(LaneSeq)
         /\ NumChans(p, q, 1) = 0
         /\ i > NewEnd[p] => NumChans(p, q, i) >= 2
         /\ i > InitEnd(p) => NumChans(p, q, i) = Len(LaneSeq)
<1>. DEFINE f == LaneF(q)
<1>0. f \in Traces(Ops, LaneSet)
  BY LaneType
<1>. HIDE DEF f
<1>1. Len(Program[p]) \in Nat /\ i \in 1 .. Len(Program[p]) + 1
  BY Where
<1>2. HistAt(f, p, i) \in Seq(LaneSet) /\ Pre(HistAt(f, p, i), LaneSeq)
  BY <1>0, <1>1, HistAtPre, LaneTotal DEF f
<1>3. HistAt(f, p, 1) = <<>>
  BY <1>0, HistAtStep
<1>4. ASSUME i > NewEnd[p] PROVE Len(HistAt(f, p, i)) >= 2
  <2>. DEFINE a == NewNetwork(p)  b == Cat(Cat(InitContexts(p), Work(p)), Shutdown(p))
  <2>1. a \in Seq(Ops) /\ InitContexts(p) \in Seq(Ops) /\ Work(p) \in Seq(Ops) /\ Shutdown(p) \in Seq(Ops)
        /\ Program[p] = Cat(Cat(Cat(a, InitContexts(p)), Work(p)), Shutdown(p)) /\ NewEnd[p] = Len(a)
    BY ProgramIs
  <2>2. \A x, y, z \in Seq(Ops) : Cat(x, y) \in Seq(Ops) /\ Cat(Cat(x, y), z) = Cat(x, Cat(y, z))
    BY CatType, CatAssociative
  <2>. HIDE DEF a
  <2>3. b \in Seq(Ops) /\ Program[p] = Cat(a, b)
    <3>1. Cat(InitContexts(p), Work(p)) \in Seq(Ops)
      BY ONLY <2>1, <2>2
    <3>. QED  BY ONLY <2>1, <2>2, <3>1
  <2>. HIDE DEF b
  <2>. DEFINE n == i - 1 - Len(a)  r == Hist(f, SubSeq(b, 1, n))
  <2>4. HistAt(f, p, i) = Cat(Hist(f, a), r)
    <3>1. a \in Seq(Ops) /\ i > Len(a)
      BY <1>4, <2>1
    <3>. QED  BY ONLY <1>0, <1>1, <2>3, <3>1, p \in Workers, HistAtSplit
  <2>5. Hist(f, a) = <<0, 0>>
    BY NewLane DEF f, a
  <2>6. r \in Seq(LaneSet) /\ <<0, 0>> \in Seq(LaneSet)
    <3>0. Len(Program[p]) = Len(a) + Len(b) /\ Len(a) \in Nat /\ Len(b) \in Nat
      <4>1. a \in Seq(Ops)
        BY ONLY <2>1
      <4>. QED  BY ONLY <2>3, <4>1, CatLen
    <3>1. n \in 0 .. Len(b)
      BY <1>1, <1>4, <2>1, <3>0
    <3>2. SubSeq(b, 1, n) \in Seq(Ops)
      BY <2>3, <3>0, <3>1
    <3>3. 0 \in LaneSet
      BY ParametersTyped
    <3>. HIDE DEF n
    <3>4. r \in Seq(LaneSet)
      BY ONLY <1>0, <3>2, HistType
    <3>5. <<0, 0>> \in Seq(LaneSet)
      BY ONLY <3>3
    <3>. QED  BY ONLY <3>4, <3>5
  <2>. HIDE DEF r
  <2>7. Len(HistAt(f, p, i)) = Len(<<0, 0>>) + Len(r)
    BY ONLY <2>4, <2>5, <2>6, CatLen
  <2>8. Len(r) \in Nat
    BY ONLY <2>6
  <2>. QED  BY ONLY <2>7, <2>8
<1>5. ASSUME i > InitEnd(p) PROVE Len(HistAt(f, p, i)) = Len(LaneSeq)
  <2>. DEFINE a == Cat(NewNetwork(p), InitContexts(p))  b == Cat(Work(p), Shutdown(p))
  <2>1. NewNetwork(p) \in Seq(Ops) /\ InitContexts(p) \in Seq(Ops) /\ Work(p) \in Seq(Ops) /\ Shutdown(p) \in Seq(Ops)
        /\ Program[p] = Cat(Cat(Cat(NewNetwork(p), InitContexts(p)), Work(p)), Shutdown(p))
    BY ProgramIs
  <2>2. \A x, y, z \in Seq(Ops) : Cat(x, y) \in Seq(Ops) /\ Cat(Cat(x, y), z) = Cat(x, Cat(y, z))
    BY CatType, CatAssociative
  <2>3. a \in Seq(Ops) /\ b \in Seq(Ops)
    BY ONLY <2>1, <2>2
  <2>4. Program[p] = Cat(a, b)
    BY ONLY <2>1, <2>2, <2>3
  <2>5. Len(a) = InitEnd(p)
    BY ONLY <2>1, CatLen DEF InitEnd
  <2>6. Hist(f, a) = LaneSeq
    <3>1. Hist(f, a) = Cat(Hist(f, NewNetwork(p)), Hist(f, InitContexts(p)))
      BY ONLY <1>0, <2>1, HistConcat
    <3>. QED  BY <3>1, LaneTotal DEF f
  <2>. HIDE DEF a, b
  <2>. DEFINE n == i - 1 - Len(a)  r == Hist(f, SubSeq(b, 1, n))
  <2>7. HistAt(f, p, i) = Cat(LaneSeq, r)
    BY <1>0, <1>1, <1>5, <2>3, <2>4, <2>5, <2>6, HistAtSplit
  <2>8. r \in Seq(LaneSet)
    <3>0. Len(Program[p]) = Len(a) + Len(b) /\ Len(a) \in Nat /\ Len(b) \in Nat
      BY ONLY <2>3, <2>4, CatLen
    <3>1. n \in 0 .. Len(b)
      BY <1>1, <1>5, <2>5, <3>0
    <3>2. SubSeq(b, 1, n) \in Seq(Ops)
      BY <2>3, <3>0, <3>1
    <3>. HIDE DEF n
    <3>. QED  BY ONLY <1>0, <3>2, HistType
  <2>. HIDE DEF r
  <2>9. LaneSeq \in Seq(LaneSet)
    BY LaneSeqLength
  <2>10. Len(HistAt(f, p, i)) = Len(LaneSeq) + Len(r)
    BY ONLY <2>7, <2>8, <2>9, CatLen
  <2>11. Len(r) \in Nat /\ Len(LaneSeq) \in Nat
    BY ONLY <2>8, <2>9
  <2>12. Len(HistAt(f, p, i)) <= Len(LaneSeq)
    BY <1>2 DEF Pre
  <2>. QED  BY ONLY <2>10, <2>11, <2>12
<1>6. Len(HistAt(f, p, i)) \in Nat
  BY ONLY <1>2
<1>7. Len(HistAt(f, p, 1)) = 0
  BY ONLY <1>3
<1>. QED  BY ONLY <1>2, <1>4, <1>5, <1>6, <1>7 DEF NumChans, f, Pre

\* Only open_bi and accept_bi with a peer add a channel with it, on the lane they name.
LEMMA NumChansStep ==
  ASSUME NEW p \in Workers, NEW q \in Workers \ {p}, NEW i \in 1 .. Len(Program[p])
  PROVE  IF Program[p][i][1] \in {"open_bi", "accept_bi"} /\ Program[p][i][2] = q
         THEN /\ NumChans(p, q, i + 1) = NumChans(p, q, i) + 1
              /\ NumChans(p, q, i) + 1 <= Len(LaneSeq)
              /\ LaneSeq[NumChans(p, q, i) + 1] = Program[p][i][3]
         ELSE NumChans(p, q, i + 1) = NumChans(p, q, i)
<1>. DEFINE f == LaneF(q)  op == Program[p][i]  h == HistAt(f, p, i)
<1>0. f \in Traces(Ops, LaneSet)
  BY LaneType
<1>1. op \in Ops /\ h \in Seq(LaneSet) /\ HistAt(f, p, i + 1) = Cat(h, f[op]) /\ f[op] \in Seq(LaneSet)
  BY <1>0, HistAtStep
<1>2. f[op] = IF op[1] \in {"open_bi", "accept_bi"} /\ op[2] = q THEN <<op[3]>> ELSE <<>>
  BY <1>1, LaneType
<1>3. Pre(HistAt(f, p, i + 1), LaneSeq)
  <2>1. Len(Program[p]) \in Nat /\ i + 1 \in 1 .. Len(Program[p]) + 1
    BY Where
  <2>. QED  BY <1>0, <2>1, HistAtPre, LaneTotal
<1>4. NumChans(p, q, i) = Len(h) /\ NumChans(p, q, i + 1) = Len(HistAt(f, p, i + 1))
  BY DEF NumChans
<1>. HIDE DEF f, op, h
<1>5. CASE op[1] \in {"open_bi", "accept_bi"} /\ op[2] = q
  <2>1. HistAt(f, p, i + 1) = Append(h, op[3]) /\ op[3] \in LaneSet
    <3>1. f[op] = <<op[3]>>
      BY ONLY <1>2, <1>5
    <3>2. op[3] \in LaneSet
      BY ONLY <1>1, <3>1
    <3>. QED  BY ONLY <1>1, <3>1, <3>2, AppendIsConcat DEF Cat
  <2>2. Len(HistAt(f, p, i + 1)) = Len(h) + 1 /\ HistAt(f, p, i + 1)[Len(h) + 1] = op[3] /\ Len(h) \in Nat
    BY ONLY <1>1, <2>1
  <2>3. Len(h) + 1 <= Len(LaneSeq) /\ LaneSeq[Len(h) + 1] = op[3]
    BY ONLY <1>3, <2>2 DEF Pre
  <2>. QED  BY ONLY <1>4, <1>5, <2>2, <2>3 DEF op
<1>6. CASE ~(op[1] \in {"open_bi", "accept_bi"} /\ op[2] = q)
  <2>1. HistAt(f, p, i + 1) = Cat(h, <<>>)
    BY ONLY <1>1, <1>2, <1>6
  <2>2. HistAt(f, p, i + 1) = h
    BY ONLY <1>1, <2>1, CatEmpty
  <2>. QED  BY ONLY <1>4, <1>6, <2>2 DEF op
<1>. QED  BY <1>5, <1>6

-----------------------------------------------------------------------------
(* The messages the programs exchange: on the channel of every context,     *)
(* what a worker sends to another one is what that one expects, in the same *)
(* order.                                                                  *)

\* The keys setup_bitcomp of q sends, once q knows the seed of its predecessor.
BitKeys(q) == [n \in 0 .. (IF q = 0 THEN 0 ELSE 1) |-> <<PrevId(q), n>>]
Msgs == Workers \cup {BitKeys(q) : q \in Workers} \cup Tags

\* The messages of a call that is cut into chunks, in context k.
ChunkMsgs(c, k) ==
  IF k \in 1 .. NumChunks(CALLS[c].len) THEN [r \in 1 .. CALLS[c].rounds |-> <<c, k - 1, r>>] ELSE <<>>

\* The messages from q to p in context k, for each call of the sender or the receiver.
Traffic(q, p, k, peer, prf, bit, msg) ==
  [op \in Ops |->
     IF op[1] = prf THEN IF p = NextId(q) /\ k = 0 THEN <<q>> ELSE <<>>
     ELSE IF op[1] = bit THEN IF p = NextId(q) /\ k = 0 THEN <<BitKeys(q)>> ELSE <<>>
     ELSE IF op[1] = msg THEN IF op[2] = peer /\ op[3] = k THEN <<op[4]>> ELSE <<>>
     ELSE IF op[1] = "par" THEN IF p = NextId(q) THEN ChunkMsgs(op[2], k) ELSE <<>>
     ELSE <<>>]
Emit(q, p, k) == Traffic(q, p, k, p, "prf_send", "bitcomp_send", "send")
Consume(q, p, k) == Traffic(q, p, k, q, "prf_recv", "bitcomp_recv", "recv")

\* A chunk sends one message per round, tagged with its call, its index and the round.
LEMMA ChunkMsgsType ==
  ASSUME NEW c \in Parallel, NEW k \in Ctxs
  PROVE  /\ ChunkMsgs(c, k) \in Seq(Msgs)
         /\ k \in 1 .. NumChunks(CALLS[c].len) =>
               /\ Len(ChunkMsgs(c, k)) = CALLS[c].rounds
               /\ \A r \in 1 .. CALLS[c].rounds : ChunkMsgs(c, k)[r] = <<c, k - 1, r>>
<1>. DEFINE n == CALLS[c].rounds
<1>0. n \in Nat /\ c \in Nat
  BY CallsTyped DEF Parallel
<1>. HIDE DEF n
<1>1. CASE k \in 1 .. NumChunks(CALLS[c].len)
  <2>1. k - 1 \in Nat
    BY <1>1, ParametersTyped DEF Ctxs
  <2>2. \A r \in 1 .. n : <<c, k - 1, r>> \in Tags
    BY <1>0, <2>1 DEF Tags
  <2>3. ChunkMsgs(c, k) = [r \in 1 .. n |-> <<c, k - 1, r>>]
    BY <1>1 DEF ChunkMsgs, n
  <2>4. \A r \in 1 .. n : <<c, k - 1, r>> \in Msgs
    BY <2>2 DEF Msgs
  <2>5. ChunkMsgs(c, k) \in Seq(Msgs) /\ Len(ChunkMsgs(c, k)) = n
    BY ONLY <1>0, <2>3, <2>4
  <2>. QED  BY <2>3, <2>5 DEF n
<1>2. CASE ~(k \in 1 .. NumChunks(CALLS[c].len))
  BY <1>2, EmptySeq DEF ChunkMsgs
<1>. QED  BY <1>1, <1>2

\* What an operation emits or consumes between two workers is a sequence of messages.
LEMMA TrafficType ==
  ASSUME NEW q \in Workers, NEW p \in Workers \ {q}, NEW k \in Ctxs
  PROVE  Emit(q, p, k) \in Traces(Ops, Msgs) /\ Consume(q, p, k) \in Traces(Ops, Msgs)
<1>1. ASSUME NEW op \in Ops, op[1] \in {"send", "recv"} PROVE op[4] \in Msgs
  <2>1. op \in AnyMsgOps
    BY <1>1 DEF Ops, SetupOps, AnyChanOps, RngOps, StarOps, ParOps, AnyShutOps
  <2>. QED  BY <2>1 DEF AnyMsgOps, Msgs
<1>2. ASSUME NEW op \in Ops, op[1] = "par" PROVE ChunkMsgs(op[2], k) \in Seq(Msgs)
  <2>1. op \in ParOps
    BY <1>2 DEF Ops, SetupOps, AnyChanOps, RngOps, StarOps, AnyMsgOps, AnyShutOps
  <2>2. op[2] \in Parallel
    BY <2>1 DEF ParOps
  <2>. QED  BY <2>2, ChunkMsgsType
<1>3. <<q>> \in Seq(Msgs) /\ <<BitKeys(q)>> \in Seq(Msgs) /\ <<>> \in Seq(Msgs)
  <2>1. q \in Msgs /\ BitKeys(q) \in Msgs
    BY DEF Msgs
  <2>. QED  BY ONLY <2>1
<1>4. \A op \in Ops : op[1] \in {"send", "recv"} => <<op[4]>> \in Seq(Msgs)
  <2>. SUFFICES ASSUME NEW op \in Ops, op[1] \in {"send", "recv"} PROVE <<op[4]>> \in Seq(Msgs)
    OBVIOUS
  <2>1. op[4] \in Msgs
    BY <1>1
  <2>. QED  BY ONLY <2>1
<1>. DEFINE D == Seq(Msgs)
<1>. HIDE DEF D
<1>5. \A op \in Ops : op[1] = "par" => ChunkMsgs(op[2], k) \in D
  BY <1>2 DEF D
<1>6. <<q>> \in D /\ <<BitKeys(q)>> \in D /\ <<>> \in D /\ \A op \in Ops : op[1] \in {"send", "recv"} => <<op[4]>> \in D
  BY <1>3, <1>4 DEF D
<1>7. ASSUME NEW peer, NEW prf, NEW bit, NEW msg \in {"send", "recv"}
      PROVE  Traffic(q, p, k, peer, prf, bit, msg) \in [Ops -> D]
  BY ONLY <1>5, <1>6, msg \in {"send", "recv"} DEF Traffic
<1>. QED  BY <1>7 DEF Emit, Consume, Traces, D

-----------------------------------------------------------------------------
(* Calls without messages *)

Quiet ==
  SetupOps \cup AnyChanOps \cup StarOps \cup AnyShutOps \cup {<<"fork_rngs">>, <<"drop">>, <<"close">>}

\* The set-up, fork, star and shutdown operations exchange nothing between workers.
LEMMA QuietOps ==
  ASSUME NEW w \in Workers
  PROVE  /\ Quiet \subseteq Ops /\ NewOps(w) \subseteq Quiet /\ ForkOps(w) \subseteq Quiet
         /\ StarOps \subseteq Quiet
         /\ ShutOps(w) \cup {<<"drop">>, <<"close">>} \subseteq Quiet
<1>1. ChanOps(w) \subseteq AnyChanOps
  BY DEF ChanOps, AnyChanOps
<1>2. ShutOps(w) \subseteq AnyShutOps
  BY ParametersTyped DEF ShutOps, AnyShutOps, Procs
<1>. QED  BY <1>1, <1>2 DEF Quiet, Ops, NewOps, ForkOps

\* A quiet operation emits and consumes nothing.
LEMMA TrafficQuiet ==
  ASSUME NEW q \in Workers, NEW p \in Workers \ {q}, NEW k \in Ctxs, NEW op \in Quiet
  PROVE  Emit(q, p, k)[op] = <<>> /\ Consume(q, p, k)[op] = <<>>
<1>1. op \in Ops
  BY QuietOps
<1>2. op[1] \notin {"prf_send", "prf_recv", "bitcomp_send", "bitcomp_recv", "send", "recv", "par"}
  BY DEF Quiet, SetupOps, AnyChanOps, StarOps, AnyShutOps
<1>. QED  BY <1>1, <1>2 DEF Emit, Consume, Traffic

\* What is left of a program: the exchange of the seeds and the work.
LEMMA LoudParts ==
  ASSUME NEW T, NEW w \in Workers, NEW f \in Traces(Ops, T), \A op \in Quiet : f[op] = <<>>
  PROVE  /\ Hist(f, NewNetwork(w)) = <<>> /\ Hist(f, Shutdown(w)) = <<>>
         /\ Hist(f, Program[w]) =
              Cat(Hist(f, First5),
                  Cat(Cat(Hist(f, SyncWithParties(w)), Hist(f, FlattenSeq(Dabits(w)))),
                      Hist(f, FlattenSeq(Pars(w)))))
<1>0. Quiet \in SUBSET Ops
  BY QuietOps
<1>1. \A s \in Seq(Quiet) : Hist(f, s) = <<>>
  BY ONLY <1>0, f \in Traces(Ops, T), \A op \in Quiet : f[op] = <<>>, HistSilent
<1>2. \A s \in Seq(Quiet) : s \in Seq(Ops)
  BY ONLY <1>0, SeqMonotonic
<1>3. Hist(f, NewNetwork(w)) = <<>>
  <2>1. NewNetwork(w) \in Seq(NewOps(w)) /\ NewOps(w) \subseteq Quiet
    BY NewLane, QuietOps
  <2>2. NewNetwork(w) \in Seq(Quiet)
    BY ONLY <2>1, SeqMonotonic
  <2>. QED  BY ONLY <1>1, <2>2
<1>4. Hist(f, Shutdown(w)) = <<>>
  <2>. DEFINE Q == ShutOps(w) \cup {<<"drop">>, <<"close">>}
  <2>0. Q \subseteq Quiet /\ <<"drop">> \in Quiet /\ <<"close">> \in Quiet
    BY QuietOps
  <2>1. PICK h \in Seq(ShutOps(w)) : Shutdown(w) = Cat(Cat(<< <<"drop">> >>, h), << <<"close">> >>)
    BY ShutdownIs
  <2>2. << <<"drop">> >> \in Seq(Quiet) /\ << <<"close">> >> \in Seq(Quiet)
    BY ONLY <2>0
  <2>3. h \in Seq(Quiet)
    <3>1. ShutOps(w) \subseteq Quiet
      BY <2>0
    <3>. QED  BY ONLY <2>1, <3>1, SeqMonotonic
  <2>4. Cat(<< <<"drop">> >>, h) \in Seq(Quiet)
    BY ONLY <2>2, <2>3, CatType
  <2>5. Shutdown(w) \in Seq(Quiet)
    BY ONLY <2>1, <2>2, <2>4, CatType
  <2>. QED  BY ONLY <1>1, <2>5
<1>5. \A x, y \in Seq(Ops) : Cat(x, y) \in Seq(Ops) /\ Hist(f, Cat(x, y)) = Cat(Hist(f, x), Hist(f, y))
  BY ONLY f \in Traces(Ops, T), HistConcat, CatType
<1>6. \A x \in Seq(Ops) : Hist(f, x) \in Seq(T)
  BY ONLY f \in Traces(Ops, T), HistType
<1>7. \A x \in Seq(T) : Cat(x, <<>>) = x /\ Cat(<<>>, x) = x
  BY ONLY CatEmpty
<1>8. Hist(f, InitContexts(w)) = Hist(f, First5) /\ First5 \in Seq(Ops)
  <2>. DEFINE F == FlattenSeq(ForkProgs(w))
  <2>1. InitContexts(w) = Cat(First5, F) /\ First5 \in Seq(RngOps \cup {<<"fork_rngs">>}) /\ F \in Seq(ForkOps(w))
    BY InitLane
  <2>. HIDE DEF F
  <2>2. F \in Seq(Quiet)
    <3>1. ForkOps(w) \subseteq Quiet
      BY QuietOps
    <3>. QED  BY ONLY <2>1, <3>1, SeqMonotonic
  <2>3. First5 \in Seq(Ops)
    <3>1. RngOps \cup {<<"fork_rngs">>} \subseteq Ops
      BY DEF Ops
    <3>. QED  BY ONLY <2>1, <3>1, SeqMonotonic
  <2>4. F \in Seq(Ops) /\ Hist(f, F) = <<>>
    BY ONLY <1>1, <1>2, <2>2
  <2>5. Hist(f, InitContexts(w)) = Cat(Hist(f, First5), <<>>)
    BY ONLY <1>5, <2>1, <2>3, <2>4
  <2>. QED  BY ONLY <1>6, <1>7, <2>3, <2>5
<1>9. /\ Hist(f, Work(w)) = Cat(Cat(Hist(f, SyncWithParties(w)), Hist(f, FlattenSeq(Dabits(w)))),
                             Hist(f, FlattenSeq(Pars(w))))
      /\ Work(w) \in Seq(Ops)
  <2>. DEFINE a == Start  b == SyncWithParties(w)  c == FlattenSeq(Dabits(w))
              d == FlattenSeq(Pars(w))  e == Reply  g == Result(w)
  <2>1. Work(w) = Cat(Cat(Cat(Cat(a, Cat(b, c)), d), e), g)
    BY WorkIs
  <2>2. a \in Seq(StarOps) /\ e \in Seq(StarOps) /\ g \in Seq(StarOps)
        /\ b \in Seq(MsgOps(w)) /\ c \in Seq(MsgOps(w)) /\ d \in Seq(WorkOps(w))
    BY WorkTyped
  <2>3. StarOps \subseteq Quiet /\ MsgOps(w) \subseteq Ops /\ WorkOps(w) \subseteq Ops
    BY QuietOps, OpsOf DEF WorkOps
  <2>. HIDE DEF a, b, c, d, e, g
  <2>4. a \in Seq(Quiet) /\ e \in Seq(Quiet) /\ g \in Seq(Quiet)
    BY ONLY <2>2, <2>3, SeqMonotonic
  <2>5. b \in Seq(Ops) /\ c \in Seq(Ops) /\ d \in Seq(Ops)
    BY ONLY <2>2, <2>3, SeqMonotonic
  <2>6. a \in Seq(Ops) /\ e \in Seq(Ops) /\ g \in Seq(Ops)
        /\ Hist(f, a) = <<>> /\ Hist(f, e) = <<>> /\ Hist(f, g) = <<>>
    BY ONLY <1>1, <1>2, <2>4
  <2>7. Cat(b, c) \in Seq(Ops) /\ Hist(f, Cat(b, c)) = Cat(Hist(f, b), Hist(f, c))
    BY ONLY <1>5, <2>5
  <2>. DEFINE x == Cat(a, Cat(b, c))
  <2>8. x \in Seq(Ops) /\ Hist(f, x) = Hist(f, Cat(b, c))
    <3>1. x \in Seq(Ops) /\ Hist(f, x) = Cat(<<>>, Hist(f, Cat(b, c)))
      BY ONLY <1>5, <2>6, <2>7
    <3>2. Hist(f, Cat(b, c)) \in Seq(T)
      BY ONLY <1>6, <2>7
    <3>. QED  BY ONLY <1>7, <3>1, <3>2
  <2>. HIDE DEF x
  <2>9. Cat(x, d) \in Seq(Ops) /\ Hist(f, Cat(x, d)) = Cat(Hist(f, x), Hist(f, d))
    BY ONLY <1>5, <2>5, <2>8
  <2>. DEFINE y == Cat(x, d)
  <2>10. Cat(y, e) \in Seq(Ops) /\ Hist(f, Cat(y, e)) = Hist(f, y)
    <3>1. Cat(y, e) \in Seq(Ops) /\ Hist(f, Cat(y, e)) = Cat(Hist(f, y), <<>>)
      BY ONLY <1>5, <2>6, <2>9
    <3>2. Hist(f, y) \in Seq(T)
      BY ONLY <1>6, <2>9
    <3>. HIDE DEF y
    <3>. QED  BY ONLY <1>7, <3>1, <3>2
  <2>. DEFINE z == Cat(y, e)
  <2>11. Cat(z, g) \in Seq(Ops) /\ Hist(f, Cat(z, g)) = Hist(f, z)
    <3>. HIDE DEF y
    <3>1. Cat(z, g) \in Seq(Ops) /\ Hist(f, Cat(z, g)) = Cat(Hist(f, z), <<>>)
      BY ONLY <1>5, <2>6, <2>10
    <3>2. Hist(f, z) \in Seq(T)
      BY ONLY <1>6, <2>10
    <3>. HIDE DEF z
    <3>. QED  BY ONLY <1>7, <3>1, <3>2
  <2>12. Work(w) = Cat(z, g)
    BY ONLY <2>1 DEF x
  <2>13. Hist(f, Work(w)) = Cat(Cat(Hist(f, b), Hist(f, c)), Hist(f, d)) /\ Work(w) \in Seq(Ops)
    BY ONLY <2>7, <2>8, <2>9, <2>10, <2>11, <2>12
  <2>. QED  BY ONLY <2>13 DEF b, c, d
<1>. DEFINE W == Cat(Cat(Hist(f, SyncWithParties(w)), Hist(f, FlattenSeq(Dabits(w)))), Hist(f, FlattenSeq(Pars(w))))
<1>. HIDE DEF W
<1>10. Hist(f, Program[w]) = Cat(Cat(Cat(Hist(f, NewNetwork(w)), Hist(f, InitContexts(w))),
                                          Hist(f, Work(w))), Hist(f, Shutdown(w)))
  BY ThreeParts
<1>11. Hist(f, Work(w)) = W
  BY <1>9 DEF W
<1>12. Hist(f, Program[w]) = Cat(Cat(Cat(<<>>, Hist(f, First5)), W), <<>>)
  BY ONLY <1>3, <1>4, <1>8, <1>10, <1>11
<1>13. Hist(f, First5) \in Seq(T) /\ W \in Seq(T)
  BY ONLY <1>6, <1>8, <1>9, <1>11
<1>14. Cat(Hist(f, First5), W) \in Seq(T)
  BY ONLY <1>13, CatType
<1>15. Hist(f, Program[w]) = Cat(Hist(f, First5), W)
  BY ONLY <1>7, <1>12, <1>13, <1>14
<1>. QED  BY <1>3, <1>4, <1>15 DEF W

-----------------------------------------------------------------------------
(* Sender and receiver, part by part *)

\* Lists of programs that agree one by one agree when they run in a row.
LEMMA HistFlattenEqual ==
  ASSUME NEW O, NEW T, NEW f \in Traces(O, T), NEW g \in Traces(O, T),
         NEW ps \in Lists(O), NEW qs \in Lists(O), Len(ps) = Len(qs),
         \A i \in 1 .. Len(ps) : Hist(f, ps[i]) = Hist(g, qs[i])
  PROVE  Hist(f, FlattenSeq(ps)) = Hist(g, FlattenSeq(qs))
<1>. DEFINE C == Seq(O)  D == Seq(T)  h == [i \in 1 .. Len(ps) |-> Hist(f, ps[i])]
<1>1. ps \in Seq(C)
  BY DEF Lists
<1>2. \A i \in 1 .. Len(ps) : Hist(f, ps[i]) \in D
  <2>1. \A i \in 1 .. Len(ps) : ps[i] \in C
    <3>. HIDE DEF C
    <3>. QED  BY ONLY <1>1
  <2>2. \A s \in C : Hist(f, s) \in D
    BY ONLY f \in Traces(O, T), HistType
  <2>. QED  BY ONLY <2>1, <2>2
<1>3. h \in Seq(D) /\ Len(h) = Len(ps) /\ \A i \in 1 .. Len(ps) : h[i] = Hist(f, ps[i])
  <2>1. Len(ps) \in Nat
    <3>. HIDE DEF C
    <3>. QED  BY ONLY <1>1
  <2>. HIDE DEF C, D
  <2>. QED  BY ONLY <1>2, <2>1
<1>. HIDE DEF h
<1>4. h \in Lists(T)
  BY <1>3 DEF Lists
<1>5. Hist(f, FlattenSeq(ps)) = FlattenSeq(h)
  <2>1. Len(h) = Len(ps) /\ \A i \in 1 .. Len(ps) : h[i] = Hist(f, ps[i])
    BY ONLY <1>3
  <2>. QED  BY ONLY <1>4, <2>1, f \in Traces(O, T), ps \in Lists(O), HistFlatten
<1>6. Hist(g, FlattenSeq(qs)) = FlattenSeq(h)
  <2>1. Len(h) = Len(qs) /\ \A i \in 1 .. Len(qs) : h[i] = Hist(g, qs[i])
    BY ONLY <1>3, Len(ps) = Len(qs), \A i \in 1 .. Len(ps) : Hist(f, ps[i]) = Hist(g, qs[i])
  <2>. QED  BY ONLY <1>4, <2>1, g \in Traces(O, T), qs \in Lists(O), HistFlatten
<1>. QED  BY ONLY <1>5, <1>6

\* The history of three operations.
LEMMA HistThree ==
  ASSUME NEW O, NEW T, NEW f \in Traces(O, T), NEW a \in O, NEW b \in O, NEW c \in O
  PROVE  Hist(f, <<a, b, c>>) = Cat(Cat(f[a], f[b]), f[c])
<1>1. <<a, b, c>> = Append(<<a, b>>, c) /\ <<a, b>> \in Seq(O)
  OBVIOUS
<1>2. Hist(f, Append(<<a, b>>, c)) = Cat(Hist(f, <<a, b>>), f[c])
  BY ONLY <1>1, f \in Traces(O, T), c \in O, HistAppend
<1>3. Hist(f, <<a, b>>) = Cat(f[a], f[b])
  BY HistTwo
<1>. QED  BY ONLY <1>1, <1>2, <1>3

\* One message to the next worker, one from the previous one.
LEMMA RingPair ==
  ASSUME NEW q \in Workers, NEW p \in Workers \ {q}, NEW k \in Ctxs, NEW t \in Tags
  PROVE  /\ Hist(Emit(q, p, k), << <<"send", NextId(q), 0, t>>, <<"recv", PrevId(q), 0, t>> >>)
              = IF p = NextId(q) /\ k = 0 THEN <<t>> ELSE <<>>
         /\ Hist(Consume(q, p, k), << <<"send", NextId(p), 0, t>>, <<"recv", PrevId(p), 0, t>> >>)
              = IF p = NextId(q) /\ k = 0 THEN <<t>> ELSE <<>>
<1>. DEFINE E == Emit(q, p, k)  C == Consume(q, p, k)  S(w) == <<"send", NextId(w), 0, t>>
            R(w) == <<"recv", PrevId(w), 0, t>>  z == IF p = NextId(q) /\ k = 0 THEN <<t>> ELSE <<>>
<1>1. E \in Traces(Ops, Msgs) /\ C \in Traces(Ops, Msgs)
  BY TrafficType
<1>2. \A w \in Workers : S(w) \in Ops /\ R(w) \in Ops
  BY Neighbours DEF Ops, AnyMsgOps
<1>3. E[S(q)] = z /\ E[R(q)] = <<>>
  <2>1. S(q) \in Ops /\ R(q) \in Ops
    BY <1>2
  <2>. QED  BY <2>1 DEF Emit, Traffic
<1>4. C[S(p)] = <<>> /\ C[R(p)] = z
  <2>1. S(p) \in Ops /\ R(p) \in Ops
    BY <1>2
  <2>2. p = NextId(q) <=> PrevId(p) = q
    BY Neighbours
  <2>. QED  BY <2>1, <2>2 DEF Consume, Traffic
<1>5. Cat(z, <<>>) = z /\ Cat(<<>>, z) = z
  BY CatSmall
<1>. HIDE DEF E, C, S, R, z
<1>6. Hist(E, <<S(q), R(q)>>) = Cat(z, <<>>)
  BY ONLY <1>1, <1>2, <1>3, HistTwo, q \in Workers
<1>7. Hist(C, <<S(p), R(p)>>) = Cat(<<>>, z)
  <2>1. p \in Workers
    OBVIOUS
  <2>. QED  BY ONLY <1>1, <1>2, <1>4, <2>1, HistTwo
<1>. QED  BY <1>5, <1>6, <1>7 DEF E, C, S, R, z

\* setup_prf and setup_bitcomp: what a worker sends its successor is what the successor receives.
LEMMA First5Agrees ==
  ASSUME NEW q \in Workers, NEW p \in Workers \ {q}, NEW k \in Ctxs
  PROVE  Hist(Emit(q, p, k), First5) = Hist(Consume(q, p, k), First5)
<1>. DEFINE E == Emit(q, p, k)  C == Consume(q, p, k)
            a == <<"prf_send">>  b == <<"prf_recv">>  c == <<"bitcomp_send">>  d == <<"bitcomp_recv">>
            e == <<"fork_rngs">>
            x == IF p = NextId(q) /\ k = 0 THEN <<q>> ELSE <<>>
            y == IF p = NextId(q) /\ k = 0 THEN <<BitKeys(q)>> ELSE <<>>
<1>1. E \in Traces(Ops, Msgs) /\ C \in Traces(Ops, Msgs)
  BY TrafficType
<1>2. a \in Ops /\ b \in Ops /\ c \in Ops /\ d \in Ops /\ e \in Ops
  BY DEF Ops, RngOps
<1>3. E[a] = x /\ E[b] = <<>> /\ E[c] = y /\ E[d] = <<>> /\ E[e] = <<>>
  BY <1>2 DEF Emit, Traffic
<1>4. C[a] = <<>> /\ C[b] = x /\ C[c] = <<>> /\ C[d] = y /\ C[e] = <<>>
  BY <1>2 DEF Consume, Traffic
<1>5. First5 = Append(Append(<<a, b, c>>, d), e) /\ <<a, b, c>> \in Seq(Ops) /\ Append(<<a, b, c>>, d) \in Seq(Ops)
  <2>. HIDE DEF a, b, c, d, e
  <2>1. First5 = <<a, b, c, d, e>>
    BY DEF First5, a, b, c, d, e
  <2>. QED  BY ONLY <1>2, <2>1
<1>. HIDE DEF E, C, a, b, c, d, e
<1>6. ASSUME NEW f \in Traces(Ops, Msgs)
      PROVE  Hist(f, First5) = Cat(Cat(Cat(Cat(f[a], f[b]), f[c]), f[d]), f[e])
  <2>1. Hist(f, Append(Append(<<a, b, c>>, d), e)) = Cat(Hist(f, Append(<<a, b, c>>, d)), f[e])
    BY ONLY <1>2, <1>5, <1>6, HistAppend
  <2>2. Hist(f, Append(<<a, b, c>>, d)) = Cat(Hist(f, <<a, b, c>>), f[d])
    BY ONLY <1>2, <1>5, <1>6, HistAppend
  <2>3. Hist(f, <<a, b, c>>) = Cat(Cat(f[a], f[b]), f[c])
    BY ONLY <1>2, <1>6, HistThree
  <2>. QED  BY ONLY <1>5, <2>1, <2>2, <2>3
<1>7. Hist(E, First5) = Cat(Cat(Cat(Cat(x, <<>>), y), <<>>), <<>>)
  BY ONLY <1>1, <1>3, <1>6
<1>8. Hist(C, First5) = Cat(Cat(Cat(Cat(<<>>, x), <<>>), y), <<>>)
  BY ONLY <1>1, <1>4, <1>6
<1>9. x \in Seq(Msgs) /\ y \in Seq(Msgs)
  <2>1. q \in Msgs /\ BitKeys(q) \in Msgs
    BY DEF Msgs
  <2>. QED  BY ONLY <2>1
<1>10. Cat(x, y) \in Seq(Msgs)
  BY ONLY <1>9, CatType
<1>11. \A s \in Seq(Msgs) : Cat(s, <<>>) = s /\ Cat(<<>>, s) = s
  BY ONLY CatEmpty
<1>. HIDE DEF x, y
<1>12. Hist(E, First5) = Cat(x, y)
  BY ONLY <1>7, <1>9, <1>10, <1>11
<1>13. Hist(C, First5) = Cat(x, y)
  BY ONLY <1>8, <1>9, <1>10, <1>11
<1>. QED  BY <1>12, <1>13 DEF E, C

\* One daBit chunk: what each worker sends another on the main channel is what that one receives.
LEMMA DabitAgrees ==
  ASSUME NEW q \in Workers, NEW p \in Workers \ {q}, NEW k \in Ctxs, NEW i \in Nat
  PROVE  Hist(Emit(q, p, k), Dabit(q, i)) = Hist(Consume(q, p, k), Dabit(p, i))
<1>. DEFINE E == Emit(q, p, k)  C == Consume(q, p, k)
            alpha == <<"alpha2", i>>  s20 == <<"s20", i>>  s12 == <<"s12", i>>
            z == IF k # -1 THEN <<>>
                 ELSE IF q = 0 /\ p = 2 THEN <<alpha>>
                 ELSE IF q = 1 /\ p = 2 THEN <<s12>>
                 ELSE IF q = 2 /\ p = 0 THEN <<s20>> ELSE <<>>
<1>1. E \in Traces(Ops, Msgs) /\ C \in Traces(Ops, Msgs)
  BY TrafficType
<1>2. alpha \in Tags /\ s20 \in Tags /\ s12 \in Tags
  BY DEF Tags
<1>3. \A t \in Tags, w \in Workers : <<"send", w, -1, t>> \in Ops /\ <<"recv", w, -1, t>> \in Ops
  BY DEF Ops, AnyMsgOps
<1>4. Cat(z, <<>>) = z /\ Cat(<<>>, z) = z /\ Cat(<<>>, <<>>) = <<>>
  BY CatSmall
<1>5. 0 \in Workers /\ 1 \in Workers /\ 2 \in Workers /\ q \in {0, 1, 2} /\ p \in {0, 1, 2} /\ p # q
  BY DEF Workers
<1>6. \A t \in Tags, w \in Workers :
        /\ E[<<"send", w, -1, t>>] = IF w = p /\ k = -1 THEN <<t>> ELSE <<>>
        /\ E[<<"recv", w, -1, t>>] = <<>>
        /\ C[<<"recv", w, -1, t>>] = IF w = q /\ k = -1 THEN <<t>> ELSE <<>>
        /\ C[<<"send", w, -1, t>>] = <<>>
  <2>. SUFFICES ASSUME NEW t \in Tags, NEW w \in Workers
                PROVE  /\ E[<<"send", w, -1, t>>] = IF w = p /\ k = -1 THEN <<t>> ELSE <<>>
                       /\ E[<<"recv", w, -1, t>>] = <<>>
                       /\ C[<<"recv", w, -1, t>>] = IF w = q /\ k = -1 THEN <<t>> ELSE <<>>
                       /\ C[<<"send", w, -1, t>>] = <<>>
    OBVIOUS
  <2>1. <<"send", w, -1, t>> \in Ops /\ <<"recv", w, -1, t>> \in Ops
    BY <1>3
  <2>. QED  BY <2>1 DEF Emit, Consume, Traffic
<1>. DEFINE S(w, t) == <<"send", w, -1, t>>  R(w, t) == <<"recv", w, -1, t>>
<1>7. \A t \in Tags, w \in Workers :
        /\ S(w, t) \in Ops /\ R(w, t) \in Ops
        /\ E[S(w, t)] = (IF w = p /\ k = -1 THEN <<t>> ELSE <<>>)
        /\ E[R(w, t)] = <<>>
        /\ C[R(w, t)] = (IF w = q /\ k = -1 THEN <<t>> ELSE <<>>)
        /\ C[S(w, t)] = <<>>
  BY ONLY <1>3, <1>6
<1>8. ASSUME NEW w
      PROVE  /\ w = 0 => Dabit(w, i) = <<S(2, alpha), R(2, s20)>>
             /\ w = 1 => Dabit(w, i) = <<S(2, s12)>>
             /\ w = 2 => Dabit(w, i) = <<R(0, alpha), R(1, s12), S(0, s20)>>
  BY DEF Dabit
<1>. HIDE DEF E, C, S, R, alpha, s20, s12
<1>80. S(2, alpha) \in Ops /\ R(2, s20) \in Ops /\ S(2, s12) \in Ops
       /\ R(0, alpha) \in Ops /\ R(1, s12) \in Ops /\ S(0, s20) \in Ops
  BY ONLY <1>2, <1>5, <1>7
<1>81. ASSUME NEW f \in Traces(Ops, Msgs), NEW a \in Ops, NEW b \in Ops, NEW c \in Ops
       PROVE  /\ Hist(f, <<a>>) = f[a] /\ Hist(f, <<a, b>>) = Cat(f[a], f[b])
              /\ Hist(f, <<a, b, c>>) = Cat(Cat(f[a], f[b]), f[c])
  <2>1. Hist(f, <<a>>) = f[a]
    BY ONLY <1>81, HistSingle
  <2>2. Hist(f, <<a, b>>) = Cat(f[a], f[b])
    BY ONLY <1>81, HistTwo
  <2>3. Hist(f, <<a, b, c>>) = Cat(Cat(f[a], f[b]), f[c])
    BY ONLY <1>81, HistThree
  <2>. QED  BY ONLY <2>1, <2>2, <2>3
<1>82. ASSUME NEW f \in {E, C}, NEW a \in {S(2, alpha), R(0, alpha), S(2, s12)}, NEW b \in {R(2, s20), R(1, s12)}, NEW c \in {S(0, s20)}
       PROVE  /\ Hist(f, <<a>>) = f[a] /\ Hist(f, <<a, b>>) = Cat(f[a], f[b])
              /\ Hist(f, <<a, b, c>>) = Cat(Cat(f[a], f[b]), f[c])
  <2>1. f \in Traces(Ops, Msgs) /\ a \in Ops /\ b \in Ops /\ c \in Ops
    BY ONLY <1>1, <1>80, <1>82
  <2>. QED  BY ONLY <1>81, <2>1
<1>9. Hist(E, Dabit(q, i)) = z
  <2>1. CASE q = 0
    <3>1. Hist(E, <<S(2, alpha), R(2, s20)>>) = Cat(E[S(2, alpha)], E[R(2, s20)])
      BY ONLY <1>82
    <3>2. E[S(2, alpha)] = z /\ E[R(2, s20)] = <<>>
      BY ONLY <1>2, <1>5, <1>7, <2>1
    <3>3. Dabit(q, i) = <<S(2, alpha), R(2, s20)>>
      BY ONLY <1>8, <2>1
    <3>. HIDE DEF z
    <3>. QED  BY ONLY <1>4, <3>1, <3>2, <3>3
  <2>2. CASE q = 1
    <3>1. Hist(E, <<S(2, s12)>>) = E[S(2, s12)]
      BY ONLY <1>82
    <3>2. E[S(2, s12)] = z
      BY ONLY <1>2, <1>5, <1>7, <2>2
    <3>3. Dabit(q, i) = <<S(2, s12)>>
      BY ONLY <1>8, <2>2
    <3>. QED  BY ONLY <3>1, <3>2, <3>3
  <2>3. CASE q = 2
    <3>1. Hist(E, <<R(0, alpha), R(1, s12), S(0, s20)>>) = Cat(Cat(E[R(0, alpha)], E[R(1, s12)]), E[S(0, s20)])
      BY ONLY <1>82
    <3>2. E[R(0, alpha)] = <<>> /\ E[R(1, s12)] = <<>> /\ E[S(0, s20)] = z
      BY ONLY <1>2, <1>5, <1>7, <2>3
    <3>3. Dabit(q, i) = <<R(0, alpha), R(1, s12), S(0, s20)>>
      BY ONLY <1>8, <2>3
    <3>. HIDE DEF z
    <3>. QED  BY ONLY <1>4, <3>1, <3>2, <3>3
  <2>. QED  BY ONLY <1>5, <2>1, <2>2, <2>3
<1>10. Hist(C, Dabit(p, i)) = z
  <2>1. CASE p = 0
    <3>1. Hist(C, <<S(2, alpha), R(2, s20)>>) = Cat(C[S(2, alpha)], C[R(2, s20)])
      BY ONLY <1>82
    <3>2. C[S(2, alpha)] = <<>> /\ C[R(2, s20)] = z
      <4>1. C[S(2, alpha)] = <<>> /\ C[R(2, s20)] = (IF q = 2 /\ k = -1 THEN <<s20>> ELSE <<>>)
        BY ONLY <1>2, <1>5, <1>7
      <4>2. z = IF q = 2 /\ k = -1 THEN <<s20>> ELSE <<>>
        BY ONLY <1>5, <2>1
      <4>. QED  BY ONLY <4>1, <4>2
    <3>3. Dabit(p, i) = <<S(2, alpha), R(2, s20)>>
      BY ONLY <1>8, <2>1
    <3>. HIDE DEF z
    <3>. QED  BY ONLY <1>4, <3>1, <3>2, <3>3
  <2>2. CASE p = 1
    <3>1. Hist(C, <<S(2, s12)>>) = C[S(2, s12)]
      BY ONLY <1>82
    <3>2. C[S(2, s12)] = z
      <4>1. C[S(2, s12)] = <<>>
        BY ONLY <1>2, <1>5, <1>7
      <4>2. z = <<>>
        BY ONLY <1>5, <2>2
      <4>. QED  BY ONLY <4>1, <4>2
    <3>3. Dabit(p, i) = <<S(2, s12)>>
      BY ONLY <1>8, <2>2
    <3>. QED  BY ONLY <3>1, <3>2, <3>3
  <2>3. CASE p = 2
    <3>1. Hist(C, <<R(0, alpha), R(1, s12), S(0, s20)>>) = Cat(Cat(C[R(0, alpha)], C[R(1, s12)]), C[S(0, s20)])
      BY ONLY <1>82
    <3>2. C[S(0, s20)] = <<>> /\ \/ C[R(0, alpha)] = z /\ C[R(1, s12)] = <<>>
                                 \/ C[R(0, alpha)] = <<>> /\ C[R(1, s12)] = z
      BY ONLY <1>2, <1>5, <1>7, <2>3
    <3>3. Dabit(p, i) = <<R(0, alpha), R(1, s12), S(0, s20)>>
      BY ONLY <1>8, <2>3
    <3>. HIDE DEF z
    <3>. QED  BY ONLY <1>4, <3>1, <3>2, <3>3
  <2>. QED  BY ONLY <1>5, <2>1, <2>2, <2>3
<1>. QED  BY <1>9, <1>10 DEF E, C

\* One parallel call, forked or sequential: what a worker sends on a context its peer receives on it.
LEMMA ParAgrees ==
  ASSUME NEW q \in Workers, NEW p \in Workers \ {q}, NEW k \in Ctxs, NEW c \in 1 .. Len(CALLS)
  PROVE  Hist(Emit(q, p, k), ParChunks(q, c)) = Hist(Consume(q, p, k), ParChunks(p, c))
<1>. DEFINE E == Emit(q, p, k)  C == Consume(q, p, k)
<1>0. p \in Workers
  OBVIOUS
<1>1. E \in Traces(Ops, Msgs) /\ C \in Traces(Ops, Msgs)
  BY TrafficType
<1>2. CASE NumChunks(CALLS[c].len) > 1
  <2>1. ParChunks(q, c) = << <<"par", c>> >> /\ ParChunks(p, c) = << <<"par", c>> >>
    BY <1>0, <1>2, WorkIs
  <2>2. <<"par", c>> \in Ops
    BY <1>2, CallsTyped DEF Ops, ParOps, Parallel
  <2>3. E[<<"par", c>>] = C[<<"par", c>>]
    BY <2>2 DEF Emit, Consume, Traffic
  <2>. HIDE DEF E, C
  <2>4. Hist(E, << <<"par", c>> >>) = E[<<"par", c>>] /\ Hist(C, << <<"par", c>> >>) = C[<<"par", c>>]
    BY ONLY <1>1, <2>2, HistSingle
  <2>. QED  BY <2>1, <2>3, <2>4 DEF E, C
<1>3. CASE ~(NumChunks(CALLS[c].len) > 1)
  <2>1. ParChunks(q, c) = FlattenSeq(Rounds(q, c)) /\ ParChunks(p, c) = FlattenSeq(Rounds(p, c))
    BY <1>0, <1>3, WorkIs
  <2>2. \A w \in Workers : Rounds(w, c) \in Lists(Ops) /\ Len(Rounds(w, c)) = CALLS[c].rounds
    <3>. SUFFICES ASSUME NEW w \in Workers PROVE Rounds(w, c) \in Lists(Ops) /\ Len(Rounds(w, c)) = CALLS[c].rounds
      OBVIOUS
    <3>1. Rounds(w, c) \in Lists(MsgOps(w)) /\ Len(Rounds(w, c)) = CALLS[c].rounds
      BY WorkTyped
    <3>2. MsgOps(w) \subseteq Ops
      BY OpsOf DEF WorkOps
    <3>3. Seq(MsgOps(w)) \subseteq Seq(Ops)
      BY ONLY <3>2, SeqMonotonic
    <3>. QED  BY ONLY <3>1, <3>3, SeqMonotonic DEF Lists
  <2>3. ASSUME NEW r \in 1 .. CALLS[c].rounds PROVE Hist(E, Rounds(q, c)[r]) = Hist(C, Rounds(p, c)[r])
    <3>1. <<c, 0, r>> \in Tags
      <4>1. CALLS[c].rounds \in Nat /\ c \in Nat
        BY CallsTyped
      <4>. QED  BY <4>1 DEF Tags
    <3>2. Rounds(q, c)[r] = Round(q, c, r) /\ Rounds(p, c)[r] = Round(p, c, r)
      BY DEF Rounds
    <3>3. Hist(E, Round(q, c, r)) = Hist(C, Round(p, c, r))
      <4>1. /\ Hist(E, << <<"send", NextId(q), 0, <<c, 0, r>> >>, <<"recv", PrevId(q), 0, <<c, 0, r>> >> >>)
                 = IF p = NextId(q) /\ k = 0 THEN << <<c, 0, r>> >> ELSE <<>>
            /\ Hist(C, << <<"send", NextId(p), 0, <<c, 0, r>> >>, <<"recv", PrevId(p), 0, <<c, 0, r>> >> >>)
                 = IF p = NextId(q) /\ k = 0 THEN << <<c, 0, r>> >> ELSE <<>>
        <5>. HIDE DEF E, C
        <5>. QED  BY <3>1, RingPair DEF E, C
      <4>. HIDE DEF E, C
      <4>. QED  BY ONLY <4>1 DEF Round
    <3>. QED  BY <3>2, <3>3
  <2>. HIDE DEF E, C
  <2>4. Hist(E, FlattenSeq(Rounds(q, c))) = Hist(C, FlattenSeq(Rounds(p, c)))
    <3>1. /\ Rounds(q, c) \in Lists(Ops) /\ Rounds(p, c) \in Lists(Ops) /\ Len(Rounds(q, c)) = Len(Rounds(p, c))
          /\ \A i \in 1 .. Len(Rounds(q, c)) : Hist(E, Rounds(q, c)[i]) = Hist(C, Rounds(p, c)[i])
      BY ONLY <1>0, <2>2, <2>3, q \in Workers
    <3>. QED  BY ONLY <1>1, <3>1, HistFlattenEqual
  <2>. QED  BY <2>1, <2>4 DEF E, C
<1>. QED  BY <1>2, <1>3

\* What q sends to p in a context is what p expects there, in this order.
LEMMA MessagesAgree ==
  ASSUME NEW q \in Workers, NEW p \in Workers \ {q}, NEW k \in Ctxs
  PROVE  Hist(Emit(q, p, k), Program[q]) = Hist(Consume(q, p, k), Program[p])
<1>. DEFINE E == Emit(q, p, k)  C == Consume(q, p, k)
<1>0. p \in Workers
  OBVIOUS
<1>1. E \in Traces(Ops, Msgs) /\ C \in Traces(Ops, Msgs)
  BY TrafficType
<1>2. (\A op \in Quiet : E[op] = <<>>) /\ \A op \in Quiet : C[op] = <<>>
  BY TrafficQuiet
<1>3. Hist(E, First5) = Hist(C, First5)
  BY First5Agrees
<1>4. Hist(E, SyncWithParties(q)) = Hist(C, SyncWithParties(p))
  <2>1. <<"sync">> \in Tags
    BY DEF Tags
  <2>2. /\ Hist(E, << <<"send", NextId(q), 0, <<"sync">> >>, <<"recv", PrevId(q), 0, <<"sync">> >> >>)
             = IF p = NextId(q) /\ k = 0 THEN << <<"sync">> >> ELSE <<>>
        /\ Hist(C, << <<"send", NextId(p), 0, <<"sync">> >>, <<"recv", PrevId(p), 0, <<"sync">> >> >>)
             = IF p = NextId(q) /\ k = 0 THEN << <<"sync">> >> ELSE <<>>
    <3>. HIDE DEF E, C
    <3>. QED  BY <2>1, RingPair DEF E, C
  <2>. HIDE DEF E, C
  <2>. QED  BY ONLY <2>2 DEF SyncWithParties
<1>5. \A i \in 1 .. DABIT_CHUNKS : Hist(E, Dabits(q)[i]) = Hist(C, Dabits(p)[i])
  <2>1. \A i \in 1 .. DABIT_CHUNKS : i \in Nat /\ Dabits(q)[i] = Dabit(q, i) /\ Dabits(p)[i] = Dabit(p, i)
    BY ParametersTyped DEF Dabits
  <2>. QED  BY <2>1, DabitAgrees
<1>6. \A c \in 1 .. Len(CALLS) : Hist(E, Pars(q)[c]) = Hist(C, Pars(p)[c])
  BY ParAgrees DEF Pars
<1>7. \A w \in Workers : /\ Dabits(w) \in Lists(Ops) /\ Len(Dabits(w)) = DABIT_CHUNKS
                         /\ Pars(w) \in Lists(Ops) /\ Len(Pars(w)) = Len(CALLS)
  <2>. SUFFICES ASSUME NEW w \in Workers
                PROVE  /\ Dabits(w) \in Lists(Ops) /\ Len(Dabits(w)) = DABIT_CHUNKS
                       /\ Pars(w) \in Lists(Ops) /\ Len(Pars(w)) = Len(CALLS)
    OBVIOUS
  <2>1. /\ Dabits(w) \in Lists(MsgOps(w)) /\ Len(Dabits(w)) = DABIT_CHUNKS
        /\ Pars(w) \in Lists(WorkOps(w)) /\ Len(Pars(w)) = Len(CALLS)
    BY WorkTyped
  <2>2. MsgOps(w) \subseteq Ops /\ WorkOps(w) \subseteq Ops
    BY OpsOf DEF WorkOps
  <2>3. Seq(MsgOps(w)) \subseteq Seq(Ops) /\ Seq(WorkOps(w)) \subseteq Seq(Ops)
    BY ONLY <2>2, SeqMonotonic
  <2>. QED  BY ONLY <2>1, <2>3, SeqMonotonic DEF Lists
<1>. HIDE DEF E, C
<1>8. Hist(E, FlattenSeq(Dabits(q))) = Hist(C, FlattenSeq(Dabits(p)))
  <2>1. /\ Dabits(q) \in Lists(Ops) /\ Dabits(p) \in Lists(Ops) /\ Len(Dabits(q)) = Len(Dabits(p))
        /\ \A i \in 1 .. Len(Dabits(q)) : Hist(E, Dabits(q)[i]) = Hist(C, Dabits(p)[i])
    BY ONLY <1>0, <1>5, <1>7, q \in Workers
  <2>. QED  BY ONLY <1>1, <2>1, HistFlattenEqual
<1>9. Hist(E, FlattenSeq(Pars(q))) = Hist(C, FlattenSeq(Pars(p)))
  <2>1. /\ Pars(q) \in Lists(Ops) /\ Pars(p) \in Lists(Ops) /\ Len(Pars(q)) = Len(Pars(p))
        /\ \A i \in 1 .. Len(Pars(q)) : Hist(E, Pars(q)[i]) = Hist(C, Pars(p)[i])
    BY ONLY <1>0, <1>6, <1>7, q \in Workers
  <2>. QED  BY ONLY <1>1, <2>1, HistFlattenEqual
<1>10. Hist(E, Program[q]) =
              Cat(Hist(E, First5),
                  Cat(Cat(Hist(E, SyncWithParties(q)), Hist(E, FlattenSeq(Dabits(q)))),
                      Hist(E, FlattenSeq(Pars(q)))))
  BY ONLY <1>1, <1>2, LoudParts, q \in Workers
<1>11. Hist(C, Program[p]) =
              Cat(Hist(C, First5),
                  Cat(Cat(Hist(C, SyncWithParties(p)), Hist(C, FlattenSeq(Dabits(p)))),
                      Hist(C, FlattenSeq(Pars(p)))))
  BY ONLY <1>0, <1>1, <1>2, LoudParts
<1>12. Hist(E, Program[q]) = Hist(C, Program[p])
  BY ONLY <1>3, <1>4, <1>8, <1>9, <1>10, <1>11
<1>. QED  BY <1>12 DEF E, C
=============================================================================
