------------------------ MODULE SessionPool_proofs ------------------------
(***************************************************************************)
(* The Rayon pool of Session: the chunks of a par_chunks call are begun once *)
(* and never touched by two threads.  Every thread holds pieces, the rest of *)
(* the leaves on its stack and the jobs of its deque; the pieces of a pool   *)
(* are disjoint, and no chunk in them has started but the current one of a   *)
(* leaf.                                                                    *)
(***************************************************************************)
EXTENDS Session, Sums_proofs, FiniteSetTheorems

Frames == [lo : Nat, i : Nat, hi : Nat, end : Nat]
Jobs == Nat \X Nat \X Nat
Threads == [stack : Seq(Frames), deque : Seq(Jobs)]

\* Chunk c is of the leaf f, and not done; of the job j.
InFrame(f, c) == f.i <= c /\ c < f.hi
InJob(j, c) == j[1] <= c /\ c < j[2]

FrameOK(at, f) ==
  /\ f.i <= f.hi /\ \A c \in Nat : InFrame(f, c) => c \in DOMAIN at /\ at[c] # Fin
  /\ \A c \in Nat : InFrame(f, c) /\ c # f.i => at[c] = 0
JobOK(at, j) ==
  j[1] < j[2] /\ \A c \in Nat : InJob(j, c) => c \in DOMAIN at /\ at[c] = 0

\* Chunk c is in piece x of thread w: a frame of its stack, or a job of its deque.
InStack(w, x, c) == x \in 1 .. Len(w.stack) /\ InFrame(w.stack[x], c)
InDeque(w, x, c) == x \in 1 .. Len(w.deque) /\ InJob(w.deque[x], c)
Holds(w, c) == (\E x \in Nat : InStack(w, x, c)) \/ (\E x \in Nat : InDeque(w, x, c))

\* The pieces of a thread are disjoint.
Solo(w) ==
  \A c, x, y \in Nat :
    /\ InStack(w, x, c) /\ InStack(w, y, c) => x = y
    /\ InDeque(w, x, c) /\ InDeque(w, y, c) => x = y
    /\ ~(InStack(w, x, c) /\ InDeque(w, y, c))

PiecesOK(at, w) ==
  /\ w \in Threads
  /\ \A x \in 1 .. Len(w.stack) : FrameOK(at, w.stack[x])
  /\ \A x \in 1 .. Len(w.deque) : JobOK(at, w.deque[x])
  /\ Solo(w)
\* A thread has a current frame, and leaves no job of its own to wait for one of others.
ThreadOK(at, w) ==
  PiecesOK(at, w) /\ Len(w.stack) > 0 /\ (AtEnd(Top(w)) => Len(w.deque) = 0)

ThreadsOK(at, busy) ==
  /\ \A w \in busy : ThreadOK(at, w)
  /\ \A w, v \in busy, c \in Nat : Holds(w, c) /\ Holds(v, c) => w = v

Pools(n) ==
  [call : Nat, injected : BOOLEAN, busy : SUBSET Threads, at : [0 .. n - 1 -> Nat \cup {Fin}],
   fork : [0 .. n - 1 -> Nat], failed : BOOLEAN]
\* A pool that works on n chunks of r rounds each.
PoolOK(n, r, pl) ==
  /\ pl \in Pools(n)
  /\ \A i \in 0 .. n - 1 : /\ pl.at[i] <= 2 * r
                           /\ pl.at[i] \notin {0, Fin} => pl.fork[i] = i + 1
  /\ ThreadsOK(pl.at, pl.busy)
  /\ pl.injected => pl.busy = {} /\ \A i \in 0 .. n - 1 : pl.at[i] = 0

-----------------------------------------------------------------------------
(* How a job is split *)

\* Halving a natural number.
LEMMA Half ==
  ASSUME NEW n \in Nat
  PROVE  n \div 2 \in Nat /\ 2 * (n \div 2) <= n /\ n < 2 * (n \div 2) + 2
OBVIOUS

\* Halved is the function its recursive definition describes.
LEMMA HalvedDef ==
  ASSUME NEW n \in Nat, NEW m \in Nat
  PROVE  /\ Halved(n, m) \in [0 .. m -> Nat]
         /\ Halved(n, m)[0] = n
         /\ \A j \in 1 .. m : Halved(n, m)[j] = Halved(n, m)[j - 1] \div 2
<1>. DEFINE Parts(k) == {g \in [0 .. k -> Nat] : g[0] = n /\ \A j \in 1 .. k : g[j] = g[j - 1] \div 2}
            S == {k \in 0 .. m : Parts(k) # {}}
<1>1. 0 \in S
  <2>1. [i \in 0 .. 0 |-> n] \in Parts(0)
    OBVIOUS
  <2>. QED  BY <2>1
<1>2. ASSUME NEW k \in 0 .. m - 1, k \in S PROVE k + 1 \in S
  <2>1. PICK g : g \in Parts(k)
    BY <1>2
  <2>. DEFINE h == [i \in 0 .. k + 1 |-> IF i = k + 1 THEN g[k] \div 2 ELSE g[i]]
  <2>2. h \in Parts(k + 1)
    <3>0. g[k] \in Nat /\ g[k] \div 2 \in Nat
      BY <2>1, Half
    <3>1. h \in [0 .. k + 1 -> Nat]
      BY <2>1, <3>0
    <3>2. h[0] = n
      BY <2>1
    <3>3. ASSUME NEW i \in 1 .. k + 1 PROVE h[i] = h[i - 1] \div 2
      BY <2>1
    <3>. QED  BY <3>1, <3>2, <3>3
  <2>3. k + 1 \in 0 .. m
    OBVIOUS
  <2>. QED  BY <2>2, <2>3
<1>3. m \in S
  <2>. HIDE DEF S
  <2>1. \A k \in 0 .. m - 1 : k \in S => k + 1 \in S
    BY <1>2
  <2>2. 0 .. m \subseteq S
    BY <1>1, <2>1, SetInduction
  <2>. QED  BY <2>2
<1>4. PICK g : g \in Parts(m)
  BY <1>3
<1>. DEFINE Body(s) == [j \in 0 .. m |-> IF j = 0 THEN n ELSE s[j - 1] \div 2]
<1>5. g = Body(g)
  BY <1>4
<1>6. Halved(n, m) = CHOOSE s : s = Body(s)
  BY DEF Halved
<1>7. PICK p : p = Halved(n, m) /\ p = Body(p)
  BY <1>5, <1>6
<1>8. p[0] = n /\ (\A j \in 1 .. m : p[j] = p[j - 1] \div 2) /\ DOMAIN p = 0 .. m
  <2>1. DOMAIN p = 0 .. m
    BY <1>7
  <2>2. \A j \in 0 .. m : p[j] = IF j = 0 THEN n ELSE p[j - 1] \div 2
    BY <1>7
  <2>3. 0 \in 0 .. m /\ \A j \in 1 .. m : j \in 0 .. m /\ j # 0
    OBVIOUS
  <2>. QED  BY <2>1, <2>2, <2>3
<1>9. \A j \in 0 .. m : p[j] \in Nat
  <2>. DEFINE T == {j \in 0 .. m : p[j] \in Nat}
  <2>1. 0 \in T
    BY <1>8
  <2>2. ASSUME NEW k \in 0 .. m - 1, k \in T PROVE k + 1 \in T
    <3>1. k + 1 \in 1 .. m /\ (k + 1) - 1 = k
      OBVIOUS
    <3>2. p[k + 1] = p[k] \div 2
      BY <1>8, <3>1
    <3>. QED  BY <2>2, <3>1, <3>2, Half
  <2>3. 0 .. m \subseteq T
    <3>. HIDE DEF T
    <3>. QED  BY <2>1, <2>2, SetInduction
  <2>. QED  BY <2>3
<1>10. p \in [0 .. m -> Nat]
  <2>1. p = [j \in 0 .. m |-> p[j]]
    BY <1>7
  <2>. QED  BY <1>9, <2>1
<1>. QED  BY <1>7, <1>8, <1>10

\* A job of len chunks is split into a leaf and right halves, none of them empty.
LEMMA SplitsFacts ==
  ASSUME NEW len \in Nat \ {0}, NEW s \in Nat
  PROVE  /\ Splits(len, s) \in 0 .. len
         /\ Halved(len, len) \in [0 .. len -> Nat] /\ Halved(s, len) \in [0 .. len -> Nat]
         /\ Halved(len, len)[0] = len
         /\ \A j \in 0 .. Splits(len, s) : Halved(len, len)[j] >= 1
         /\ \A i, j \in 0 .. Splits(len, s) : i < j => Halved(len, len)[j] < Halved(len, len)[i]
<1>. DEFINE h == Halved(len, len)  t == Halved(s, len)
            split(j) == h[j] >= 2 /\ t[j] > 0
            S == {j \in 0 .. len : ~split(j)}
<1>1. h \in [0 .. len -> Nat] /\ h[0] = len /\ \A j \in 1 .. len : h[j] = h[j - 1] \div 2
  BY HalvedDef
<1>2. t \in [0 .. len -> Nat]
  BY HalvedDef
<1>. HIDE DEF h, t
<1>3. S # {}
  <2>1. SUFFICES ASSUME S = {} PROVE FALSE
    OBVIOUS
  <2>2. \A j \in 0 .. len : h[j] >= 2
    BY <2>1
  <2>. DEFINE T == {j \in 0 .. len : h[j] <= len - j}
  <2>3. 0 \in T
    BY <1>1
  <2>4. \A k \in 0 .. len - 1 : k \in T => k + 1 \in T
    <3>. SUFFICES ASSUME NEW k \in 0 .. len - 1, k \in T PROVE k + 1 \in T
      OBVIOUS
    <3>1. k + 1 \in 1 .. len /\ (k + 1) - 1 = k /\ k + 1 \in 0 .. len
      OBVIOUS
    <3>2. h[k + 1] = h[k] \div 2 /\ h[k] \in Nat /\ h[k] >= 2
      BY <1>1, <2>2, <3>1
    <3>3. h[k + 1] < h[k] /\ h[k + 1] \in Nat
      BY <3>2, Half
    <3>. QED  BY <3>1, <3>2, <3>3
  <2>5. len \in 0 .. len /\ 0 .. len \subseteq T
    <3>. HIDE DEF T
    <3>. QED  BY <2>3, <2>4, SetInduction
  <2>6. h[len] <= len - len
    BY <2>5
  <2>. QED  BY <1>1, <2>2, <2>5, <2>6
<1>4. PICK n \in S : \A m \in S : n <= m
  <2>1. S \in SUBSET Nat
    OBVIOUS
  <2>. HIDE DEF S
  <2>. QED  BY <1>3, <2>1, LeastNatural
<1>5. n \in 0 .. len /\ ~split(n) /\ \A i \in 0 .. n - 1 : split(i)
  BY <1>4
<1>. DEFINE x == Splits(len, s)
<1>6. x \in 0 .. len /\ ~split(x) /\ \A i \in 0 .. x - 1 : split(i)
  <2>1. x = CHOOSE j \in 0 .. len : ~split(j) /\ \A i \in 0 .. j - 1 : split(i)
    BY DEF Splits, h, t
  <2>. HIDE DEF x
  <2>. QED  BY <1>5, <2>1
<1>. HIDE DEF x
<1>7. \A j \in 1 .. x : h[j] < h[j - 1] /\ h[j] >= 1
  <2>. SUFFICES ASSUME NEW j \in 1 .. x PROVE h[j] < h[j - 1] /\ h[j] >= 1
    OBVIOUS
  <2>1. j - 1 \in 0 .. x - 1 /\ j \in 1 .. len /\ j - 1 \in 0 .. len
    BY <1>6
  <2>2. h[j] = h[j - 1] \div 2 /\ h[j - 1] >= 2 /\ h[j - 1] \in Nat
    BY <1>1, <1>6, <2>1
  <2>. QED  BY <2>2, Half
<1>8. \A j \in 0 .. x : h[j] >= 1
  BY <1>1, <1>7
<1>9. ASSUME NEW i \in 0 .. x PROVE \A j \in 0 .. x : i < j => h[j] < h[i]
  <2>. DEFINE T == {j \in 0 .. x : i < j => h[j] < h[i]}
  <2>1. 0 \in T
    BY <1>6
  <2>2. \A k \in 0 .. x - 1 : k \in T => k + 1 \in T
    <3>. SUFFICES ASSUME NEW k \in 0 .. x - 1, k \in T PROVE k + 1 \in T
      OBVIOUS
    <3>1. k + 1 \in 1 .. x /\ (k + 1) - 1 = k /\ k + 1 \in 0 .. len /\ k \in 0 .. len /\ i \in 0 .. len
      BY <1>6
    <3>2. h[k + 1] < h[k] /\ h[k] \in Nat /\ h[k + 1] \in Nat /\ h[i] \in Nat
      BY <1>1, <1>7, <3>1
    <3>3. i < k + 1 => i = k \/ i < k
      BY <1>6
    <3>. QED  BY <1>6, <3>1, <3>2, <3>3
  <2>3. x \in Nat
    BY <1>6
  <2>4. 0 .. x \subseteq T
    <3>. HIDE DEF T
    <3>. QED  BY <2>1, <2>2, <2>3, SetInduction
  <2>. QED  BY <2>4
<1>. QED  BY <1>1, <1>2, <1>6, <1>8, <1>9 DEF h, t, x

\* Splitting a job: its leaf comes first and the right halves cover the rest, disjoint and latest first.
LEMMA JobSplit ==
  ASSUME NEW job \in Jobs, job[1] < job[2]
  PROVE  /\ Leaf(job) \in Frames /\ Leaf(job).i = job[1]
         /\ job[1] < Leaf(job).hi /\ Leaf(job).hi <= job[2]
         /\ RightHalves(job) \in Seq(Jobs)
         /\ \A x \in 1 .. Len(RightHalves(job)) :
              /\ RightHalves(job)[x][1] < RightHalves(job)[x][2]
              /\ Leaf(job).hi <= RightHalves(job)[x][1] /\ RightHalves(job)[x][2] <= job[2]
         /\ \A x, y \in 1 .. Len(RightHalves(job)) :
              x < y => RightHalves(job)[y][2] <= RightHalves(job)[x][1]
<1>. DEFINE lo == job[1]  len == job[2] - job[1]  s == job[3]  x == Splits(len, s)
            h == Halved(len, len)  t == Halved(s, len)  R == RightHalves(job)
<1>1. lo \in Nat /\ len \in Nat \ {0} /\ s \in Nat /\ job[2] = lo + len /\ job[2] \in Nat
  BY DEF Jobs
<1>2. Leaf(job) = [lo |-> lo, i |-> lo, end |-> job[2], hi |-> lo + h[x]]
  BY DEF Leaf
<1>3. R = [j \in 1 .. x |-> <<lo + h[j], lo + h[j - 1], t[j]>>]
  BY DEF RightHalves
<1>. HIDE DEF len, s, R, lo
<1>4. /\ x \in 0 .. len /\ h \in [0 .. len -> Nat] /\ t \in [0 .. len -> Nat] /\ h[0] = len
      /\ \A j \in 0 .. x : h[j] >= 1
      /\ \A i, j \in 0 .. x : i < j => h[j] < h[i]
  BY <1>1, SplitsFacts
<1>. HIDE DEF h, t, x
<1>5. \A j \in 0 .. x : h[j] \in Nat /\ t[j] \in Nat /\ h[j] >= 1
  BY <1>1, <1>4
<1>6. h[x] \in Nat /\ h[x] >= 1 /\ h[x] <= len /\ x \in Nat
  BY <1>1, <1>4, <1>5
<1>7. Leaf(job) \in Frames /\ Leaf(job).i = lo /\ Leaf(job).hi = lo + h[x]
  BY <1>1, <1>2, <1>6 DEF Frames
<1>8. \A j \in 1 .. x : <<lo + h[j], lo + h[j - 1], t[j]>> \in Jobs
  <2>. SUFFICES ASSUME NEW j \in 1 .. x PROVE <<lo + h[j], lo + h[j - 1], t[j]>> \in Jobs
    OBVIOUS
  <2>1. j \in 0 .. x /\ j - 1 \in 0 .. x
    BY <1>6
  <2>2. h[j] \in Nat /\ h[j - 1] \in Nat /\ t[j] \in Nat
    BY <1>5, <2>1
  <2>. QED  BY <1>1, <2>2 DEF Jobs
<1>9. R \in Seq(Jobs) /\ Len(R) = x
  <2>. HIDE DEF Jobs
  <2>. QED  BY <1>3, <1>6, <1>8
<1>10. \A j \in 1 .. x : R[j][1] = lo + h[j] /\ R[j][2] = lo + h[j - 1]
  BY <1>3
<1>11. ASSUME NEW j \in 1 .. x
       PROVE  R[j][1] < R[j][2] /\ lo + h[x] <= R[j][1] /\ R[j][2] <= lo + len
  <2>1. j \in 0 .. x /\ j - 1 \in 0 .. x /\ x \in 0 .. x /\ j - 1 < j
    BY <1>6
  <2>2. h[j] < h[j - 1] /\ h[x] <= h[j] /\ h[j - 1] <= len /\ h[j] \in Nat /\ h[j - 1] \in Nat /\ h[x] \in Nat
    <3>1. h[j] \in Nat /\ h[j - 1] \in Nat /\ h[x] \in Nat /\ h[0] = len
      BY <1>4, <1>5, <2>1
    <3>2. h[j] < h[j - 1]
      BY <1>4, <2>1
    <3>3. h[x] <= h[j]
      <4>1. j = x \/ j < x
        BY <1>6
      <4>2. j < x => h[x] < h[j]
        BY <1>4, <2>1
      <4>. QED  BY <3>1, <4>1, <4>2
    <3>4. h[j - 1] <= len
      <4>1. j - 1 = 0 \/ 0 < j - 1
        BY <1>6
      <4>2. 0 < j - 1 => h[j - 1] < h[0]
        BY <1>4, <1>6, <2>1
      <4>. QED  BY <1>1, <3>1, <4>1, <4>2
    <3>. QED  BY <3>1, <3>2, <3>3, <3>4
  <2>. QED  BY <1>1, <1>10, <2>2
<1>12. ASSUME NEW i \in 1 .. x, NEW j \in 1 .. x, i < j PROVE R[j][2] <= R[i][1]
  <2>1. i \in 0 .. x /\ j - 1 \in 0 .. x /\ i <= j - 1
    BY <1>6, <1>12
  <2>2. h[j - 1] <= h[i] /\ h[i] \in Nat /\ h[j - 1] \in Nat
    <3>1. h[i] \in Nat /\ h[j - 1] \in Nat
      BY <1>5, <2>1
    <3>2. i = j - 1 \/ i < j - 1
      BY <1>6, <2>1
    <3>3. i < j - 1 => h[j - 1] < h[i]
      BY <1>4, <2>1
    <3>. QED  BY <3>1, <3>2, <3>3
  <2>. QED  BY <1>1, <1>10, <2>2
<1>13. /\ lo < lo + h[x] /\ lo + h[x] <= job[2]
  BY <1>1, <1>6
<1>14. \A j \in 1 .. Len(R) : R[j][1] < R[j][2] /\ lo + h[x] <= R[j][1] /\ R[j][2] <= job[2]
  BY <1>1, <1>9, <1>11
<1>15. \A i, j \in 1 .. Len(R) : i < j => R[j][2] <= R[i][1]
  BY <1>9, <1>12
<1>. QED  BY <1>7, <1>9, <1>13, <1>14, <1>15 DEF R, lo

-----------------------------------------------------------------------------
(* Threads *)

\* The parts of a thread have their types.
LEMMA ThreadType ==
  ASSUME NEW w \in Threads
  PROVE  /\ w.stack \in Seq(Frames) /\ w.deque \in Seq(Jobs)
         /\ Len(w.stack) \in Nat /\ Len(w.deque) \in Nat
         /\ \A x \in 1 .. Len(w.stack) : w.stack[x] \in Frames
         /\ \A x \in 1 .. Len(w.deque) : w.deque[x] \in Jobs
<1>1. w.stack \in Seq(Frames) /\ w.deque \in Seq(Jobs)
  BY DEF Threads
<1>. QED  BY ONLY <1>1

\* What a thread holds is not done, and only the current chunks of its leaves have started.
LEMMA HeldChunks ==
  ASSUME NEW at, NEW w, PiecesOK(at, w), NEW c \in Nat, Holds(w, c)
  PROVE  c \in DOMAIN at /\ at[c] # Fin
<1>1. CASE \E x \in Nat : InStack(w, x, c)
  BY <1>1 DEF PiecesOK, InStack, FrameOK
<1>2. CASE \E x \in Nat : InDeque(w, x, c)
  BY <1>2 DEF PiecesOK, InDeque, JobOK, Fin
<1>. QED  BY <1>1, <1>2 DEF Holds

\* A chunk that a thread does not hold may start or end.
LEMMA PiecesKeep ==
  ASSUME NEW at, NEW bt, NEW w, PiecesOK(at, w), DOMAIN bt = DOMAIN at,
         \A c \in Nat : Holds(w, c) => bt[c] = at[c]
  PROVE  PiecesOK(bt, w)
<1>0. w \in Threads
  BY DEF PiecesOK
<1>1. ASSUME NEW x \in 1 .. Len(w.stack) PROVE FrameOK(bt, w.stack[x])
  <2>1. x \in Nat /\ FrameOK(at, w.stack[x])
    BY <1>0, ThreadType DEF PiecesOK
  <2>2. \A c \in Nat : InFrame(w.stack[x], c) => bt[c] = at[c]
    BY <1>1, <2>1 DEF Holds, InStack
  <2>. QED  BY <2>1, <2>2 DEF FrameOK
<1>2. ASSUME NEW x \in 1 .. Len(w.deque) PROVE JobOK(bt, w.deque[x])
  <2>1. x \in Nat /\ JobOK(at, w.deque[x])
    BY <1>0, ThreadType DEF PiecesOK
  <2>2. \A c \in Nat : InJob(w.deque[x], c) => bt[c] = at[c]
    BY <1>2, <2>1 DEF Holds, InDeque
  <2>. QED  BY <2>1, <2>2 DEF JobOK
<1>. QED  BY <1>0, <1>1, <1>2 DEF PiecesOK

\* A thread that takes a job it did not hold, on top of its stack.
LEMMA TakenThread ==
  ASSUME NEW n \in Nat, NEW at \in [0 .. n - 1 -> Nat \cup {Fin}], NEW u, PiecesOK(at, u),
         NEW job \in Jobs, JobOK(at, job), \A c \in Nat : InJob(job, c) => ~Holds(u, c)
  PROVE  LET w2 == [stack |-> Append(u.stack, Leaf(job)), deque |-> u.deque \o RightHalves(job)] IN
         /\ ThreadOK([at EXCEPT ![job[1]] = 1], w2)
         /\ \A c \in Nat : Holds(w2, c) => Holds(u, c) \/ InJob(job, c)
<1>. DEFINE S == u.stack  D == u.deque  R == RightHalves(job)  L == Leaf(job)
            S2 == Append(S, L)  D2 == D \o R
            w2 == [stack |-> S2, deque |-> D2]
            bt == [at EXCEPT ![job[1]] = 1]
<1>1. u \in Threads /\ S \in Seq(Frames) /\ D \in Seq(Jobs) /\ Len(S) \in Nat /\ Len(D) \in Nat
  BY ThreadType DEF PiecesOK
<1>2. job[1] \in Nat /\ job[2] \in Nat /\ job[1] < job[2] /\ InJob(job, job[1])
  BY DEF Jobs, JobOK, InJob
<1>3. /\ L \in Frames /\ L.i = job[1] /\ job[1] < L.hi /\ L.hi <= job[2] /\ L.hi \in Nat
      /\ R \in Seq(Jobs) /\ Len(R) \in Nat
      /\ \A x \in 1 .. Len(R) : R[x] \in Jobs /\ R[x][1] < R[x][2] /\ L.hi <= R[x][1] /\ R[x][2] <= job[2]
      /\ \A x, y \in 1 .. Len(R) : x < y => R[y][2] <= R[x][1]
  <2>1. /\ L \in Frames /\ L.i = job[1] /\ job[1] < L.hi /\ L.hi <= job[2]
        /\ R \in Seq(Jobs)
        /\ \A x \in 1 .. Len(R) : R[x][1] < R[x][2] /\ L.hi <= R[x][1] /\ R[x][2] <= job[2]
        /\ \A x, y \in 1 .. Len(R) : x < y => R[y][2] <= R[x][1]
    BY <1>2, JobSplit
  <2>. HIDE DEF L, R
  <2>2. L.hi \in Nat
    BY <2>1 DEF Frames
  <2>3. Len(R) \in Nat /\ \A x \in 1 .. Len(R) : R[x] \in Jobs
    BY ONLY <2>1
  <2>. QED  BY <2>1, <2>2, <2>3
<1>. HIDE DEF L, R, S, D
<1>4. /\ S2 \in Seq(Frames) /\ Len(S2) = Len(S) + 1 /\ S2[Len(S) + 1] = L
      /\ \A x \in 1 .. Len(S) : S2[x] = S[x]
  BY ONLY <1>1, <1>3
<1>5. /\ D2 \in Seq(Jobs) /\ Len(D2) = Len(D) + Len(R)
      /\ \A x \in 1 .. Len(D) : D2[x] = D[x]
      /\ \A x \in 1 .. Len(R) : D2[Len(D) + x] = R[x]
  <2>1. R \in Seq(Jobs)
    BY <1>3
  <2>. QED  BY ONLY <1>1, <2>1
<1>. HIDE DEF S2, D2
<1>6. w2.stack = S2 /\ w2.deque = D2 /\ w2 \in Threads
  BY <1>4, <1>5 DEF Threads
<1>. HIDE DEF w2
<1>7. \A x, c \in Nat : InStack(w2, x, c) => InStack(u, x, c) \/ (x = Len(S) + 1 /\ InFrame(L, c))
  BY <1>1, <1>4, <1>6 DEF InStack, S
<1>8. \A x, c \in Nat : InDeque(w2, x, c) =>
         InDeque(u, x, c) \/ (x - Len(D) \in 1 .. Len(R) /\ InJob(R[x - Len(D)], c))
  <2>. SUFFICES ASSUME NEW x \in Nat, NEW c \in Nat, InDeque(w2, x, c)
                PROVE  InDeque(u, x, c) \/ (x - Len(D) \in 1 .. Len(R) /\ InJob(R[x - Len(D)], c))
    OBVIOUS
  <2>1. x \in 1 .. Len(D) + Len(R) /\ InJob(D2[x], c)
    BY <1>5, <1>6 DEF InDeque
  <2>2. CASE x <= Len(D)
    BY <1>5, <2>1, <2>2 DEF InDeque, D
  <2>3. CASE x > Len(D)
    <3>1. x - Len(D) \in 1 .. Len(R) /\ Len(D) + (x - Len(D)) = x
      BY <1>1, <1>3, <2>1, <2>3
    <3>2. D2[x] = R[x - Len(D)]
      BY <1>5, <3>1
    <3>. QED  BY <2>1, <3>1, <3>2
  <2>. QED  BY <1>1, <2>2, <2>3
<1>9. \A c \in Nat : InFrame(L, c) => InJob(job, c)
  BY <1>2, <1>3 DEF InFrame, InJob
<1>10. \A c \in Nat, x \in 1 .. Len(R) : InJob(R[x], c) => InJob(job, c) /\ ~InFrame(L, c) /\ c # job[1]
  <2>. SUFFICES ASSUME NEW c \in Nat, NEW x \in 1 .. Len(R), InJob(R[x], c)
                PROVE  InJob(job, c) /\ ~InFrame(L, c) /\ c # job[1]
    OBVIOUS
  <2>1. R[x][1] \in Nat /\ R[x][2] \in Nat /\ L.hi <= R[x][1] /\ R[x][2] <= job[2]
    BY <1>3 DEF Jobs
  <2>. QED  BY <1>2, <1>3, <2>1 DEF InFrame, InJob
<1>11. \A c \in Nat, x, y \in 1 .. Len(R) : InJob(R[x], c) /\ InJob(R[y], c) => x = y
  <2>. SUFFICES ASSUME NEW c \in Nat, NEW x \in 1 .. Len(R), NEW y \in 1 .. Len(R),
                       InJob(R[x], c), InJob(R[y], c), x < y
                PROVE  FALSE
    BY <1>3
  <2>1. R[x][1] \in Nat /\ R[y][2] \in Nat /\ R[y][2] <= R[x][1]
    BY <1>3 DEF Jobs
  <2>. QED  BY <2>1 DEF InJob
<1>12. \A c, x \in Nat : InJob(job, c) => ~InStack(u, x, c) /\ ~InDeque(u, x, c)
  BY DEF Holds
<1>13. \A c \in Nat : Holds(w2, c) => Holds(u, c) \/ InJob(job, c)
  <2>. SUFFICES ASSUME NEW c \in Nat, Holds(w2, c) PROVE Holds(u, c) \/ InJob(job, c)
    OBVIOUS
  <2>1. CASE \E x \in Nat : InStack(w2, x, c)
    BY <1>7, <1>9, <2>1 DEF Holds
  <2>2. CASE \E x \in Nat : InDeque(w2, x, c)
    BY <1>8, <1>10, <2>2 DEF Holds
  <2>. QED  BY <2>1, <2>2 DEF Holds
<1>14. Solo(w2)
  <2>. SUFFICES ASSUME NEW c \in Nat, NEW x \in Nat, NEW y \in Nat
                PROVE  /\ InStack(w2, x, c) /\ InStack(w2, y, c) => x = y
                       /\ InDeque(w2, x, c) /\ InDeque(w2, y, c) => x = y
                       /\ ~(InStack(w2, x, c) /\ InDeque(w2, y, c))
    BY DEF Solo
  <2>1. /\ InStack(u, x, c) /\ InStack(u, y, c) => x = y
        /\ InDeque(u, x, c) /\ InDeque(u, y, c) => x = y
        /\ ~(InStack(u, x, c) /\ InDeque(u, y, c))
    BY DEF PiecesOK, Solo
  <2>2. InStack(w2, x, c) /\ InStack(w2, y, c) => x = y
    BY ONLY <1>7, <1>9, <1>12, <2>1, c \in Nat, x \in Nat, y \in Nat
  <2>3. InDeque(w2, x, c) /\ InDeque(w2, y, c) => x = y
    <3>. SUFFICES ASSUME InDeque(w2, x, c), InDeque(w2, y, c) PROVE x = y
      OBVIOUS
    <3>1. InDeque(u, x, c) \/ (x - Len(D) \in 1 .. Len(R) /\ InJob(R[x - Len(D)], c))
      BY <1>8
    <3>2. InDeque(u, y, c) \/ (y - Len(D) \in 1 .. Len(R) /\ InJob(R[y - Len(D)], c))
      BY <1>8
    <3>3. CASE InJob(job, c)
      <4>1. ~InDeque(u, x, c) /\ ~InDeque(u, y, c)
        BY <1>12, <3>3
      <4>2. x - Len(D) = y - Len(D)
        BY ONLY <1>11, <3>1, <3>2, <4>1, c \in Nat
      <4>. QED  BY <1>1, <4>2
    <3>4. CASE ~InJob(job, c)
      BY <1>10, <2>1, <3>1, <3>2, <3>4
    <3>. QED  BY <3>3, <3>4
  <2>4. ~(InStack(w2, x, c) /\ InDeque(w2, y, c))
    <3>. SUFFICES ASSUME InStack(w2, x, c), InDeque(w2, y, c) PROVE FALSE
      OBVIOUS
    <3>1. InStack(u, x, c) \/ InFrame(L, c)
      BY <1>7
    <3>2. InDeque(u, y, c) \/ (y - Len(D) \in 1 .. Len(R) /\ InJob(R[y - Len(D)], c))
      BY <1>8
    <3>. QED  BY ONLY <1>9, <1>10, <1>12, <2>1, <3>1, <3>2, c \in Nat, x \in Nat, y \in Nat
  <2>. QED  BY <2>2, <2>3, <2>4
<1>15. DOMAIN bt = DOMAIN at /\ bt[job[1]] = 1 /\ \A c \in DOMAIN at : c # job[1] => bt[c] = at[c]
  <2>1. job[1] \in DOMAIN at
    BY <1>2 DEF JobOK
  <2>. QED  BY <2>1
<1>. HIDE DEF bt
<1>16. \A c \in Nat : Holds(u, c) => bt[c] = at[c]
  <2>. SUFFICES ASSUME NEW c \in Nat, Holds(u, c) PROVE bt[c] = at[c]
    OBVIOUS
  <2>1. c \in DOMAIN at /\ c # job[1]
    BY <1>2, HeldChunks
  <2>. QED  BY <1>15, <2>1
<1>17. PiecesOK(bt, u)
  BY <1>15, <1>16, PiecesKeep
<1>18. FrameOK(bt, L)
  <2>1. L.i <= L.hi
    BY <1>2, <1>3
  <2>2. ASSUME NEW c \in Nat, InFrame(L, c) PROVE c \in DOMAIN bt /\ bt[c] # Fin /\ (c # L.i => bt[c] = 0)
    <3>1. c \in DOMAIN at /\ at[c] = 0
      BY <1>9, <2>2 DEF JobOK
    <3>. QED  BY <1>3, <1>15, <3>1 DEF Fin
  <2>. QED  BY <2>1, <2>2 DEF FrameOK
<1>19. \A x \in 1 .. Len(R) : JobOK(bt, R[x])
  <2>. SUFFICES ASSUME NEW x \in 1 .. Len(R) PROVE JobOK(bt, R[x])
    OBVIOUS
  <2>1. R[x][1] < R[x][2]
    BY <1>3
  <2>2. ASSUME NEW c \in Nat, InJob(R[x], c) PROVE c \in DOMAIN bt /\ bt[c] = 0
    <3>1. InJob(job, c) /\ c # job[1]
      BY <1>10, <2>2
    <3>2. c \in DOMAIN at /\ at[c] = 0
      BY <3>1 DEF JobOK
    <3>. QED  BY <1>15, <3>1, <3>2
  <2>. QED  BY <2>1, <2>2 DEF JobOK
<1>20. \A x \in 1 .. Len(S2) : FrameOK(bt, S2[x])
  <2>1. \A x \in 1 .. Len(S) : FrameOK(bt, S[x])
    BY <1>17 DEF PiecesOK, S
  <2>. QED  BY <1>1, <1>4, <1>18, <2>1
<1>21. \A x \in 1 .. Len(D2) : JobOK(bt, D2[x])
  <2>1. \A x \in 1 .. Len(D) : JobOK(bt, D[x])
    BY <1>17 DEF PiecesOK, D
  <2>. SUFFICES ASSUME NEW x \in 1 .. Len(D2) PROVE JobOK(bt, D2[x])
    OBVIOUS
  <2>2. CASE x <= Len(D)
    BY <1>1, <1>5, <2>1, <2>2
  <2>3. CASE x > Len(D)
    <3>1. x - Len(D) \in 1 .. Len(R) /\ Len(D) + (x - Len(D)) = x
      BY <1>1, <1>3, <1>5, <2>3
    <3>2. D2[x] = R[x - Len(D)]
      BY <1>5, <3>1
    <3>. QED  BY <1>19, <3>1, <3>2
  <2>. QED  BY <1>1, <2>2, <2>3
<1>22. PiecesOK(bt, w2)
  BY <1>6, <1>14, <1>20, <1>21 DEF PiecesOK
<1>23. Top(w2) = L /\ ~AtEnd(L) /\ Len(w2.stack) > 0
  <2>1. L.hi # L.i
    BY <1>2, <1>3
  <2>. QED  BY <1>1, <1>4, <1>6, <2>1 DEF Top, AtEnd
<1>24. ThreadOK(bt, w2)
  BY <1>22, <1>23 DEF ThreadOK
<1>. QED  BY <1>13, <1>24 DEF w2, bt, S2, D2, S, D, R, L

\* Frames are left from the top; a leaf that is not at its end stays.
LEMMA UnwoundIs ==
  ASSUME NEW pl, NEW stack \in Seq(Frames)
  PROVE  /\ \E m \in 0 .. Len(stack) : Unwound(pl, stack) = SubSeq(stack, 1, m)
         /\ Len(stack) > 0 /\ ~AtEnd(stack[Len(stack)]) => Unwound(pl, stack) = stack
<1>. DEFINE left(f) == AtEnd(f) /\ \A i \in f.lo .. f.end - 1 : pl.at[i] = Fin
            kept == {x \in DOMAIN stack : \E m \in x .. Len(stack) : ~left(stack[m])}
<1>1. Unwound(pl, stack) = IF \A x \in kept : AtEnd(stack[x]) THEN << >> ELSE SubSeq(stack, 1, Cardinality(kept))
  BY DEF Unwound
<1>2. DOMAIN stack = 1 .. Len(stack) /\ Len(stack) \in Nat /\ SubSeq(stack, 1, 0) = <<>> /\ SubSeq(stack, 1, Len(stack)) = stack
  OBVIOUS
<1>3. kept \subseteq 1 .. Len(stack)
  BY <1>2
<1>4. Cardinality(kept) \in 0 .. Len(stack)
  <2>1. IsFiniteSet(1 .. Len(stack)) /\ Cardinality(1 .. Len(stack)) = Len(stack)
    <3>1. 1 .. Len(stack) = IF 1 > Len(stack) THEN {} ELSE 1 .. Len(stack)
      BY <1>2
    <3>. QED  BY <1>2, FS_Interval
  <2>. HIDE DEF kept
  <2>2. IsFiniteSet(kept) /\ Cardinality(kept) <= Len(stack)
    BY ONLY <1>3, <2>1, FS_Subset
  <2>3. Cardinality(kept) \in Nat
    BY <2>2, FS_CardinalityType
  <2>. QED  BY <1>2, <2>2, <2>3
<1>5. ASSUME Len(stack) > 0, ~AtEnd(stack[Len(stack)]) PROVE Unwound(pl, stack) = stack
  <2>1. Len(stack) \in kept
    BY <1>2, <1>5
  <2>2. kept = 1 .. Len(stack)
    BY <1>2, <1>5
  <2>3. Cardinality(1 .. Len(stack)) = Len(stack)
    BY <1>2, FS_Interval
  <2>. QED  BY <1>1, <1>2, <1>5, <2>1, <2>2, <2>3
<1>6. \E m \in 0 .. Len(stack) : Unwound(pl, stack) = SubSeq(stack, 1, m)
  <2>. HIDE DEF kept
  <2>1. CASE Unwound(pl, stack) = <<>>
    <3>1. 0 \in 0 .. Len(stack)
      BY <1>2
    <3>. QED  BY <1>2, <2>1, <3>1
  <2>. QED  BY <1>1, <1>4, <2>1
<1>. QED  BY <1>5, <1>6

\* A thread that pops frames keeps its invariant and holds no new chunk.
LEMMA PrefixThread ==
  ASSUME NEW at, NEW w, PiecesOK(at, w), NEW m \in 0 .. Len(w.stack)
  PROVE  /\ PiecesOK(at, [w EXCEPT !.stack = SubSeq(w.stack, 1, m)])
         /\ \A c \in Nat : Holds([w EXCEPT !.stack = SubSeq(w.stack, 1, m)], c) => Holds(w, c)
<1>. DEFINE S == SubSeq(w.stack, 1, m)  v == [w EXCEPT !.stack = S]
<1>1. w \in Threads /\ w.stack \in Seq(Frames) /\ Len(w.stack) \in Nat /\ w.deque \in Seq(Jobs)
  BY ThreadType DEF PiecesOK
<1>2. S \in Seq(Frames) /\ Len(S) = m /\ \A x \in 1 .. m : S[x] = w.stack[x]
  <2>1. w.stack \in Seq(Frames) /\ m \in 0 .. Len(w.stack) /\ Len(w.stack) \in Nat
    BY <1>1
  <2>. QED  BY ONLY <2>1
<1>. HIDE DEF S
<1>3. v.stack = S /\ v.deque = w.deque /\ v \in Threads
  BY <1>1, <1>2 DEF Threads
<1>. HIDE DEF v
<1>4. \A x, c \in Nat : (InStack(v, x, c) => InStack(w, x, c)) /\ (InDeque(v, x, c) <=> InDeque(w, x, c))
  BY <1>1, <1>2, <1>3 DEF InStack, InDeque
<1>5. Solo(v)
  BY <1>4 DEF PiecesOK, Solo
<1>6. \A c \in Nat : Holds(v, c) => Holds(w, c)
  BY <1>4 DEF Holds
<1>7. \A x \in 1 .. Len(v.stack) : FrameOK(at, v.stack[x])
  BY <1>1, <1>2, <1>3 DEF PiecesOK
<1>8. PiecesOK(at, v)
  BY <1>3, <1>5, <1>7 DEF PiecesOK
<1>. QED  BY <1>6, <1>8 DEF v, S

\* A thread that holds no chunk of the others may join them.
LEMMA AddThread ==
  ASSUME NEW at, NEW B, ThreadsOK(at, B), NEW w, ThreadOK(at, w),
         \A v \in B, c \in Nat : ~(Holds(v, c) /\ Holds(w, c))
  PROVE  ThreadsOK(at, B \cup {w})
BY DEF ThreadsOK

\* Fewer threads still satisfy the threads' invariant.
LEMMA DropThreads ==
  ASSUME NEW at, NEW B, ThreadsOK(at, B), NEW C, C \subseteq B
  PROVE  ThreadsOK(at, C)
BY DEF ThreadsOK

\* The pool once a thread has taken a job.
MayTake(n, r, pl, w, deque, job) ==
  /\ pl \in Pools(n) /\ ~pl.injected
  /\ \A i \in 0 .. n - 1 : pl.at[i] <= 2 * r /\ (pl.at[i] \notin {0, Fin} => pl.fork[i] = i + 1)
  /\ ThreadsOK(pl.at, pl.busy \ {w})
  /\ PiecesOK(pl.at, [stack |-> w.stack, deque |-> deque])
  /\ job \in Jobs /\ JobOK(pl.at, job)
  /\ \A c \in Nat : InJob(job, c) => ~Holds([stack |-> w.stack, deque |-> deque], c)
  /\ \A v \in pl.busy \ {w}, c \in Nat :
        ~(Holds(v, c) /\ (Holds([stack |-> w.stack, deque |-> deque], c) \/ InJob(job, c)))
\* Taking a job no thread holds keeps the pool's invariant and begins the job's first chunk.
LEMMA TakenOK ==
  ASSUME NEW n \in Nat, NEW r \in Nat \ {0}, NEW pl, NEW w, NEW deque, NEW job,
         MayTake(n, r, pl, w, deque, job)
  PROVE  /\ PoolOK(n, r, Taken(pl, w, deque, job))
         /\ Taken(pl, w, deque, job).call = pl.call /\ Taken(pl, w, deque, job).failed = pl.failed
         /\ Taken(pl, w, deque, job).at = [pl.at EXCEPT ![job[1]] = 1]
         /\ job[1] \in 0 .. n - 1 /\ pl.at[job[1]] = 0
<1>. DEFINE u == [stack |-> w.stack, deque |-> deque]
            w2 == [stack |-> Append(w.stack, Leaf(job)), deque |-> deque \o RightHalves(job)]
            bt == [pl.at EXCEPT ![job[1]] = 1]
            B == pl.busy \ {w}
            T == Taken(pl, w, deque, job)
<1>. USE DEF MayTake
<1>0. pl.at \in [0 .. n - 1 -> Nat \cup {Fin}] /\ pl.fork \in [0 .. n - 1 -> Nat] /\ pl.busy \subseteq Threads
  BY DEF Pools
<1>1. job[1] \in 0 .. n - 1 /\ pl.at[job[1]] = 0 /\ InJob(job, job[1]) /\ job[1] \in Nat
  <2>1. job[1] \in Nat /\ job[2] \in Nat /\ InJob(job, job[1])
    BY DEF Jobs, JobOK, InJob
  <2>2. job[1] \in DOMAIN pl.at /\ pl.at[job[1]] = 0
    BY <2>1 DEF JobOK
  <2>. QED  BY <1>0, <2>1, <2>2
<1>2. T = [pl EXCEPT !.at = bt, !.fork = [pl.fork EXCEPT ![job[1]] = job[1] + 1], !.busy = B \cup {w2}]
  BY DEF Taken, Begin, ForkFor, Pools
<1>3. ThreadOK(bt, w2) /\ \A c \in Nat : Holds(w2, c) => Holds(u, c) \/ InJob(job, c)
  <2>1. u.stack = w.stack /\ u.deque = deque /\ PiecesOK(pl.at, u) /\ \A c \in Nat : InJob(job, c) => ~Holds(u, c)
    OBVIOUS
  <2>. HIDE DEF u
  <2>2. LET w3 == [stack |-> Append(u.stack, Leaf(job)), deque |-> u.deque \o RightHalves(job)] IN
         /\ ThreadOK([pl.at EXCEPT ![job[1]] = 1], w3)
         /\ \A c \in Nat : Holds(w3, c) => Holds(u, c) \/ InJob(job, c)
    BY <1>0, <2>1, TakenThread
  <2>. QED  BY <2>1, <2>2
<1>4. bt \in [0 .. n - 1 -> Nat \cup {Fin}] /\ bt[job[1]] = 1 /\ \A c \in 0 .. n - 1 : c # job[1] => bt[c] = pl.at[c]
  BY <1>0, <1>1
<1>5. \A v \in B : ThreadOK(bt, v)
  <2>. SUFFICES ASSUME NEW v \in B PROVE ThreadOK(bt, v)
    OBVIOUS
  <2>1. ThreadOK(pl.at, v) /\ PiecesOK(pl.at, v)
    BY DEF ThreadsOK, ThreadOK
  <2>2. \A c \in Nat : Holds(v, c) => bt[c] = pl.at[c]
    <3>. SUFFICES ASSUME NEW c \in Nat, Holds(v, c) PROVE bt[c] = pl.at[c]
      OBVIOUS
    <3>1. c \in DOMAIN pl.at /\ c # job[1]
      BY <1>1, <2>1, HeldChunks
    <3>. QED  BY <1>0, <1>4, <3>1
  <2>3. DOMAIN bt = DOMAIN pl.at
    OBVIOUS
  <2>. HIDE DEF bt, B
  <2>4. PiecesOK(bt, v)
    BY ONLY <2>1, <2>2, <2>3, PiecesKeep
  <2>. QED  BY <2>1, <2>4 DEF ThreadOK
<1>6. ThreadsOK(bt, B)
  BY <1>5 DEF ThreadsOK
<1>7. \A v \in B, c \in Nat : ~(Holds(v, c) /\ Holds(w2, c))
  BY <1>3
<1>8. w2 \in Threads
  BY <1>3 DEF ThreadOK, PiecesOK
<1>. HIDE DEF bt, B, w2
<1>9. ThreadsOK(bt, B \cup {w2})
  BY <1>3, <1>6, <1>7, AddThread
<1>. DEFINE gt == [pl.fork EXCEPT ![job[1]] = job[1] + 1]
<1>10. gt \in [0 .. n - 1 -> Nat] /\ gt[job[1]] = job[1] + 1 /\ \A c \in 0 .. n - 1 : c # job[1] => gt[c] = pl.fork[c]
  BY <1>0, <1>1
<1>. HIDE DEF gt, T
<1>11. /\ T \in Pools(n) /\ T.at = bt /\ T.fork = gt /\ T.busy = B \cup {w2} /\ T.call = pl.call
       /\ T.failed = pl.failed /\ T.injected = pl.injected
  <2>1. B \cup {w2} \subseteq Threads
    BY <1>0, <1>8 DEF B
  <2>2. T = [pl EXCEPT !.at = bt, !.fork = gt, !.busy = B \cup {w2}]
    BY <1>2 DEF gt
  <2>. QED  BY <1>4, <1>10, <2>1, <2>2 DEF Pools
<1>12. \A i \in 0 .. n - 1 : bt[i] <= 2 * r /\ (bt[i] \notin {0, Fin} => gt[i] = i + 1)
  <2>. SUFFICES ASSUME NEW i \in 0 .. n - 1 PROVE bt[i] <= 2 * r /\ (bt[i] \notin {0, Fin} => gt[i] = i + 1)
    OBVIOUS
  <2>1. CASE i = job[1]
    BY <1>4, <1>10, <2>1
  <2>2. CASE i # job[1]
    BY <1>4, <1>10, <2>2
  <2>. QED  BY <2>1, <2>2
<1>13. PoolOK(n, r, T)
  BY <1>9, <1>11, <1>12 DEF PoolOK
<1>. QED  BY <1>1, <1>11, <1>13 DEF T, bt

-----------------------------------------------------------------------------
(* The steps of a pool *)

\* A thread's current frame, and the chunk it is at.
LEMMA TopFacts ==
  ASSUME NEW at, NEW w, PiecesOK(at, w), Len(w.stack) > 0
  PROVE  /\ Top(w) \in Frames /\ Top(w).i \in Nat /\ Top(w).hi \in Nat /\ Len(w.stack) \in 1 .. Len(w.stack)
         /\ ~AtEnd(Top(w)) => /\ InStack(w, Len(w.stack), Top(w).i) /\ Holds(w, Top(w).i)
                              /\ Top(w).i \in DOMAIN at /\ at[Top(w).i] # Fin
<1>1. w \in Threads /\ Len(w.stack) \in Nat /\ \A x \in 1 .. Len(w.stack) : w.stack[x] \in Frames
  BY ThreadType DEF PiecesOK
<1>2. Len(w.stack) \in 1 .. Len(w.stack)
  BY <1>1
<1>3. Top(w) \in Frames /\ Top(w).i \in Nat /\ Top(w).hi \in Nat /\ FrameOK(at, Top(w))
  BY <1>1, <1>2 DEF Top, Frames, PiecesOK
<1>4. ASSUME ~AtEnd(Top(w)) PROVE InStack(w, Len(w.stack), Top(w).i)
  <2>1. InFrame(Top(w), Top(w).i)
    BY <1>3, <1>4 DEF AtEnd, FrameOK, InFrame
  <2>. QED  BY <1>2, <2>1 DEF InStack, Top
<1>5. ASSUME ~AtEnd(Top(w)) PROVE Holds(w, Top(w).i)
  BY <1>1, <1>4, <1>5 DEF Holds
<1>. QED  BY <1>2, <1>3, <1>4, <1>5, HeldChunks

\* The current chunk of a thread goes on.
LEMMA CurrentChunk ==
  ASSUME NEW n \in Nat, NEW at \in [0 .. n - 1 -> Nat \cup {Fin}], NEW B, ThreadsOK(at, B),
         NEW w \in B, ~AtEnd(Top(w)), NEW x \in Nat
  PROVE  ThreadsOK([at EXCEPT ![Top(w).i] = x], B)
<1>. DEFINE i == Top(w).i  bt == [at EXCEPT ![i] = x]
<1>1. PiecesOK(at, w) /\ Len(w.stack) > 0
  BY DEF ThreadsOK, ThreadOK
<1>2. i \in Nat /\ InStack(w, Len(w.stack), i) /\ Holds(w, i) /\ i \in DOMAIN at /\ at[i] # Fin
  BY <1>1, TopFacts
<1>3. bt[i] = x /\ x # Fin /\ DOMAIN bt = DOMAIN at /\ \A c \in DOMAIN at : c # i => bt[c] = at[c]
  BY <1>2 DEF Fin
<1>. HIDE DEF bt
<1>4. ASSUME NEW v \in B, v # w PROVE PiecesOK(bt, v)
  <2>1. PiecesOK(at, v) /\ \A c \in Nat : Holds(v, c) => c # i
    BY <1>2, <1>4 DEF ThreadsOK, ThreadOK
  <2>2. \A c \in Nat : Holds(v, c) => bt[c] = at[c]
    BY <1>3, <2>1, HeldChunks
  <2>. QED  BY <1>3, <2>1, <2>2, PiecesKeep
<1>5. PiecesOK(bt, w)
  <2>0. w \in Threads /\ Solo(w) /\ Len(w.stack) \in Nat /\ Len(w.deque) \in Nat
    BY <1>1, ThreadType DEF PiecesOK
  <2>1. ASSUME NEW y \in 1 .. Len(w.stack) PROVE FrameOK(bt, w.stack[y])
    <3>1. FrameOK(at, w.stack[y]) /\ y \in Nat
      BY <1>1, <2>0 DEF PiecesOK
    <3>2. CASE y = Len(w.stack)
      <4>1. w.stack[y].i = i
        BY <3>2 DEF Top
      <4>2. \A c \in Nat : InFrame(w.stack[y], c) => c \in DOMAIN bt /\ bt[c] # Fin /\ (c # i => bt[c] = 0)
        BY <1>3, <3>1, <4>1 DEF FrameOK
      <4>. QED  BY <3>1, <4>1, <4>2 DEF FrameOK
    <3>3. CASE y # Len(w.stack)
      <4>1. \A c \in Nat : InFrame(w.stack[y], c) => c # i
        <5>. SUFFICES ASSUME InFrame(w.stack[y], i) PROVE FALSE
          OBVIOUS
        <5>1. InStack(w, y, i)
          BY DEF InStack
        <5>. QED  BY <1>2, <2>0, <3>1, <3>3, <5>1 DEF Solo
      <4>. QED  BY <1>3, <3>1, <4>1 DEF FrameOK
    <3>. QED  BY <3>2, <3>3
  <2>2. ASSUME NEW y \in 1 .. Len(w.deque) PROVE JobOK(bt, w.deque[y])
    <3>1. JobOK(at, w.deque[y]) /\ y \in Nat
      BY <1>1, <2>0 DEF PiecesOK
    <3>2. \A c \in Nat : InJob(w.deque[y], c) => c # i
      <4>. SUFFICES ASSUME InJob(w.deque[y], i) PROVE FALSE
        OBVIOUS
      <4>1. InDeque(w, y, i)
        BY DEF InDeque
      <4>. QED  BY <1>2, <2>0, <3>1, <4>1 DEF Solo
    <3>. QED  BY <1>3, <3>1, <3>2 DEF JobOK
  <2>. QED  BY <2>0, <2>1, <2>2 DEF PiecesOK
<1>6. \A v \in B : ThreadOK(bt, v)
  <2>1. \A v \in B : PiecesOK(bt, v)
    BY <1>4, <1>5
  <2>. QED  BY <2>1 DEF ThreadsOK, ThreadOK
<1>. QED  BY <1>6 DEF ThreadsOK, bt

\* The jobs of a deque: the last one, and the first one.
LEMMA PopBack ==
  ASSUME NEW at, NEW w, PiecesOK(at, w), Len(w.deque) > 0
  PROVE  LET u == [stack |-> w.stack, deque |-> Front(w.deque)]  job == Last(w.deque) IN
         /\ PiecesOK(at, u) /\ job \in Jobs /\ JobOK(at, job)
         /\ \A c \in Nat : InJob(job, c) => ~Holds(u, c) /\ Holds(w, c)
         /\ \A c \in Nat : Holds(u, c) => Holds(w, c)
<1>. DEFINE D == Front(w.deque)  u == [stack |-> w.stack, deque |-> D]  job == Last(w.deque)
            L == Len(w.deque)
<1>1. w \in Threads /\ w.deque \in Seq(Jobs) /\ L \in Nat /\ w.stack \in Seq(Frames) /\ Solo(w)
  BY ThreadType DEF PiecesOK
<1>2. D \in Seq(Jobs) /\ Len(D) = L - 1 /\ \A x \in 1 .. L - 1 : D[x] = w.deque[x]
  <2>1. w.deque \in Seq(Jobs) /\ Len(w.deque) > 0
    BY <1>1
  <2>. QED  BY ONLY <2>1 DEF Front
<1>3. job = w.deque[L] /\ L \in 1 .. L
  BY <1>1 DEF Last
<1>4. job \in Jobs /\ JobOK(at, job)
  BY <1>1, <1>3, ThreadType DEF PiecesOK
<1>. HIDE DEF D, job
<1>5. u.stack = w.stack /\ u.deque = D /\ u \in Threads
  BY <1>1, <1>2 DEF Threads
<1>. HIDE DEF u
<1>6. \A x, c \in Nat : /\ InStack(u, x, c) <=> InStack(w, x, c)
                        /\ InDeque(u, x, c) => InDeque(w, x, c) /\ x # L
  BY <1>1, <1>2, <1>5 DEF InStack, InDeque
<1>7. \A c \in Nat : InJob(job, c) => InDeque(w, L, c)
  BY <1>3 DEF InDeque
<1>8. Solo(u)
  BY <1>1, <1>6 DEF Solo
<1>9. \A c \in Nat : Holds(u, c) => Holds(w, c)
  BY <1>6 DEF Holds
<1>10. \A c \in Nat : InJob(job, c) => ~Holds(u, c) /\ Holds(w, c)
  <2>. SUFFICES ASSUME NEW c \in Nat, InJob(job, c) PROVE ~Holds(u, c) /\ Holds(w, c)
    OBVIOUS
  <2>1. InDeque(w, L, c)
    BY <1>7
  <2>2. \A x \in Nat : ~InStack(u, x, c) /\ ~InDeque(u, x, c)
    BY <1>1, <1>6, <2>1 DEF Solo
  <2>. QED  BY <1>1, <2>1, <2>2 DEF Holds
<1>11. \A x \in 1 .. Len(D) : JobOK(at, D[x])
  BY <1>1, <1>2 DEF PiecesOK
<1>12. PiecesOK(at, u)
  BY <1>5, <1>8, <1>11 DEF PiecesOK
<1>. QED  BY <1>4, <1>9, <1>10, <1>12 DEF u, D, job

\* Robbing a deque's oldest job: the rest and the job are well-formed and share no chunk.
LEMMA PopFront ==
  ASSUME NEW at, NEW w, PiecesOK(at, w), Len(w.deque) > 0
  PROVE  LET u == [w EXCEPT !.deque = Tail(@)]  job == Head(w.deque) IN
         /\ PiecesOK(at, u) /\ job \in Jobs /\ JobOK(at, job) /\ u.stack = w.stack
         /\ \A c \in Nat : InJob(job, c) => ~Holds(u, c) /\ Holds(w, c)
         /\ \A c \in Nat : Holds(u, c) => Holds(w, c)
<1>. DEFINE D == Tail(w.deque)  u == [w EXCEPT !.deque = D]  job == Head(w.deque)
            L == Len(w.deque)
<1>1. w \in Threads /\ w.deque \in Seq(Jobs) /\ L \in Nat /\ w.stack \in Seq(Frames) /\ Solo(w)
  BY ThreadType DEF PiecesOK
<1>2. D \in Seq(Jobs) /\ Len(D) = L - 1 /\ \A x \in 1 .. L - 1 : D[x] = w.deque[x + 1]
  <2>1. w.deque \in Seq(Jobs) /\ Len(w.deque) > 0
    BY <1>1
  <2>. QED  BY ONLY <2>1
<1>3. job = w.deque[1] /\ 1 \in 1 .. L
  BY <1>1
<1>4. job \in Jobs /\ JobOK(at, job)
  BY <1>1, <1>3, ThreadType DEF PiecesOK
<1>. HIDE DEF D, job
<1>5. u.stack = w.stack /\ u.deque = D /\ u \in Threads
  BY <1>1, <1>2 DEF Threads
<1>. HIDE DEF u
<1>6. \A x, c \in Nat : /\ InStack(u, x, c) <=> InStack(w, x, c)
                        /\ InDeque(u, x, c) => InDeque(w, x + 1, c) /\ x # 0
  BY <1>1, <1>2, <1>5 DEF InStack, InDeque
<1>7. \A c \in Nat : InJob(job, c) => InDeque(w, 1, c)
  BY <1>3 DEF InDeque
<1>8. Solo(u)
  <2>. SUFFICES ASSUME NEW c \in Nat, NEW x \in Nat, NEW y \in Nat
                PROVE  /\ InStack(u, x, c) /\ InStack(u, y, c) => x = y
                       /\ InDeque(u, x, c) /\ InDeque(u, y, c) => x = y
                       /\ ~(InStack(u, x, c) /\ InDeque(u, y, c))
    BY DEF Solo
  <2>1. x + 1 \in Nat /\ y + 1 \in Nat
    OBVIOUS
  <2>2. /\ InStack(w, x, c) /\ InStack(w, y, c) => x = y
        /\ InDeque(w, x + 1, c) /\ InDeque(w, y + 1, c) => x + 1 = y + 1
        /\ ~(InStack(w, x, c) /\ InDeque(w, y + 1, c))
    BY <1>1, <2>1 DEF Solo
  <2>. QED  BY <1>6, <2>2
<1>9. \A c \in Nat : Holds(u, c) => Holds(w, c)
  BY <1>6 DEF Holds
<1>10. \A c \in Nat : InJob(job, c) => ~Holds(u, c) /\ Holds(w, c)
  <2>. SUFFICES ASSUME NEW c \in Nat, InJob(job, c) PROVE ~Holds(u, c) /\ Holds(w, c)
    OBVIOUS
  <2>1. InDeque(w, 1, c)
    BY <1>7
  <2>2. \A x \in Nat : ~InStack(u, x, c) /\ ~InDeque(u, x, c)
    <3>. SUFFICES ASSUME NEW x \in Nat PROVE ~InStack(u, x, c) /\ ~InDeque(u, x, c)
      OBVIOUS
    <3>1. ~InStack(w, x, c) /\ (InDeque(w, x + 1, c) => x + 1 = 1)
      BY <1>1, <2>1 DEF Solo
    <3>. QED  BY <1>6, <3>1
  <2>. QED  BY <2>1, <2>2 DEF Holds
<1>11. \A x \in 1 .. Len(D) : JobOK(at, D[x])
  <2>. SUFFICES ASSUME NEW x \in 1 .. Len(D) PROVE JobOK(at, D[x])
    OBVIOUS
  <2>1. x + 1 \in 1 .. L /\ D[x] = w.deque[x + 1]
    BY <1>1, <1>2
  <2>. QED  BY <2>1 DEF PiecesOK
<1>12. PiecesOK(at, u)
  BY <1>5, <1>8, <1>11 DEF PiecesOK
<1>13. u = [w EXCEPT !.deque = Tail(@)]
  BY DEF u, D
<1>. QED  BY <1>4, <1>5, <1>9, <1>10, <1>12, <1>13 DEF job

\* A stolen job covers the chunks of the job in the deque: stealing only resets its split budget.
LEMMA StolenJob ==
  ASSUME NEW p \in Workers, NEW at, NEW job \in Jobs, JobOK(at, job)
  PROVE  /\ Stolen(p, job) \in Jobs /\ JobOK(at, Stolen(p, job)) /\ Stolen(p, job)[1] = job[1]
         /\ \A c \in Nat : InJob(Stolen(p, job), c) <=> InJob(job, c)
<1>0. THREADS[p] \in Nat
  BY SessionAssumption
<1>1. job[1] \in Nat /\ job[2] \in Nat /\ job[3] \in Nat /\ job[3] \div 2 \in Nat
  BY Half DEF Jobs
<1>. DEFINE s == 2 * (IF THREADS[p] > job[3] \div 2 THEN THREADS[p] ELSE job[3] \div 2)
<1>2. s \in Nat
  BY <1>0, <1>1
<1>3. Stolen(p, job) = <<job[1], job[2], s>>
  BY DEF Stolen
<1>. HIDE DEF s
<1>4. Stolen(p, job)[1] = job[1] /\ Stolen(p, job)[2] = job[2] /\ Stolen(p, job) \in Jobs
  BY <1>1, <1>2, <1>3 DEF Jobs
<1>5. \A c \in Nat : InJob(Stolen(p, job), c) <=> InJob(job, c)
  BY <1>4 DEF InJob
<1>. QED  BY <1>4, <1>5 DEF JobOK

\* A step that starts chunks at most: no chunk sends or receives in it.
Started(pl, pl2) ==
  /\ pl2.call = pl.call /\ pl2.failed = pl.failed /\ DOMAIN pl2.at = DOMAIN pl.at
  /\ \A i \in DOMAIN pl.at : pl2.at[i] = pl.at[i] \/ (pl.at[i] = 0 /\ pl2.at[i] = 1)

\* An idle thread holds nothing.
LEMMA IdlePieces ==
  ASSUME NEW at
  PROVE  /\ Idle.stack = <<>> /\ Idle.deque = <<>> /\ Idle = [stack |-> Idle.stack, deque |-> <<>>]
         /\ PiecesOK(at, Idle) /\ \A c \in Nat : ~Holds(Idle, c)
<1>1. Idle.stack = <<>> /\ Idle.deque = <<>> /\ Idle = [stack |-> Idle.stack, deque |-> <<>>]
  BY DEF Idle
<1>2. Len(<<>>) = 0 /\ <<>> \in Seq(Frames) /\ <<>> \in Seq(Jobs)
  OBVIOUS
<1>3. Idle \in Threads
  BY <1>2 DEF Idle, Threads
<1>4. Len(Idle.stack) = 0 /\ Len(Idle.deque) = 0
  BY <1>1, <1>2
<1>5. \A x, c \in Nat : ~InStack(Idle, x, c) /\ ~InDeque(Idle, x, c)
  BY <1>4 DEF InStack, InDeque
<1>. QED  BY <1>1, <1>3, <1>4, <1>5 DEF PiecesOK, Solo, Holds

\* The first thread takes the injected call, and starts its first chunk.
LEMMA InjectedOK ==
  ASSUME NEW n \in Nat \ {0}, NEW r \in Nat \ {0}, NEW pl, PoolOK(n, r, pl), pl.injected, NEW s \in Nat
  PROVE  LET pl2 == Taken([pl EXCEPT !.injected = FALSE], Idle, <<>>, <<0, Cardinality(DOMAIN pl.at), s>>) IN
         PoolOK(n, r, pl2) /\ Started(pl, pl2)
<1>. DEFINE p0 == [pl EXCEPT !.injected = FALSE]  job == <<0, n, s>>
            pl2 == Taken(p0, Idle, <<>>, job)
<1>0. pl \in Pools(n) /\ pl.busy = {} /\ \A i \in 0 .. n - 1 : pl.at[i] = 0
  BY DEF PoolOK
<1>1. DOMAIN pl.at = 0 .. n - 1 /\ Cardinality(DOMAIN pl.at) = n
  <2>1. DOMAIN pl.at = 0 .. n - 1
    BY <1>0 DEF Pools
  <2>2. Cardinality(0 .. n - 1) = n
    BY FS_Interval
  <2>. QED  BY <2>1, <2>2
<1>2. /\ p0 \in Pools(n) /\ ~p0.injected /\ p0.at = pl.at /\ p0.fork = pl.fork /\ p0.busy = {}
      /\ p0.call = pl.call /\ p0.failed = pl.failed
  BY <1>0 DEF Pools
<1>. HIDE DEF p0
<1>3. job \in Jobs /\ JobOK(p0.at, job) /\ job[1] = 0
  BY <1>0, <1>1, <1>2 DEF Jobs, JobOK, InJob
<1>4. \A i \in 0 .. n - 1 : p0.at[i] <= 2 * r /\ (p0.at[i] \notin {0, Fin} => p0.fork[i] = i + 1)
  BY <1>2 DEF PoolOK
<1>5. ThreadsOK(p0.at, p0.busy \ {Idle})
  BY <1>2 DEF ThreadsOK
<1>. HIDE DEF job
<1>6. PoolOK(n, r, pl2) /\ pl2.call = p0.call /\ pl2.failed = p0.failed /\ pl2.at = [p0.at EXCEPT ![job[1]] = 1]
      /\ p0.at[job[1]] = 0
  <2>1. n \in Nat
    OBVIOUS
  <2>2. /\ PiecesOK(p0.at, [stack |-> Idle.stack, deque |-> <<>>])
        /\ \A c \in Nat : InJob(job, c) => ~Holds([stack |-> Idle.stack, deque |-> <<>>], c)
    BY IdlePieces
  <2>3. \A v \in p0.busy \ {Idle}, c \in Nat :
            ~(Holds(v, c) /\ (Holds([stack |-> Idle.stack, deque |-> <<>>], c) \/ InJob(job, c)))
    BY <1>2
  <2>4. MayTake(n, r, p0, Idle, <<>>, job)
    BY ONLY <1>2, <1>3, <1>4, <1>5, <2>1, <2>2, <2>3 DEF MayTake
  <2>. DEFINE e == <<>>
  <2>5. MayTake(n, r, p0, Idle, e, job)
    BY ONLY <2>4
  <2>. HIDE DEF e
  <2>6. /\ PoolOK(n, r, Taken(p0, Idle, e, job)) /\ Taken(p0, Idle, e, job).call = p0.call
        /\ Taken(p0, Idle, e, job).failed = p0.failed
        /\ Taken(p0, Idle, e, job).at = [p0.at EXCEPT ![job[1]] = 1] /\ p0.at[job[1]] = 0
    BY ONLY <2>5, TakenOK, n \in Nat, r \in Nat \ {0}
  <2>. QED  BY ONLY <2>6 DEF e
<1>. HIDE DEF pl2
<1>7. Started(pl, pl2)
  <2>. HIDE DEF PoolOK
  <2>. QED  BY <1>2, <1>6 DEF Started
<1>. QED  BY <1>1, <1>6, <1>7 DEF pl2, p0, job

\* A robbed victim keeps the invariant, and nobody holds the chunks of the job it lost.
LEMMA RobbedOK ==
  ASSUME NEW n \in Nat, NEW r \in Nat, NEW pl, PoolOK(n, r, pl), NEW v \in pl.busy, Len(v.deque) > 0
  PROVE  LET v1 == [v EXCEPT !.deque = Tail(@)] IN
         /\ Robbed(pl, v) = [pl EXCEPT !.busy = (pl.busy \ {v}) \cup {v1}]
         /\ Robbed(pl, v) \in Pools(n) /\ Robbed(pl, v).at = pl.at /\ Robbed(pl, v).fork = pl.fork
         /\ Robbed(pl, v).call = pl.call /\ Robbed(pl, v).failed = pl.failed
         /\ Robbed(pl, v).injected = pl.injected /\ ~pl.injected
         /\ Robbed(pl, v).busy = (pl.busy \ {v}) \cup {v1}
         /\ ThreadsOK(pl.at, Robbed(pl, v).busy)
         /\ Head(v.deque) \in Jobs /\ JobOK(pl.at, Head(v.deque))
         /\ \A u \in Robbed(pl, v).busy, c \in Nat : ~(Holds(u, c) /\ InJob(Head(v.deque), c))
<1>. DEFINE v1 == [v EXCEPT !.deque = Tail(@)]  job == Head(v.deque)  at == pl.at  R == Robbed(pl, v)
<1>1. pl \in Pools(n) /\ ThreadsOK(at, pl.busy) /\ ThreadOK(at, v) /\ PiecesOK(at, v) /\ ~pl.injected
  BY DEF PoolOK, ThreadsOK, ThreadOK
<1>2. /\ PiecesOK(at, v1) /\ job \in Jobs /\ JobOK(at, job) /\ v1.stack = v.stack
      /\ \A c \in Nat : InJob(job, c) => ~Holds(v1, c) /\ Holds(v, c)
      /\ \A c \in Nat : Holds(v1, c) => Holds(v, c)
  BY <1>1, PopFront
<1>3. Len(v.stack) > 0 /\ ~AtEnd(Top(v)) /\ Top(v1) = Top(v)
  BY <1>1, <1>2 DEF ThreadOK, Top
<1>4. ThreadOK(at, v1) /\ v1 \in Threads
  BY <1>2, <1>3 DEF ThreadOK, PiecesOK
<1>. HIDE DEF v1, job
<1>5. ThreadsOK(at, pl.busy \ {v})
  BY <1>1 DEF ThreadsOK
<1>6. \A u \in pl.busy \ {v}, c \in Nat : ~(Holds(u, c) /\ Holds(v1, c)) /\ ~(Holds(u, c) /\ InJob(job, c))
  BY <1>1, <1>2 DEF ThreadsOK
<1>7. ThreadsOK(at, (pl.busy \ {v}) \cup {v1})
  BY <1>4, <1>5, <1>6, AddThread
<1>8. R = [pl EXCEPT !.busy = (pl.busy \ {v}) \cup {v1}]
  BY DEF Robbed, v1
<1>9. /\ R \in Pools(n) /\ R.at = pl.at /\ R.fork = pl.fork /\ R.call = pl.call /\ R.failed = pl.failed
      /\ R.injected = pl.injected /\ R.busy = (pl.busy \ {v}) \cup {v1}
  BY <1>1, <1>4, <1>8 DEF Pools
<1>10. \A u \in R.busy, c \in Nat : ~(Holds(u, c) /\ InJob(job, c))
  BY <1>2, <1>6, <1>9
<1>. QED  BY <1>1, <1>2, <1>7, <1>8, <1>9, <1>10 DEF v1, job

\* An idle thread that steals keeps the pool's invariant and only starts a chunk.
LEMMA StealOK ==
  ASSUME NEW p \in Workers, NEW n \in Nat, NEW r \in Nat \ {0}, NEW pl, PoolOK(n, r, pl),
         NEW v \in pl.busy, Len(v.deque) > 0
  PROVE  LET pl2 == Taken(Robbed(pl, v), Idle, <<>>, Stolen(p, Head(v.deque))) IN
         PoolOK(n, r, pl2) /\ Started(pl, pl2)
<1>. DEFINE R == Robbed(pl, v)  job == Stolen(p, Head(v.deque))  pl2 == Taken(R, Idle, <<>>, job)
<1>1. /\ R \in Pools(n) /\ R.at = pl.at /\ R.fork = pl.fork /\ R.call = pl.call /\ R.failed = pl.failed
      /\ ~R.injected /\ ThreadsOK(R.at, R.busy)
      /\ Head(v.deque) \in Jobs /\ JobOK(pl.at, Head(v.deque))
      /\ \A u \in R.busy, c \in Nat : ~(Holds(u, c) /\ InJob(Head(v.deque), c))
  BY RobbedOK
<1>2. /\ job \in Jobs /\ JobOK(R.at, job)
      /\ \A c \in Nat : InJob(job, c) <=> InJob(Head(v.deque), c)
  BY <1>1, StolenJob
<1>. HIDE DEF R, job
<1>3. \A i \in 0 .. n - 1 : R.at[i] <= 2 * r /\ (R.at[i] \notin {0, Fin} => R.fork[i] = i + 1)
  BY <1>1 DEF PoolOK
<1>4. ThreadsOK(R.at, R.busy \ {Idle})
  BY <1>1 DEF ThreadsOK
<1>5. /\ PiecesOK(R.at, [stack |-> Idle.stack, deque |-> <<>>])
      /\ \A c \in Nat : InJob(job, c) => ~Holds([stack |-> Idle.stack, deque |-> <<>>], c)
      /\ \A u \in R.busy \ {Idle}, c \in Nat :
            ~(Holds(u, c) /\ (Holds([stack |-> Idle.stack, deque |-> <<>>], c) \/ InJob(job, c)))
  BY <1>1, <1>2, IdlePieces
<1>6. PoolOK(n, r, pl2) /\ pl2.call = R.call /\ pl2.failed = R.failed /\ pl2.at = [R.at EXCEPT ![job[1]] = 1]
      /\ R.at[job[1]] = 0
  <2>1. MayTake(n, r, R, Idle, <<>>, job)
    BY ONLY <1>1, <1>2, <1>3, <1>4, <1>5 DEF MayTake
  <2>. DEFINE e == <<>>
  <2>5. MayTake(n, r, R, Idle, e, job)
    BY ONLY <2>1
  <2>. HIDE DEF e
  <2>6. /\ PoolOK(n, r, Taken(R, Idle, e, job)) /\ Taken(R, Idle, e, job).call = R.call
        /\ Taken(R, Idle, e, job).failed = R.failed
        /\ Taken(R, Idle, e, job).at = [R.at EXCEPT ![job[1]] = 1] /\ R.at[job[1]] = 0
    BY ONLY <2>5, TakenOK, n \in Nat, r \in Nat \ {0}
  <2>. QED  BY ONLY <2>6 DEF e
<1>. HIDE DEF pl2
<1>7. Started(pl, pl2)
  <2>. HIDE DEF PoolOK
  <2>. QED  BY <1>1, <1>6 DEF Started
<1>. QED  BY <1>6, <1>7 DEF pl2, R, job

\* A thread that waits takes a job of its own, or steals one.
LEMMA OwnOK ==
  ASSUME NEW n \in Nat, NEW r \in Nat \ {0}, NEW pl, PoolOK(n, r, pl), NEW w \in pl.busy, Len(w.deque) > 0
  PROVE  LET pl2 == Taken(pl, w, Front(w.deque), Last(w.deque)) IN
         PoolOK(n, r, pl2) /\ Started(pl, pl2)
<1>. DEFINE D == Front(w.deque)  job == Last(w.deque)  pl2 == Taken(pl, w, D, job)
            u == [stack |-> w.stack, deque |-> D]
<1>1. pl \in Pools(n) /\ ThreadsOK(pl.at, pl.busy) /\ PiecesOK(pl.at, w) /\ ~pl.injected
      /\ \A i \in 0 .. n - 1 : pl.at[i] <= 2 * r /\ (pl.at[i] \notin {0, Fin} => pl.fork[i] = i + 1)
  BY DEF PoolOK, ThreadsOK, ThreadOK
<1>2. /\ PiecesOK(pl.at, u) /\ job \in Jobs /\ JobOK(pl.at, job)
      /\ \A c \in Nat : InJob(job, c) => ~Holds(u, c) /\ Holds(w, c)
      /\ \A c \in Nat : Holds(u, c) => Holds(w, c)
  BY <1>1, PopBack
<1>. HIDE DEF D, job
<1>3. ThreadsOK(pl.at, pl.busy \ {w})
  BY <1>1 DEF ThreadsOK
<1>4. \A v \in pl.busy \ {w}, c \in Nat : ~(Holds(v, c) /\ (Holds(u, c) \/ InJob(job, c)))
  BY <1>1, <1>2 DEF ThreadsOK
<1>5. PoolOK(n, r, pl2) /\ pl2.call = pl.call /\ pl2.failed = pl.failed /\ pl2.at = [pl.at EXCEPT ![job[1]] = 1]
      /\ pl.at[job[1]] = 0
  <2>1. MayTake(n, r, pl, w, D, job)
    BY ONLY <1>1, <1>2, <1>3, <1>4 DEF MayTake, u
  <2>. QED  BY ONLY <2>1, TakenOK, n \in Nat, r \in Nat \ {0}
<1>. HIDE DEF pl2
<1>6. Started(pl, pl2)
  <2>. HIDE DEF PoolOK
  <2>. QED  BY <1>5 DEF Started
<1>. QED  BY <1>5, <1>6 DEF pl2, D, job

\* A thread that waits for a stolen half and steals another job keeps the pool's invariant.
LEMMA StealMoreOK ==
  ASSUME NEW p \in Workers, NEW n \in Nat, NEW r \in Nat \ {0}, NEW pl, PoolOK(n, r, pl),
         NEW v \in pl.busy, Len(v.deque) > 0, NEW w \in pl.busy, w # v, w.deque = <<>>
  PROVE  LET pl2 == Taken(Robbed(pl, v), w, <<>>, Stolen(p, Head(v.deque))) IN
         PoolOK(n, r, pl2) /\ Started(pl, pl2)
<1>. DEFINE R == Robbed(pl, v)  job == Stolen(p, Head(v.deque))  pl2 == Taken(R, w, <<>>, job)
            u == [stack |-> w.stack, deque |-> <<>>]  v1 == [v EXCEPT !.deque = Tail(@)]
<1>1. /\ R \in Pools(n) /\ R.at = pl.at /\ R.fork = pl.fork /\ R.call = pl.call /\ R.failed = pl.failed
      /\ ~R.injected /\ ThreadsOK(R.at, R.busy) /\ R.busy = (pl.busy \ {v}) \cup {v1}
      /\ Head(v.deque) \in Jobs /\ JobOK(pl.at, Head(v.deque))
      /\ \A x \in R.busy, c \in Nat : ~(Holds(x, c) /\ InJob(Head(v.deque), c))
  BY RobbedOK
<1>2. /\ job \in Jobs /\ JobOK(R.at, job)
      /\ \A c \in Nat : InJob(job, c) <=> InJob(Head(v.deque), c)
  BY <1>1, StolenJob
<1>3. u = w /\ PiecesOK(R.at, w) /\ w \in R.busy
  <2>1. PiecesOK(R.at, w) /\ w \in R.busy
    BY <1>1 DEF PoolOK, ThreadsOK, ThreadOK
  <2>2. w \in Threads
    BY <2>1 DEF PiecesOK
  <2>. QED  BY <2>1, <2>2 DEF Threads
<1>. HIDE DEF R, job, u, v1
<1>4. \A i \in 0 .. n - 1 : R.at[i] <= 2 * r /\ (R.at[i] \notin {0, Fin} => R.fork[i] = i + 1)
  BY <1>1 DEF PoolOK
<1>5. ThreadsOK(R.at, R.busy \ {w})
  BY <1>1 DEF ThreadsOK
<1>6. \A x \in R.busy \ {w}, c \in Nat : ~(Holds(x, c) /\ (Holds(u, c) \/ InJob(job, c)))
  BY <1>1, <1>2, <1>3 DEF ThreadsOK
<1>7. PiecesOK(R.at, u) /\ \A c \in Nat : InJob(job, c) => ~Holds(u, c)
  BY <1>1, <1>2, <1>3
<1>8. PoolOK(n, r, pl2) /\ pl2.call = R.call /\ pl2.failed = R.failed /\ pl2.at = [R.at EXCEPT ![job[1]] = 1]
      /\ R.at[job[1]] = 0
  <2>1. MayTake(n, r, R, w, <<>>, job)
    BY ONLY <1>1, <1>2, <1>4, <1>5, <1>6, <1>7 DEF MayTake, u
  <2>. QED  BY <2>1, TakenOK
<1>. HIDE DEF pl2
<1>9. Started(pl, pl2)
  <2>. HIDE DEF PoolOK
  <2>. QED  BY <1>1, <1>8 DEF Started
<1>. QED  BY <1>8, <1>9 DEF pl2, R, job

\* A thread that begins the next chunk of its frame keeps the pool's invariant.
LEMMA NextChunkOK ==
  ASSUME NEW n \in Nat, NEW r \in Nat \ {0}, NEW pl, PoolOK(n, r, pl), NEW w \in pl.busy,
         ~AtEnd(Top(w)), pl.at[Top(w).i] = 0
  PROVE  PoolOK(n, r, Begin(pl, Top(w).i)) /\ Started(pl, Begin(pl, Top(w).i))
<1>. DEFINE i == Top(w).i  B == Begin(pl, i)  bt == [pl.at EXCEPT ![i] = 1]  gt == [pl.fork EXCEPT ![i] = i + 1]
<1>1. /\ pl \in Pools(n) /\ ThreadsOK(pl.at, pl.busy) /\ ~pl.injected
      /\ \A j \in 0 .. n - 1 : pl.at[j] <= 2 * r /\ (pl.at[j] \notin {0, Fin} => pl.fork[j] = j + 1)
  BY DEF PoolOK
<1>2. pl.at \in [0 .. n - 1 -> Nat \cup {Fin}] /\ pl.fork \in [0 .. n - 1 -> Nat]
  BY <1>1 DEF Pools
<1>3. i \in 0 .. n - 1
  <2>1. PiecesOK(pl.at, w) /\ Len(w.stack) > 0
    BY <1>1 DEF ThreadsOK, ThreadOK
  <2>2. i \in DOMAIN pl.at
    BY <2>1, TopFacts
  <2>. QED  BY <1>2, <2>2
<1>4. ThreadsOK(bt, pl.busy)
  BY <1>1, <1>2, CurrentChunk
<1>. HIDE DEF i
<1>5. B = [pl EXCEPT !.at = bt, !.fork = gt]
  BY <1>1 DEF Begin, ForkFor, Pools
<1>6. /\ bt \in [0 .. n - 1 -> Nat \cup {Fin}] /\ gt \in [0 .. n - 1 -> Nat] /\ bt[i] = 1 /\ gt[i] = i + 1
      /\ \A j \in 0 .. n - 1 : j # i => bt[j] = pl.at[j] /\ gt[j] = pl.fork[j]
  BY <1>2, <1>3
<1>. HIDE DEF bt, gt, B
<1>7. /\ B \in Pools(n) /\ B.at = bt /\ B.fork = gt /\ B.busy = pl.busy /\ B.call = pl.call
      /\ B.failed = pl.failed /\ B.injected = pl.injected
  BY <1>1, <1>5, <1>6 DEF Pools
<1>8. \A j \in 0 .. n - 1 : bt[j] <= 2 * r /\ (bt[j] \notin {0, Fin} => gt[j] = j + 1)
  <2>. SUFFICES ASSUME NEW j \in 0 .. n - 1 PROVE bt[j] <= 2 * r /\ (bt[j] \notin {0, Fin} => gt[j] = j + 1)
    OBVIOUS
  <2>1. CASE j = i
    BY <1>6, <2>1
  <2>2. CASE j # i
    BY <1>1, <1>6, <2>2
  <2>. QED  BY <2>1, <2>2
<1>9. PoolOK(n, r, B)
  BY <1>1, <1>4, <1>7, <1>8 DEF PoolOK
<1>10. Started(pl, B)
  BY <1>2, <1>3, <1>6, <1>7 DEF Started, i
<1>. QED  BY <1>9, <1>10 DEF B, i

\* The current chunk of a thread sends or receives a message that is not its last.
LEMMA RunningChunk ==
  ASSUME NEW n \in Nat, NEW r \in Nat \ {0}, NEW pl, PoolOK(n, r, pl), NEW w \in pl.busy,
         ~AtEnd(Top(w)), pl.at[Top(w).i] # 0
  PROVE  /\ Top(w).i \in 0 .. n - 1 /\ pl.at[Top(w).i] \in Nat \ {0}
         /\ pl.at[Top(w).i] <= 2 * r /\ pl.fork[Top(w).i] = Top(w).i + 1
<1>1. ThreadsOK(pl.at, pl.busy) /\ pl \in Pools(n) BY DEF PoolOK
<1>2. ThreadOK(pl.at, w) BY <1>1 DEF ThreadsOK
<1>3. PiecesOK(pl.at, w) /\ Len(w.stack) > 0 BY <1>2 DEF ThreadOK
<1>4. Top(w).i \in DOMAIN pl.at /\ pl.at[Top(w).i] # Fin BY <1>3, TopFacts
<1>5. pl.at \in [0 .. n - 1 -> Nat \cup {Fin}] BY <1>1 DEF Pools
<1>6. Top(w).i \in 0 .. n - 1 /\ pl.at[Top(w).i] \in Nat \ {0} BY ONLY <1>4, <1>5, pl.at[Top(w).i] # 0
<1> QED BY <1>4, <1>6 DEF PoolOK

\* Chunk i goes on to b, and another one may start.
Steps(pl, pl2, i, b) ==
  /\ pl2.call = pl.call /\ pl2.failed = pl.failed /\ DOMAIN pl2.at = DOMAIN pl.at /\ pl2.at[i] = b
  /\ \A j \in DOMAIN pl.at \ {i} : pl2.at[j] = pl.at[j] \/ (pl.at[j] = 0 /\ pl2.at[j] = 1)

Advanced(pl, i, pl2) == pl2 = [pl EXCEPT !.at[i] = @ + 1]

\* A send or receive within a chunk keeps the pool's invariant and moves that chunk alone.
LEMMA ChunkStepOK ==
  ASSUME NEW n \in Nat, NEW r \in Nat \ {0}, NEW pl, PoolOK(n, r, pl), NEW w \in pl.busy,
         ~AtEnd(Top(w)), pl.at[Top(w).i] # 0, pl.at[Top(w).i] < 2 * r,
         NEW i, i = Top(w).i, NEW pl2, Advanced(pl, i, pl2)
  PROVE  PoolOK(n, r, pl2) /\ Steps(pl, pl2, i, pl.at[i] + 1)
<1>. DEFINE a == pl.at[i]  bt == [pl.at EXCEPT ![i] = a + 1]
<1>1. /\ pl \in Pools(n) /\ ThreadsOK(pl.at, pl.busy) /\ ~pl.injected
      /\ \A j \in 0 .. n - 1 : pl.at[j] <= 2 * r /\ (pl.at[j] \notin {0, Fin} => pl.fork[j] = j + 1)
  BY DEF PoolOK
<1>2. pl.at \in [0 .. n - 1 -> Nat \cup {Fin}] /\ pl.fork \in [0 .. n - 1 -> Nat]
  BY <1>1 DEF Pools
<1>3. i \in 0 .. n - 1 /\ a \in Nat \ {0} /\ pl.fork[i] = i + 1 /\ a < 2 * r
  BY RunningChunk
<1>4. ThreadsOK(bt, pl.busy)
  <2>1. a + 1 \in Nat
    BY <1>3
  <2>. HIDE DEF a
  <2>. QED  BY <1>1, <1>2, <2>1, CurrentChunk
<1>5. pl2 = [pl EXCEPT !.at = bt]
  <2>1. [pl EXCEPT !.at[i] = @ + 1] = [pl EXCEPT !.at = bt] BY <1>1 DEF Pools
  <2>. QED  BY <2>1 DEF Advanced
<1>6. bt \in [0 .. n - 1 -> Nat \cup {Fin}] /\ bt[i] = a + 1 /\ \A j \in 0 .. n - 1 : j # i => bt[j] = pl.at[j]
  <2>1. a + 1 \in Nat \cup {Fin} BY <1>3
  <2>. HIDE DEF a
  <2>. QED  BY ONLY <1>2, <1>3, <2>1
<1>. HIDE DEF bt
<1>7. /\ pl2 \in Pools(n) /\ pl2.at = bt /\ pl2.fork = pl.fork /\ pl2.busy = pl.busy /\ pl2.call = pl.call
      /\ pl2.failed = pl.failed /\ pl2.injected = pl.injected
  BY <1>1, <1>5, <1>6 DEF Pools
<1>8. ASSUME NEW j \in 0 .. n - 1 PROVE bt[j] <= 2 * r /\ (bt[j] \notin {0, Fin} => pl.fork[j] = j + 1)
  <2>1. CASE j = i
    BY <1>3, <1>6, <2>1
  <2>2. CASE j # i
    BY <1>1, <1>6, <2>2
  <2>. QED  BY <2>1, <2>2
<1>9. PoolOK(n, r, pl2) BY <1>1, <1>4, <1>7, <1>8 DEF PoolOK
<1>10. DOMAIN pl2.at = 0 .. n - 1 /\ DOMAIN pl.at = 0 .. n - 1
  BY <1>2, <1>6, <1>7
<1>. QED  BY <1>6, <1>7, <1>9, <1>10 DEF Steps

\* Threads leave the frames whose jobs are done.
Settle(pl, B) == {[w EXCEPT !.stack = Unwound(pl, @)] : w \in B} \ {Idle}
\* Popping the finished frames of every thread keeps the threads' invariant.
LEMMA SettledOK ==
  ASSUME NEW pl, NEW B, ThreadsOK(pl.at, B)
  PROVE  /\ ThreadsOK(pl.at, Settle(pl, B))
         /\ \A v \in Settle(pl, B) : \E w \in B : \A c \in Nat : Holds(v, c) => Holds(w, c)
<1>. DEFINE u(w) == [w EXCEPT !.stack = Unwound(pl, w.stack)]  C == {u(w) : w \in B} \ {Idle}
<1>1. ASSUME NEW w \in B PROVE /\ PiecesOK(pl.at, u(w)) /\ \A c \in Nat : Holds(u(w), c) => Holds(w, c)
                               /\ u(w) # Idle => ThreadOK(pl.at, u(w))
  <2>1. ThreadOK(pl.at, w) /\ PiecesOK(pl.at, w) /\ w \in Threads /\ Len(w.stack) > 0
    BY DEF ThreadsOK, ThreadOK, PiecesOK
  <2>2. w.stack \in Seq(Frames) /\ w.deque \in Seq(Jobs) /\ Len(w.stack) \in Nat
    BY <2>1, ThreadType
  <2>3. PICK m \in 0 .. Len(w.stack) : Unwound(pl, w.stack) = SubSeq(w.stack, 1, m)
    BY <2>2, UnwoundIs
  <2>4. /\ PiecesOK(pl.at, u(w)) /\ \A c \in Nat : Holds(u(w), c) => Holds(w, c)
    BY <2>1, <2>3, PrefixThread
  <2>5. u(w).stack = Unwound(pl, w.stack) /\ u(w).deque = w.deque /\ u(w) \in Threads
    BY <2>1, <2>4 DEF Threads, PiecesOK
  <2>6. CASE ~AtEnd(Top(w))
    <3>1. Unwound(pl, w.stack) = w.stack
      BY <2>1, <2>2, <2>6, UnwoundIs DEF Top
    <3>2. u(w) = w
      BY <2>1, <3>1 DEF Threads
    <3>. QED  BY <2>1, <2>4, <3>2
  <2>7. CASE AtEnd(Top(w))
    <3>1. Len(w.deque) = 0 /\ w.deque = <<>>
      BY <2>1, <2>2, <2>7 DEF ThreadOK
    <3>2. ASSUME u(w) # Idle PROVE Len(u(w).stack) > 0
      <4>1. u(w).stack \in Seq(Frames)
        BY <2>5, ThreadType
      <4>2. u(w).stack = <<>> => u(w) = Idle
        BY <2>5, <3>1 DEF Idle, Threads
      <4>3. u(w).stack # <<>>
        BY <3>2, <4>2
      <4>. QED  BY ONLY <4>1, <4>3
    <3>. QED  BY <2>4, <2>5, <3>1, <3>2 DEF ThreadOK
  <2>. QED  BY <2>6, <2>7
<1>2. \A v \in C : \E w \in B : v = u(w) /\ \A c \in Nat : Holds(v, c) => Holds(w, c)
  BY <1>1
<1>3. \A v \in C : ThreadOK(pl.at, v)
  BY <1>1
<1>. HIDE DEF u
<1>4. \A v, x \in C, c \in Nat : Holds(v, c) /\ Holds(x, c) => v = x
  <2>. SUFFICES ASSUME NEW v \in C, NEW x \in C, NEW c \in Nat, Holds(v, c), Holds(x, c) PROVE v = x
    OBVIOUS
  <2>1. PICK w \in B : v = u(w) /\ Holds(w, c)
    BY <1>2
  <2>2. PICK y \in B : x = u(y) /\ Holds(y, c)
    BY <1>2
  <2>3. w = y
    BY <2>1, <2>2 DEF ThreadsOK
  <2>. QED  BY <2>1, <2>2, <2>3
<1>. HIDE DEF C
<1>5. ThreadsOK(pl.at, C)
  BY <1>3, <1>4 DEF ThreadsOK
<1>6. \A v \in C : \E w \in B : \A c \in Nat : Holds(v, c) => Holds(w, c)
  BY <1>2
<1>7. Settle(pl, B) = C
  BY DEF Settle, C, u
<1>. QED  BY <1>5, <1>6, <1>7

\* The current chunk of a thread is done: its leaf goes on to the next one.
LEMMA ChunkDone ==
  ASSUME NEW n \in Nat, NEW at \in [0 .. n - 1 -> Nat \cup {Fin}], NEW w, PiecesOK(at, w),
         Len(w.stack) > 0, ~AtEnd(Top(w))
  PROVE  LET i == Top(w).i
             w0 == [w EXCEPT !.stack = [w.stack EXCEPT ![Len(w.stack)].i = i + 1]] IN
         /\ PiecesOK([at EXCEPT ![i] = Fin], w0) /\ w0.deque = w.deque
         /\ \A c \in Nat : Holds(w0, c) => Holds(w, c) /\ c # i
<1>. DEFINE i == Top(w).i  L == Len(w.stack)  f == w.stack[L]  g == [f EXCEPT !.i = i + 1]
            S == [w.stack EXCEPT ![L].i = i + 1]
            w0 == [w EXCEPT !.stack = S]  bt == [at EXCEPT ![i] = Fin]
<1>1. w \in Threads /\ w.stack \in Seq(Frames) /\ w.deque \in Seq(Jobs) /\ L \in Nat /\ Solo(w) /\ L \in 1 .. L
  BY ThreadType DEF PiecesOK
<1>2. f \in Frames /\ i = f.i /\ i \in Nat /\ f.hi \in Nat /\ InStack(w, L, i) /\ i \in DOMAIN at
  BY TopFacts DEF Top
<1>3. InFrame(f, i) /\ FrameOK(at, f)
  BY <1>1, <1>2 DEF InStack, PiecesOK
<1>4. g \in Frames /\ g.i = i + 1 /\ g.hi = f.hi
  <2>1. f \in [lo : Nat, i : Nat, hi : Nat, end : Nat] /\ i + 1 \in Nat
    BY <1>2 DEF Frames
  <2>. HIDE DEF f, i
  <2>. QED  BY ONLY <2>1 DEF Frames
<1>5. S = [w.stack EXCEPT ![L] = g]
  OBVIOUS
<1>. HIDE DEF S, g, f, i
<1>6. S \in Seq(Frames) /\ Len(S) = L /\ S[L] = g /\ \A x \in 1 .. L : x # L => S[x] = w.stack[x]
  BY <1>1, <1>4, <1>5
<1>7. w0.stack = S /\ w0.deque = w.deque /\ w0 \in Threads
  BY <1>1, <1>6 DEF Threads
<1>. HIDE DEF w0
<1>8. \A c \in Nat : InFrame(g, c) <=> InFrame(f, c) /\ c # i
  BY <1>2, <1>3, <1>4 DEF InFrame
<1>9. \A x, c \in Nat : InStack(w0, x, c) => InStack(w, x, c) /\ (x = L => c # i)
  <2>. SUFFICES ASSUME NEW x \in Nat, NEW c \in Nat, InStack(w0, x, c)
                PROVE  InStack(w, x, c) /\ (x = L => c # i)
    OBVIOUS
  <2>1. x \in 1 .. L /\ InFrame(S[x], c)
    BY <1>6, <1>7 DEF InStack
  <2>2. CASE x = L
    BY <1>6, <1>8, <2>1, <2>2 DEF InStack, f
  <2>3. CASE x # L
    BY <1>6, <2>1, <2>3 DEF InStack
  <2>. QED  BY <2>2, <2>3
<1>10. \A x, c \in Nat : InDeque(w0, x, c) <=> InDeque(w, x, c)
  BY <1>7 DEF InDeque
<1>11. \A x, c \in Nat : (InStack(w0, x, c) => c # i) /\ (InDeque(w0, x, c) => c # i)
  BY <1>1, <1>2, <1>9, <1>10 DEF Solo
<1>12. \A c \in Nat : Holds(w0, c) => Holds(w, c) /\ c # i
  BY <1>9, <1>10, <1>11 DEF Holds
<1>13. Solo(w0)
  BY <1>1, <1>9, <1>10 DEF Solo
<1>14. FrameOK(at, g)
  <2>1. g.i <= g.hi
    BY <1>2, <1>3, <1>4 DEF InFrame
  <2>. QED  BY <1>3, <1>4, <1>8, <2>1 DEF FrameOK, f, i, Top
<1>15. PiecesOK(at, w0)
  <2>1. \A x \in 1 .. Len(w0.stack) : FrameOK(at, w0.stack[x])
    BY <1>6, <1>7, <1>14 DEF PiecesOK
  <2>. QED  BY <1>7, <1>13, <2>1 DEF PiecesOK
<1>16. DOMAIN bt = DOMAIN at /\ \A c \in DOMAIN at : c # i => bt[c] = at[c]
  OBVIOUS
<1>. HIDE DEF bt
<1>17. PiecesOK(bt, w0)
  <2>1. \A c \in Nat : Holds(w0, c) => bt[c] = at[c]
    BY <1>12, <1>15, <1>16, HeldChunks
  <2>. QED  BY <1>15, <1>16, <2>1, PiecesKeep
<1>. QED  BY <1>7, <1>12, <1>17 DEF w0, S, bt, i

\* A finished chunk leaves its frame, and the pool's invariant stands.
LEMMA FinishedOK ==
  ASSUME NEW n \in Nat, NEW r \in Nat \ {0}, NEW pl, PoolOK(n, r, pl), NEW w \in pl.busy,
         ~AtEnd(Top(w))
  PROVE  PoolOK(n, r, Finished(pl, w)) /\ Steps(pl, Finished(pl, w), Top(w).i, Fin)
<1>. DEFINE i == Top(w).i
            bt == [pl.at EXCEPT ![i] = Fin]
            done == [pl EXCEPT !.at[i] = Fin, !.busy = @ \ {w}]
            w0 == [w EXCEPT !.stack = [w.stack EXCEPT ![Len(w.stack)].i = i + 1]]
            w1 == [w EXCEPT !.stack = Unwound(done, [@ EXCEPT ![Len(@)].i = i + 1])]
            C == Settle(done, pl.busy \ {w})
            others == Settled(done)
            F == Finished(pl, w)
<1>1. /\ pl \in Pools(n) /\ ThreadsOK(pl.at, pl.busy) /\ ~pl.injected
      /\ \A j \in 0 .. n - 1 : pl.at[j] <= 2 * r /\ (pl.at[j] \notin {0, Fin} => pl.fork[j] = j + 1)
  BY DEF PoolOK
<1>2. pl.at \in [0 .. n - 1 -> Nat \cup {Fin}] /\ pl.fork \in [0 .. n - 1 -> Nat] /\ pl.busy \subseteq Threads
  BY <1>1 DEF Pools
<1>3. PiecesOK(pl.at, w) /\ Len(w.stack) > 0 /\ w \in Threads
  BY <1>1 DEF ThreadsOK, ThreadOK, PiecesOK
<1>4. i \in DOMAIN pl.at /\ i \in 0 .. n - 1 /\ i \in Nat /\ Holds(w, i)
  BY <1>2, <1>3, TopFacts
<1>5. /\ PiecesOK(bt, w0) /\ w0.deque = w.deque
      /\ \A c \in Nat : Holds(w0, c) => Holds(w, c) /\ c # i
  BY <1>2, <1>3, ChunkDone
<1>6. /\ done \in Pools(n) /\ done.at = bt /\ done.fork = pl.fork /\ done.busy = pl.busy \ {w}
      /\ done.call = pl.call /\ done.failed = pl.failed /\ done.injected = pl.injected
  <2>1. bt \in [0 .. n - 1 -> Nat \cup {Fin}]
    BY <1>2, <1>4
  <2>2. pl.busy \ {w} \subseteq Threads
    BY <1>2
  <2>3. done = [pl EXCEPT !.at = bt, !.busy = pl.busy \ {w}]
    BY <1>1 DEF Pools
  <2>. HIDE DEF bt, done
  <2>. QED  BY <1>1, <2>1, <2>2, <2>3 DEF Pools
<1>7. F = IF w1.deque # <<>> /\ (w1.stack = <<>> \/ AtEnd(Top(w1)))
          THEN Taken(others, w1, Front(w1.deque), Last(w1.deque))
          ELSE [others EXCEPT !.busy = (@ \cup {w1}) \ {Idle}]
  BY DEF Finished
<1>. HIDE DEF F
<1>8. bt[i] = Fin /\ DOMAIN bt = 0 .. n - 1 /\ \A j \in 0 .. n - 1 : j # i => bt[j] = pl.at[j]
  BY <1>2, <1>4
<1>. HIDE DEF bt, i
<1>9. \A j \in 0 .. n - 1 : bt[j] <= 2 * r /\ (bt[j] \notin {0, Fin} => pl.fork[j] = j + 1)
  <2>. SUFFICES ASSUME NEW j \in 0 .. n - 1 PROVE bt[j] <= 2 * r /\ (bt[j] \notin {0, Fin} => pl.fork[j] = j + 1)
    OBVIOUS
  <2>1. CASE j = i
    BY <1>8, <2>1 DEF Fin
  <2>2. CASE j # i
    BY <1>1, <1>8, <2>2
  <2>. QED  BY <2>1, <2>2
<1>10. ThreadsOK(bt, pl.busy \ {w})
  <2>1. ASSUME NEW v \in pl.busy \ {w} PROVE ThreadOK(bt, v)
    <3>1. ThreadOK(pl.at, v) /\ PiecesOK(pl.at, v) /\ ~Holds(v, i)
      BY <1>1, <1>4 DEF ThreadsOK, ThreadOK
    <3>2. \A c \in Nat : Holds(v, c) => bt[c] = pl.at[c]
      BY <1>2, <1>8, <3>1, HeldChunks
    <3>3. DOMAIN bt = DOMAIN pl.at
      BY <1>2, <1>8
    <3>4. PiecesOK(bt, v)
      BY <3>1, <3>2, <3>3, PiecesKeep
    <3>. QED  BY <3>1, <3>4 DEF ThreadOK
  <2>. QED  BY <1>1, <2>1 DEF ThreadsOK
<1>11. /\ ThreadsOK(bt, C)
       /\ \A v \in C : \E x \in pl.busy \ {w} : \A c \in Nat : Holds(v, c) => Holds(x, c)
  <2>1. ThreadsOK(done.at, pl.busy \ {w})
    BY <1>6, <1>10
  <2>. HIDE DEF done
  <2>2. /\ ThreadsOK(done.at, C)
        /\ \A v \in C : \E x \in pl.busy \ {w} : \A c \in Nat : Holds(v, c) => Holds(x, c)
    BY <2>1, SettledOK
  <2>. QED  BY <1>6, <2>2
<1>12. \A v \in C, c \in Nat : ~(Holds(v, c) /\ Holds(w, c))
  <2>. SUFFICES ASSUME NEW v \in C, NEW c \in Nat, Holds(v, c), Holds(w, c) PROVE FALSE
    OBVIOUS
  <2>. HIDE DEF C
  <2>1. PICK x \in pl.busy \ {w} : Holds(x, c)
    BY <1>11
  <2>. QED  BY <1>1, <2>1 DEF ThreadsOK
<1>13. C \subseteq Threads
  <2>. HIDE DEF C
  <2>. QED  BY <1>11 DEF ThreadsOK, ThreadOK, PiecesOK
<1>14. /\ others \in Pools(n) /\ others.at = bt /\ others.fork = pl.fork /\ others.busy = C
       /\ others.call = pl.call /\ others.failed = pl.failed /\ others.injected = pl.injected
  <2>1. others = [done EXCEPT !.busy = C]
    BY <1>6 DEF Settled, Settle, Pools
  <2>. HIDE DEF done, C, others
  <2>. QED  BY <1>6, <1>13, <2>1 DEF Pools
<1>15. /\ PiecesOK(bt, w1) /\ w1.deque = w.deque /\ w1 \in Threads
       /\ \A c \in Nat : Holds(w1, c) => Holds(w, c)
  <2>1. w0 \in Threads /\ w0.stack = [w.stack EXCEPT ![Len(w.stack)].i = i + 1] /\ w0.deque = w.deque
    BY <1>3, <1>5 DEF PiecesOK, Threads
  <2>2. w0.stack \in Seq(Frames)
    BY <2>1, ThreadType
  <2>3. PICK m \in 0 .. Len(w0.stack) : Unwound(done, w0.stack) = SubSeq(w0.stack, 1, m)
    BY <2>2, UnwoundIs
  <2>4. w1 = [w0 EXCEPT !.stack = SubSeq(w0.stack, 1, m)]
    <3>1. w1 = [w EXCEPT !.stack = Unwound(done, w0.stack)]
      BY <2>1
    <3>2. w0 = [w EXCEPT !.stack = w0.stack]
      BY <2>1
    <3>. HIDE DEF w0, w1, done
    <3>. QED  BY <1>3, <2>1, <2>3, <3>1, <3>2 DEF Threads
  <2>. HIDE DEF w0, w1
  <2>5. PiecesOK(bt, w1) /\ \A c \in Nat : Holds(w1, c) => Holds(w0, c)
    BY <1>5, <2>3, <2>4, PrefixThread
  <2>6. w1.deque = w.deque
    BY <2>1, <2>4 DEF Threads
  <2>. QED  BY <1>5, <2>5, <2>6 DEF PiecesOK
<1>. HIDE DEF others, w1, C, w0, done
<1>16. CASE w1.deque # <<>> /\ (w1.stack = <<>> \/ AtEnd(Top(w1)))
  <2>. DEFINE D == Front(w1.deque)  job == Last(w1.deque)  u == [stack |-> w1.stack, deque |-> D]
  <2>0. Len(w1.deque) > 0
    <3>1. w1.deque \in Seq(Jobs) /\ w1.deque # <<>>
      BY <1>15, <1>16, ThreadType
    <3>. QED  BY ONLY <3>1
  <2>1. /\ PiecesOK(bt, u) /\ job \in Jobs /\ JobOK(bt, job)
        /\ \A c \in Nat : InJob(job, c) => ~Holds(u, c) /\ Holds(w1, c)
        /\ \A c \in Nat : Holds(u, c) => Holds(w1, c)
    BY <1>15, <2>0, PopBack
  <2>. HIDE DEF D, job
  <2>2. ThreadsOK(bt, C \ {w1})
    BY <1>11, DropThreads
  <2>3. \A v \in C \ {w1}, c \in Nat : ~(Holds(v, c) /\ (Holds(u, c) \/ InJob(job, c)))
    BY <1>12, <1>15, <2>1
  <2>4. MayTake(n, r, others, w1, D, job)
    BY ONLY <1>1, <1>9, <1>14, <2>1, <2>2, <2>3 DEF MayTake
  <2>5. F = Taken(others, w1, D, job)
    BY <1>7, <1>16 DEF D, job
  <2>6. PoolOK(n, r, F) /\ F.call = others.call /\ F.failed = others.failed /\ F.at = [others.at EXCEPT ![job[1]] = 1]
        /\ others.at[job[1]] = 0
    BY ONLY <2>4, <2>5, TakenOK, n \in Nat, r \in Nat \ {0}
  <2>7. Steps(pl, F, i, Fin)
    <3>1. job[1] # i
      BY <1>8, <1>14, <2>6 DEF Fin
    <3>2. F.at = [bt EXCEPT ![job[1]] = 1] /\ bt[job[1]] = 0
      BY <1>14, <2>6
    <3>. QED  BY <1>2, <1>4, <1>8, <1>14, <2>6, <3>1, <3>2 DEF Steps
  <2>. QED  BY <2>6, <2>7 DEF F, i
<1>17. CASE ~(w1.deque # <<>> /\ (w1.stack = <<>> \/ AtEnd(Top(w1))))
  <2>. DEFINE G == (C \cup {w1}) \ {Idle}
  <2>1. F = [others EXCEPT !.busy = G]
    BY <1>7, <1>14, <1>17 DEF Pools
  <2>2. ThreadsOK(bt, G)
    <3>1. CASE w1.stack = <<>>
      <4>1. w1 = Idle
        BY <1>15, <1>17, <3>1 DEF Idle, Threads
      <4>2. G \subseteq C
        BY <4>1
      <4>. QED  BY <1>11, <4>2, DropThreads
    <3>2. CASE w1.stack # <<>>
      <4>1. Len(w1.stack) > 0
        <5>1. w1.stack \in Seq(Frames)
          BY <1>15, ThreadType
        <5>. QED  BY ONLY <3>2, <5>1
      <4>2. AtEnd(Top(w1)) => Len(w1.deque) = 0
        BY <1>17
      <4>3. ThreadOK(bt, w1)
        BY <1>15, <4>1, <4>2 DEF ThreadOK
      <4>4. \A v \in C, c \in Nat : ~(Holds(v, c) /\ Holds(w1, c))
        BY <1>12, <1>15
      <4>5. ThreadsOK(bt, C \cup {w1})
        BY <1>11, <4>3, <4>4, AddThread
      <4>. QED  BY <4>5, DropThreads
    <3>. QED  BY <3>1, <3>2
  <2>3. G \subseteq Threads
    BY <1>13, <1>15
  <2>. HIDE DEF G
  <2>4. /\ F \in Pools(n) /\ F.at = bt /\ F.fork = pl.fork /\ F.busy = G /\ F.call = pl.call
        /\ F.failed = pl.failed /\ F.injected = pl.injected
    BY <1>14, <2>1, <2>3 DEF Pools
  <2>5. PoolOK(n, r, F)
    BY <1>1, <1>9, <2>2, <2>4 DEF PoolOK
  <2>6. Steps(pl, F, i, Fin)
    BY <1>2, <1>8, <2>4 DEF Steps
  <2>. QED  BY <2>5, <2>6 DEF F, i
<1>. QED  BY <1>16, <1>17

\* A step that gives up chunks: every other chunk is where it was.
GaveUp(pl, pl2) ==
  /\ pl2.call = pl.call /\ pl2.failed = TRUE /\ DOMAIN pl2.at = DOMAIN pl.at
  /\ \A j \in DOMAIN pl.at : pl2.at[j] \in {pl.at[j], Fin}

\* A chunk that fails ends its frame's remaining chunks, and the pool's invariant stands.
LEMMA SkippedOK ==
  ASSUME NEW n \in Nat, NEW r \in Nat \ {0}, NEW pl, PoolOK(n, r, pl), NEW w \in pl.busy,
         ~AtEnd(Top(w))
  PROVE  PoolOK(n, r, Skipped(pl, w)) /\ GaveUp(pl, Skipped(pl, w))
<1>. DEFINE i == Top(w).i
            cut(f) == [f EXCEPT !.hi = IF ~AtEnd(f) /\ pl.at[f.i] # 0 /\ f # Top(w) THEN f.i + 1 ELSE f.i]
            bt == [j \in DOMAIN pl.at |-> IF j = Top(w).i \/ pl.at[j] = 0 THEN Fin ELSE pl.at[j]]
            v1(v) == [stack |-> [m \in DOMAIN v.stack |-> cut(v.stack[m])], deque |-> << >>]
            B == {v1(v) : v \in pl.busy}
            mid == [pl EXCEPT !.failed = TRUE, !.at = bt, !.busy = B]
            P == Skipped(pl, w)
<1>1. /\ pl \in Pools(n) /\ ThreadsOK(pl.at, pl.busy) /\ ~pl.injected
      /\ \A j \in 0 .. n - 1 : pl.at[j] <= 2 * r /\ (pl.at[j] \notin {0, Fin} => pl.fork[j] = j + 1)
  BY DEF PoolOK
<1>2. pl.at \in [0 .. n - 1 -> Nat \cup {Fin}] /\ pl.fork \in [0 .. n - 1 -> Nat] /\ pl.busy \subseteq Threads
  BY <1>1 DEF Pools
<1>3. PiecesOK(pl.at, w) /\ Len(w.stack) > 0 /\ w \in Threads
  BY <1>1 DEF ThreadsOK, ThreadOK, PiecesOK
<1>4. i \in Nat /\ InStack(w, Len(w.stack), i) /\ Len(w.stack) \in Nat
  BY <1>3, TopFacts, ThreadType
<1>5. P = Settled([pl EXCEPT !.failed = TRUE,
                            !.at = [j \in DOMAIN @ |-> IF j = Top(w).i \/ @[j] = 0 THEN Fin ELSE @[j]],
                            !.busy = {v1(v) : v \in @}])
  BY DEF Skipped
<1>6. P = Settled(mid)
  <2>1. mid = [pl EXCEPT !.failed = TRUE,
                         !.at = [j \in DOMAIN @ |-> IF j = Top(w).i \/ @[j] = 0 THEN Fin ELSE @[j]],
                         !.busy = {v1(v) : v \in @}]
    OBVIOUS
  <2>. HIDE DEF mid, P
  <2>. QED  BY ONLY <1>5, <2>1
<1>7. /\ bt \in [0 .. n - 1 -> Nat \cup {Fin}] /\ DOMAIN bt = DOMAIN pl.at
      /\ \A j \in 0 .. n - 1 : bt[j] = IF j = i \/ pl.at[j] = 0 THEN Fin ELSE pl.at[j]
  BY <1>2
<1>. HIDE DEF bt, P
<1>8. ASSUME NEW v \in pl.busy
      PROVE  /\ ThreadOK(bt, v1(v)) /\ v1(v) \in Threads
             /\ \A c \in Nat : Holds(v1(v), c) => Holds(v, c)
  <2>0. PiecesOK(pl.at, v) /\ Len(v.stack) > 0 /\ v \in Threads /\ Solo(v)
    BY <1>1 DEF ThreadsOK, ThreadOK, PiecesOK
  <2>1. v.stack \in Seq(Frames) /\ Len(v.stack) \in Nat /\ \A x \in 1 .. Len(v.stack) : v.stack[x] \in Frames
    BY <2>0, ThreadType
  <2>2. ASSUME NEW f \in Frames PROVE /\ cut(f) \in Frames /\ cut(f).i = f.i
                                      /\ cut(f).hi = IF ~AtEnd(f) /\ pl.at[f.i] # 0 /\ f # Top(w) THEN f.i + 1 ELSE f.i
    BY DEF Frames
  <2>. HIDE DEF cut
  <2>. DEFINE S == [m \in DOMAIN v.stack |-> cut(v.stack[m])]
  <2>3. S \in Seq(Frames) /\ Len(S) = Len(v.stack) /\ \A x \in 1 .. Len(v.stack) : S[x] = cut(v.stack[x])
    BY <2>1, <2>2
  <2>. HIDE DEF S
  <2>. DEFINE u == v1(v)
  <2>4. u = [stack |-> S, deque |-> << >>]
    BY DEF S
  <2>. HIDE DEF u
  <2>5. u.stack = S /\ u.deque = <<>> /\ Len(u.deque) = 0 /\ u \in Threads
    <3>1. <<>> \in Seq(Jobs) /\ Len(<<>>) = 0
      OBVIOUS
    <3>. QED  BY <2>3, <2>4, <3>1 DEF Threads
  <2>6. ASSUME NEW x \in 1 .. Len(v.stack), NEW c \in Nat, InFrame(S[x], c)
        PROVE  InFrame(v.stack[x], c) /\ c = v.stack[x].i /\ pl.at[c] # 0 /\ v.stack[x] # Top(w)
    <3>. DEFINE f == v.stack[x]
    <3>1. f \in Frames /\ S[x] = cut(f) /\ FrameOK(pl.at, f) /\ f.i \in Nat /\ f.hi \in Nat
      BY <2>0, <2>1, <2>3 DEF PiecesOK, Frames
    <3>. HIDE DEF f
    <3>2. f.i <= c /\ c < IF ~AtEnd(f) /\ pl.at[f.i] # 0 /\ f # Top(w) THEN f.i + 1 ELSE f.i
      BY <2>2, <2>6, <3>1 DEF InFrame
    <3>3. ~AtEnd(f) /\ pl.at[f.i] # 0 /\ f # Top(w) /\ c = f.i
      BY <3>1, <3>2
    <3>4. InFrame(f, c)
      BY <3>1, <3>3 DEF InFrame, AtEnd, FrameOK
    <3>. QED  BY <3>3, <3>4 DEF f
  <2>7. \A x, c \in Nat : (InStack(u, x, c) => InStack(v, x, c)) /\ ~InDeque(u, x, c)
    BY <2>1, <2>3, <2>5, <2>6 DEF InStack, InDeque
  <2>8. Solo(u)
    BY <2>0, <2>7 DEF Solo
  <2>9. \A c \in Nat : Holds(u, c) => Holds(v, c)
    BY <2>7 DEF Holds
  <2>10. ASSUME NEW x \in 1 .. Len(v.stack) PROVE FrameOK(bt, S[x])
    <3>1. v.stack[x] \in Frames /\ S[x] = cut(v.stack[x]) /\ FrameOK(pl.at, v.stack[x]) /\ x \in Nat
      BY <2>0, <2>1, <2>3 DEF PiecesOK
    <3>2. S[x].i <= S[x].hi /\ S[x].i = v.stack[x].i
      <4>1. v.stack[x].i \in Nat
        BY <3>1 DEF Frames
      <4>. QED  BY <2>2, <3>1, <4>1
    <3>3. ASSUME NEW c \in Nat, InFrame(S[x], c)
          PROVE  c \in DOMAIN bt /\ bt[c] # Fin /\ c = S[x].i
      <4>1. InFrame(v.stack[x], c) /\ c = v.stack[x].i /\ pl.at[c] # 0 /\ v.stack[x] # Top(w)
        BY <2>6, <3>3
      <4>2. c \in DOMAIN pl.at /\ pl.at[c] # Fin
        BY <3>1, <4>1 DEF FrameOK
      <4>3. c # i
        <5>. SUFFICES ASSUME c = i PROVE FALSE
          OBVIOUS
        <5>1. InStack(v, x, i)
          BY <4>1 DEF InStack
        <5>2. Holds(v, i) /\ Holds(w, i)
          BY <1>4, <3>1, <5>1 DEF Holds
        <5>3. v = w
          BY <1>1, <1>4, <5>2 DEF ThreadsOK
        <5>4. x = Len(w.stack)
          BY <1>4, <2>0, <3>1, <5>1, <5>3 DEF Solo
        <5>. QED  BY <4>1, <5>3, <5>4 DEF Top
      <4>. QED  BY <1>2, <1>7, <3>2, <4>1, <4>2, <4>3
    <3>. QED  BY <3>2, <3>3 DEF FrameOK
  <2>11. PiecesOK(bt, u)
    BY <2>3, <2>5, <2>8, <2>10 DEF PiecesOK
  <2>12. ThreadOK(bt, u)
    BY <2>0, <2>3, <2>5, <2>11 DEF ThreadOK
  <2>. QED  BY <2>5, <2>9, <2>12 DEF u
<1>. HIDE DEF v1
<1>9. ThreadsOK(bt, B)
  <2>1. \A x, y \in B, c \in Nat : Holds(x, c) /\ Holds(y, c) => x = y
    <3>. SUFFICES ASSUME NEW x \in B, NEW y \in B, NEW c \in Nat, Holds(x, c), Holds(y, c) PROVE x = y
      OBVIOUS
    <3>1. PICK a \in pl.busy : x = v1(a) /\ Holds(a, c)
      BY <1>8
    <3>2. PICK b \in pl.busy : y = v1(b) /\ Holds(b, c)
      BY <1>8
    <3>3. a = b
      BY <1>1, <3>1, <3>2 DEF ThreadsOK
    <3>. QED  BY <3>1, <3>2, <3>3
  <2>. QED  BY <1>8, <2>1 DEF ThreadsOK
<1>10. B \subseteq Threads
  BY <1>8
<1>. HIDE DEF B
<1>11. /\ mid \in Pools(n) /\ mid.at = bt /\ mid.fork = pl.fork /\ mid.busy = B /\ mid.call = pl.call
       /\ mid.failed = TRUE /\ mid.injected = pl.injected
  BY <1>1, <1>7, <1>10 DEF Pools
<1>. HIDE DEF mid
<1>. DEFINE C == Settle(mid, B)
<1>12. ThreadsOK(bt, C)
  BY <1>9, <1>11, SettledOK
<1>13. P = [mid EXCEPT !.busy = C]
  BY <1>6, <1>11 DEF Settled, Settle, Pools
<1>14. C \subseteq Threads
  <2>. HIDE DEF C
  <2>. QED  BY <1>12 DEF ThreadsOK, ThreadOK, PiecesOK
<1>. HIDE DEF C
<1>15. /\ P \in Pools(n) /\ P.at = bt /\ P.fork = pl.fork /\ P.busy = C /\ P.call = pl.call
       /\ P.failed = TRUE /\ P.injected = pl.injected
  BY <1>11, <1>13, <1>14 DEF Pools
<1>16. \A j \in 0 .. n - 1 : bt[j] <= 2 * r /\ (bt[j] \notin {0, Fin} => pl.fork[j] = j + 1)
  <2>. SUFFICES ASSUME NEW j \in 0 .. n - 1 PROVE bt[j] <= 2 * r /\ (bt[j] \notin {0, Fin} => pl.fork[j] = j + 1)
    OBVIOUS
  <2>1. bt[j] = Fin \/ bt[j] = pl.at[j]
    BY <1>7
  <2>. QED  BY <1>1, <2>1 DEF Fin
<1>17. PoolOK(n, r, P)
  BY <1>1, <1>12, <1>15, <1>16 DEF PoolOK
<1>18. GaveUp(pl, P)
  BY <1>2, <1>7, <1>15 DEF GaveUp
<1>. QED  BY <1>17, <1>18 DEF P
=============================================================================
