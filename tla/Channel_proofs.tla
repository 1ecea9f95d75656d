--------------------------- MODULE Channel_proofs ---------------------------
(***************************************************************************)
(* Proofs about Channel, for any number of senders and receivers, any      *)
(* scripts and any budgets, capacities and window.                         *)
(***************************************************************************)
EXTENDS Channel, Sums_proofs, FunctionTheorems, FiniteSetTheorems

-----------------------------------------------------------------------------
(* Types *)

Units == Sent \X Nat
Waiters == [who : Senders, lacks : Nat \ {0}]

Phases == {"idle", "waiting", "enqueue"}

\* A sender that is not idle has a message left and has the permits of it, or
\* waits for some of them; an idle one has none.
SenderOK(s) ==
  /\ sent[s] <= Len(Script[s])
  /\ phase[s] = "idle" => held[s] = 0
  /\ phase[s] # "idle" => sent[s] < Len(Script[s]) /\ held[s] = WritePermits(Current(s))

\* Those who wait are queued once each.
QueueOK ==
  /\ \A i \in 1..Len(wWait) :
       phase[wWait[i].who] = "waiting" /\ wWait[i].lacks <= held[wWait[i].who]
  /\ \A i, j \in 1..Len(wWait) : wWait[i].who = wWait[j].who => i = j

SendTypes ==
  /\ phase \in [Senders -> Phases]
  /\ sent \in [Senders -> Nat] /\ held \in [Senders -> Nat]
  /\ wAvail \in Nat /\ wWait \in Seq(Waiters)
  /\ \A s \in Senders : SenderOK(s)
  /\ QueueOK

WriteTypes ==
  /\ wq \in Seq(Sent) /\ Len(wq) <= WriteCap
  /\ writer \in [at : {"idle", "write", "failed", "dead"}, msg : Sent \cup {<<>>}, off : Nat]
  /\ writer.at = "write" => writer.msg \in Sent /\ writer.off <= Size(writer.msg) + 1
  /\ ack \in [Sent -> {"none", "ok", "err"}]
  /\ sendOpen \in BOOLEAN /\ up \in BOOLEAN
  /\ wire \in Seq(Units) /\ Len(wire) <= Window
  /\ \A i \in 1..Len(wire) : wire[i][2] <= Size(wire[i][1])
  /\ accepted \in Seq(Sent)

ReadTypes ==
  /\ reader \in [at : {"prefix", "permit", "body", "dead"}, len : Nat, buf : Seq(Units)]
  /\ Len(reader.buf) <= reader.len /\ (reader.at = "permit" => reader.buf = <<>>)
  /\ rAvail \in Nat
  /\ fq \in Seq(Seq(Units)) /\ Len(fq) <= ReadCap

\* A receiver waits exactly when its one job is queued or being served.
RecvTypes ==
  /\ rq \in Seq(Receivers)
  /\ \A i, j \in 1..Len(rq) : rq[i] = rq[j] => i = j
  /\ server \in [at : {"idle", "serve", "failed", "dead"}, job : SUBSET Receivers]
  /\ server.at # "serve" => server.job = {}
  /\ \A i \in 1..Len(rq) : rq[i] \notin server.job
  /\ wants \in Wants /\ done \in [Receivers -> Nat]
  /\ waiting \in SUBSET Receivers
  /\ \A r \in Receivers : r \in waiting <=> r \in server.job \/ \E i \in 1..Len(rq) : rq[i] = r
  /\ \A r \in Receivers : done[r] <= wants[r] /\ (r \in waiting => done[r] < wants[r])
  /\ recvOpen \in BOOLEAN
  /\ delivered \in Seq(Seq(Units))

Typed == SendTypes /\ WriteTypes /\ ReadTypes /\ RecvTypes

\* The next message of a sender that has one left, and its size.
LEMMA MessageTypes ==
  /\ \A m \in Sent : Size(m) \in Nat /\ WritePermits(m) \in Nat
  /\ \A s \in Senders : Len(Script[s]) \in Nat
  /\ \A s \in Senders, k \in Nat \ {0} : k <= Len(Script[s]) => <<s, k>> \in Sent
<1>1. ASSUME NEW m \in Sent PROVE Size(m) \in Nat
  <2>1. PICK s \in Senders : m \in {<<s, k>> : k \in 1..Len(Script[s])}
    BY DEF Sent
  <2>2. PICK k \in 1..Len(Script[s]) : m = <<s, k>>
    BY <2>1
  <2>. QED  BY <2>2, ThreadsAssumption DEF Size
<1>2. \A m \in Sent : WritePermits(m) \in Nat
  BY <1>1 DEF WritePermits
<1>3. \A s \in Senders : Len(Script[s]) \in Nat
  BY ThreadsAssumption
<1>4. \A s \in Senders, k \in Nat \ {0} : k <= Len(Script[s]) => <<s, k>> \in Sent
  BY <1>3 DEF Sent
<1>. QED  BY <1>1, <1>2, <1>3, <1>4

\* Permits asked for are numbers within the budget.
LEMMA ReadPermitsType ==
  ASSUME NEW n \in Nat PROVE ReadPermits(n) \in Nat /\ ReadPermits(n) <= ReadBudget
BY LimitsAssumption DEF ReadPermits

-----------------------------------------------------------------------------
(* The semaphore *)

\* Released permits meet the demands in order: what acquirers still lack after
\* n permits is what they lacked in excess of n.
LEMMA GrantSums ==
  ASSUME NEW f \in Seq(Nat \ {0}), NEW n \in Nat, NEW G \in Seq(Int), Len(G) = Len(f),
         \A i \in 1..Len(f) : G[i] = MaxOf(0, f[i] - MaxOf(0, n - Partial(f)[i - 1]))
  PROVE  /\ \A i \in 0..Len(f) : Partial(G)[i] = MaxOf(0, Partial(f)[i] - n)
         /\ \A i \in 1..Len(f) :
              G[i] \in Nat /\ G[i] <= f[i] /\ (G[i] = 0 <=> Partial(f)[i] <= n)
<1>. DEFINE p == Partial(f)  q == Partial(G)  L == Len(f)
            T == {i \in 0..L : q[i] = MaxOf(0, p[i] - n)}
<1>1. f \in Seq(Nat) /\ f \in Seq(Int) /\ L \in Nat /\ \A i \in 1..L : f[i] \in Nat \ {0}
  OBVIOUS
<1>2. /\ p \in [0..L -> Nat] /\ p[0] = 0 /\ \A i \in 1..L : p[i] = p[i - 1] + f[i]
      /\ q[0] = 0 /\ \A i \in 1..L : q[i] = q[i - 1] + G[i]
  BY <1>1, PartialDef, PartialNat
<1>3. \A i \in 1..L : G[i] = MaxOf(0, f[i] - MaxOf(0, n - p[i - 1]))
  OBVIOUS
<1>. HIDE DEF p, q, L
<1>4. ASSUME NEW i \in 1..L
      PROVE  /\ G[i] \in Nat /\ G[i] <= f[i] /\ (G[i] = 0 <=> p[i] <= n)
             /\ MaxOf(0, p[i] - n) = MaxOf(0, p[i - 1] - n) + G[i]
  <2>1. i - 1 \in 0..L /\ p[i - 1] \in Nat /\ p[i] = p[i - 1] + f[i] /\ f[i] \in Nat \ {0}
    BY <1>1, <1>2
  <2>2. G[i] = MaxOf(0, f[i] - MaxOf(0, n - p[i - 1]))
    BY <1>3
  <2>3. PICK a \in Nat : a = p[i - 1]
    BY <2>1
  <2>4. PICK c \in Nat \ {0} : c = f[i]
    BY <2>1
  <2>5. p[i] = a + c /\ G[i] = MaxOf(0, c - MaxOf(0, n - a))
    BY <2>1, <2>2, <2>3, <2>4
  <2>6. LET e == MaxOf(0, c - MaxOf(0, n - a))
        IN  /\ e \in Nat /\ e <= c /\ (e = 0 <=> a + c <= n)
            /\ MaxOf(0, (a + c) - n) = MaxOf(0, a - n) + e
    BY DEF MaxOf
  <2>. QED  BY <2>3, <2>4, <2>5, <2>6
<1>5. 0 \in T
  BY <1>1, <1>2 DEF MaxOf
<1>6. ASSUME NEW i \in 0..L - 1, i \in T PROVE i + 1 \in T
  <2>1. i + 1 \in 1..L /\ (i + 1) - 1 = i /\ i + 1 \in 0..L
    BY <1>1
  <2>2. q[i + 1] = q[i] + G[i + 1] /\ q[i] = MaxOf(0, p[i] - n)
    BY <1>2, <1>6, <2>1
  <2>3. MaxOf(0, p[i + 1] - n) = MaxOf(0, p[i] - n) + G[i + 1]
    BY <1>4, <2>1
  <2>. QED  BY <2>1, <2>2, <2>3
<1>7. 0..L \subseteq T
  <2>. HIDE DEF T
  <2>. QED  BY <1>1, <1>5, <1>6, SetInduction
<1>. QED  BY <1>4, <1>7 DEF p, q, L

\* The acquirers that need no more are the first ones.
LEMMA ServedFirst ==
  ASSUME NEW p, NEW L \in Nat, p \in [0..L -> Nat], NEW n \in Nat,
         \A i, j \in 0..L : i <= j => p[i] <= p[j]
  PROVE  \E g \in 0..L : (\A i \in 1..g : p[i] <= n) /\ (\A i \in g + 1..L : p[i] > n)
<1>. DEFINE Cuts == {i \in 0..L : \A j \in i + 1..L : p[j] > n}
<1>1. Cuts \in SUBSET Nat /\ L \in Cuts
  OBVIOUS
<1>2. PICK g \in Cuts : \A i \in Cuts : g <= i
  <2>. HIDE DEF Cuts
  <2>. QED  BY <1>1, LeastNatural
<1>3. ASSUME g > 0 PROVE p[g] <= n
  <2>1. g - 1 \in 0..L /\ g - 1 \notin Cuts
    <3>1. g \in 1..L /\ ~(g <= g - 1)
      BY <1>1, <1>2, <1>3
    <3>. HIDE DEF Cuts
    <3>. QED  BY <1>2, <3>1
  <2>2. PICK j \in (g - 1) + 1..L : ~(p[j] > n)
    BY <2>1
  <2>3. j \notin g + 1..L /\ j \in g..L
    BY <1>2, <2>2
  <2>4. j = g
    BY <1>2, <2>3
  <2>. QED  BY <1>2, <2>2, <2>4
<1>4. ASSUME NEW i \in 1..g PROVE p[i] <= n
  <2>1. p[i] <= p[g] /\ p[g] <= n /\ p[i] \in Nat /\ p[g] \in Nat
    BY <1>2, <1>3
  <2>. QED  BY <2>1
<1>. QED  BY <1>2, <1>4


\* What a release of n permits does to the queue of acquirers: the first g leave
\* it, the others move up, and no permit appears or disappears.
ReleaseEffect(n, base, g) ==
  /\ wWait' \in Seq(Waiters) /\ wAvail' \in Nat
  /\ Len(wWait') = Len(wWait) - g
  /\ \A i \in 1..Len(wWait') :
       wWait'[i].who = wWait[i + g].who /\ wWait'[i].lacks <= wWait[i + g].lacks
  /\ phase' = [s \in Senders |-> IF \E i \in 1..g : wWait[i].who = s THEN "enqueue"
                                                                     ELSE base[s]]
  /\ wAvail' - Total(Lacks)' = wAvail + n - Total(Lacks)

\* A function on 1..n is a sequence.
LEMMA FunctionIsSeq ==
  ASSUME NEW S, NEW n \in Nat, NEW f \in [1..n -> S]
  PROVE  f \in Seq(S) /\ Len(f) = n
OBVIOUS

\* The elements of a sequence.
LEMMA SeqElements ==
  ASSUME NEW S, NEW q \in Seq(S)
  PROVE  Len(q) \in Nat /\ (\A i \in 1..Len(q) : q[i] \in S) /\ q \in [1..Len(q) -> S]
OBVIOUS

\* The elements of a sequence without its first one.
LEMMA TailElements ==
  ASSUME NEW S, NEW q \in Seq(S), q # <<>>
  PROVE  /\ Len(q) \in Nat \ {0} /\ Head(q) = q[1] /\ Head(q) \in S
         /\ Tail(q) \in Seq(S) /\ Len(Tail(q)) = Len(q) - 1
         /\ Tail(q) \in [1..Len(q) - 1 -> S]
         /\ \A i \in 1..Len(q) - 1 : Tail(q)[i] = q[i + 1]
<1>1. Len(q) \in Nat \ {0} /\ Head(q) = q[1] /\ Head(q) \in S
  OBVIOUS
<1>2. Tail(q) \in Seq(S) /\ Len(Tail(q)) = Len(q) - 1
      /\ \A i \in 1..Len(q) - 1 : Tail(q)[i] = q[i + 1]
  OBVIOUS
<1>3. Tail(q) \in [1..Len(q) - 1 -> S]
  BY <1>2, SeqElements
<1>. QED  BY <1>1, <1>2, <1>3

\* The elements of a sequence with one more at its end.
LEMMA AppendElements ==
  ASSUME NEW S, NEW q \in Seq(S), NEW x \in S
  PROVE  /\ Append(q, x) \in Seq(S) /\ Len(Append(q, x)) = Len(q) + 1
         /\ Append(q, x)[Len(q) + 1] = x
         /\ \A i \in 1..Len(q) : Append(q, x)[i] = q[i]
OBVIOUS

\* What the acquirers lack is a sequence of positive numbers.
LEMMA LacksType ==
  ASSUME wWait \in Seq(Waiters)
  PROVE  /\ Lacks \in Seq(Nat \ {0}) /\ Lacks \in Seq(Nat) /\ Lacks \in Seq(Int)
         /\ Len(Lacks) = Len(wWait) /\ \A i \in 1..Len(wWait) : Lacks[i] = wWait[i].lacks
         /\ Total(Lacks) \in Nat
<1>1. Len(wWait) \in Nat /\ \A i \in 1..Len(wWait) : wWait[i] \in Waiters
  BY SeqElements
<1>2. \A i \in 1..Len(wWait) : wWait[i].lacks \in Nat \ {0}
  BY <1>1 DEF Waiters
<1>3. Lacks \in [1..Len(wWait) -> Nat \ {0}] /\ Lacks \in [1..Len(wWait) -> Nat]
      /\ Lacks \in [1..Len(wWait) -> Int]
      /\ \A i \in 1..Len(wWait) : Lacks[i] = wWait[i].lacks
  BY <1>2 DEF Lacks
<1>. QED  BY <1>1, <1>3, FunctionIsSeq, TotalType

\* What the acquirers lack after n permits were given out.
Short(n) == [i \in 1..Len(wWait) |-> MaxOf(0, wWait[i].lacks - LeftAfter(n, i - 1))]

\* The acquirers after a release: who they are, and what they lack.
LEMMA GrantedTypes ==
  ASSUME wWait \in Seq(Waiters), NEW n \in Nat
  PROVE  /\ Partial(Lacks) \in [0..Len(wWait) -> Nat]
         /\ Total(Lacks) = Partial(Lacks)[Len(wWait)]
         /\ \A i, j \in 0..Len(wWait) : i <= j => Partial(Lacks)[i] <= Partial(Lacks)[j]
         /\ Short(n) \in Seq(Int) /\ Len(Short(n)) = Len(wWait)
         /\ \A i \in 0..Len(wWait) : Partial(Short(n))[i] = MaxOf(0, Partial(Lacks)[i] - n)
         /\ \A i \in 1..Len(wWait) : Short(n)[i] \in Nat /\ Short(n)[i] <= wWait[i].lacks
                                     /\ (Short(n)[i] = 0 <=> Partial(Lacks)[i] <= n)
         /\ Granted(n) = [i \in 1..Len(wWait) |-> [who |-> wWait[i].who, lacks |-> Short(n)[i]]]
<1>. DEFINE p == Partial(Lacks)  G == Short(n)
<1>1. PICK L \in Nat : L = Len(wWait)
  BY SeqElements
<1>2. /\ Lacks \in Seq(Nat \ {0}) /\ Lacks \in Seq(Nat) /\ Lacks \in Seq(Int) /\ Len(Lacks) = L
      /\ \A i \in 1..L : Lacks[i] = wWait[i].lacks
  BY <1>1, LacksType
<1>3. \A i \in 1..L : wWait[i] \in Waiters
  BY <1>1, SeqElements
<1>4. p \in [0..L -> Nat] /\ (\A i, j \in 0..L : i <= j => p[i] <= p[j]) /\ Total(Lacks) = p[L]
  BY <1>2, PartialNat DEF Total
<1>0. G = [i \in 1..L |-> MaxOf(0, wWait[i].lacks - LeftAfter(n, i - 1))]
  BY <1>1 DEF Short
<1>. HIDE DEF p, G
<1>5. ASSUME NEW i \in 1..L
      PROVE  /\ G[i] = MaxOf(0, Lacks[i] - MaxOf(0, n - p[i - 1])) /\ G[i] \in Int
  <2>1. i - 1 \in 0..L
    OBVIOUS
  <2>2. p[i - 1] \in Nat /\ Lacks[i] \in Nat
    BY <1>2, <1>4, <2>1, SeqElements
  <2>3. G[i] = MaxOf(0, Lacks[i] - MaxOf(0, n - p[i - 1]))
    BY <1>0, <1>2 DEF LeftAfter, p
  <2>. QED  BY <2>2, <2>3 DEF MaxOf
<1>6. G \in [1..L -> Int]
  BY <1>0, <1>5
<1>7. G \in Seq(Int) /\ Len(G) = L
  BY <1>6, FunctionIsSeq
<1>8. /\ \A i \in 0..L : Partial(G)[i] = MaxOf(0, p[i] - n)
      /\ \A i \in 1..L : G[i] \in Nat /\ G[i] <= Lacks[i] /\ (G[i] = 0 <=> p[i] <= n)
  <2>1. Len(G) = Len(Lacks) /\ \A i \in 1..Len(Lacks) :
          G[i] = MaxOf(0, Lacks[i] - MaxOf(0, n - Partial(Lacks)[i - 1]))
    BY <1>2, <1>5, <1>7 DEF p
  <2>2. /\ \A i \in 0..Len(Lacks) : Partial(G)[i] = MaxOf(0, Partial(Lacks)[i] - n)
        /\ \A i \in 1..Len(Lacks) :
             G[i] \in Nat /\ G[i] <= Lacks[i] /\ (G[i] = 0 <=> Partial(Lacks)[i] <= n)
    BY <1>2, <1>7, <2>1, GrantSums
  <2>. QED  BY <1>2, <2>2 DEF p
<1>9. Granted(n) = [i \in 1..L |-> [who |-> wWait[i].who, lacks |-> G[i]]]
  <2>1. ASSUME NEW i \in 1..L
        PROVE  [wWait[i] EXCEPT !.lacks = G[i]] = [who |-> wWait[i].who, lacks |-> G[i]]
    BY <1>3, SMTT(60) DEF Waiters
  <2>2. ASSUME NEW i \in 1..L
        PROVE  MaxOf(0, wWait[i].lacks - LeftAfter(n, i - 1)) = G[i]
    BY <1>0
  <2>3. Granted(n) = [i \in 1..L |-> [wWait[i] EXCEPT !.lacks = G[i]]]
    BY <1>1, <2>2, Zenon DEF Granted
  <2>. QED  BY <2>1, <2>3
<1>. QED  BY <1>1, <1>2, <1>4, <1>7, <1>8, <1>9 DEF p, G

\* A release has this effect, for some number g of acquirers served.
LEMMA ReleaseFacts ==
  ASSUME wWait \in Seq(Waiters), wAvail \in Nat, NEW n \in Nat, NEW base, Release(n, base)
  PROVE  \E g \in 0..Len(wWait) : ReleaseEffect(n, base, g)
<1>1. PICK L \in Nat : L = Len(wWait)
  BY SeqElements
<1>2. PICK G : G = Short(n)
  OBVIOUS
<1>3. PICK p : p = Partial(Lacks)
  OBVIOUS
<1>4. /\ p \in [0..L -> Nat] /\ Total(Lacks) = p[L]
      /\ \A i, j \in 0..L : i <= j => p[i] <= p[j]
      /\ G \in Seq(Int) /\ Len(G) = L
      /\ \A i \in 0..L : Partial(G)[i] = MaxOf(0, p[i] - n)
      /\ \A i \in 1..L : G[i] \in Nat /\ G[i] <= wWait[i].lacks /\ (G[i] = 0 <=> p[i] <= n)
      /\ Granted(n) = [i \in 1..L |-> [who |-> wWait[i].who, lacks |-> G[i]]]
  BY <1>1, <1>2, <1>3, GrantedTypes
<1>5. \A i \in 1..L : Granted(n)[i].lacks = G[i] /\ Granted(n)[i].who = wWait[i].who
  BY <1>4
<1>6. \E g \in 0..L : /\ \A i \in 1..g : Granted(n)[i].lacks = 0
                      /\ \A i \in g + 1..L : Granted(n)[i].lacks > 0
  <2>1. PICK g \in 0..L : (\A i \in 1..g : p[i] <= n) /\ (\A i \in g + 1..L : p[i] > n)
    BY <1>4, ServedFirst
  <2>2. ASSUME NEW i \in 1..g PROVE Granted(n)[i].lacks = 0
    <3>1. i \in 1..L
      OBVIOUS
    <3>. QED  BY <1>4, <1>5, <2>1, <3>1
  <2>3. ASSUME NEW i \in g + 1..L PROVE Granted(n)[i].lacks > 0
    <3>1. i \in 1..L /\ i \in 0..L
      OBVIOUS
    <3>2. p[i] > n /\ p[i] \in Nat
      BY <1>4, <2>1, <3>1
    <3>3. G[i] \in Nat /\ G[i] # 0
      BY <1>4, <3>1, <3>2
    <3>. QED  BY <1>5, <3>1, <3>3
  <2>. QED  BY <2>2, <2>3
<1>7. PICK g \in 0..L : /\ g = Served(n)
                        /\ \A i \in 1..g : Granted(n)[i].lacks = 0
                        /\ \A i \in g + 1..L : Granted(n)[i].lacks > 0
  BY <1>1, <1>6 DEF Served
<1>8. /\ wAvail' = wAvail + LeftAfter(n, L)
      /\ wWait' = SubSeq(Granted(n), g + 1, L)
      /\ phase' = [s \in Senders |-> IF \E i \in 1..g : wWait[i].who = s THEN "enqueue"
                                                                         ELSE base[s]]
  BY <1>1, <1>7 DEF Release
<1>9. wWait' = [i \in 1..L - g |-> [who |-> wWait[i + g].who, lacks |-> G[i + g]]]
  <2>1. \A i \in 1..L - g : i + g \in 1..L
    OBVIOUS
  <2>2. SubSeq(Granted(n), g + 1, L) = [i \in 1..L - g |-> Granted(n)[i + g]]
    BY <1>4
  <2>. QED  BY <1>4, <1>8, <2>1, <2>2, ZenonT(60)
<1>10. L - g \in Nat /\ \A i \in 1..L - g : i + g \in 1..L /\ i + g \in g + 1..L
  OBVIOUS
<1>11. ASSUME NEW i \in 1..L - g
       PROVE  /\ [who |-> wWait[i + g].who, lacks |-> G[i + g]] \in Waiters
              /\ G[i + g] <= wWait[i + g].lacks
  <2>1. wWait[i + g].who \in Senders
    <3>1. wWait[i + g] \in Waiters
      BY <1>1, <1>10, SeqElements
    <3>. QED  BY <3>1 DEF Waiters
  <2>2. Granted(n)[i + g].lacks = G[i + g] /\ Granted(n)[i + g].lacks > 0
    BY <1>5, <1>7, <1>10
  <2>3. G[i + g] \in Nat /\ G[i + g] <= wWait[i + g].lacks
    BY <1>4, <1>10
  <2>. QED  BY <2>1, <2>2, <2>3 DEF Waiters
<1>12. wWait' \in [1..L - g -> Waiters]
  BY <1>9, <1>11
<1>13. wWait' \in Seq(Waiters) /\ Len(wWait') = L - g
  BY <1>10, <1>12, FunctionIsSeq
<1>14. \A i \in 1..Len(wWait') :
         wWait'[i].who = wWait[i + g].who /\ wWait'[i].lacks <= wWait[i + g].lacks
  BY <1>9, <1>11, <1>13
<1>15. wAvail' \in Nat /\ wAvail' - Total(Lacks)' = wAvail + n - Total(Lacks)
  <2>1. PICK S : S = [i \in 1..L - g |-> G[i + g]]
    OBVIOUS
  <2>2. S \in Seq(Int) /\ Len(S) = L - g /\ \A i \in 1..Len(S) : S[i] = G[i + g]
    <3>1. \A i \in 1..L - g : G[i + g] \in Int
      BY <1>4, <1>10
    <3>2. S \in [1..L - g -> Int]
      BY <2>1, <3>1
    <3>. QED  BY <1>10, <2>1, <3>2, FunctionIsSeq
  <2>3. Lacks' = S
    BY <1>9, <1>13, <2>1 DEF Lacks
  <2>4. Total(G) = Partial(G)[g] + Total(S)
    BY <1>4, <1>7, <2>2, TotalDrop
  <2>5. Partial(G)[g] = 0
    <3>1. \A i \in 1..g : G[i] = 0
      BY <1>5, <1>7
    <3>. QED  BY <1>4, <1>7, <3>1, PartialZero
  <2>6. L \in 0..L
    OBVIOUS
  <2>7. Total(G) = MaxOf(0, p[L] - n) /\ p[L] \in Nat
    BY <1>4, <2>6 DEF Total
  <2>8. wAvail' = wAvail + MaxOf(0, n - p[L])
    BY <1>3, <1>8 DEF LeftAfter
  <2>9. Total(Lacks)' = Total(S)
    BY <2>3 DEF Total
  <2>10. MaxOf(0, p[L] - n) \in Nat
    BY <2>7 DEF MaxOf
  <2>11. Total(S) \in Int
    <3>1. Len(S) \in 0..Len(S)
      BY <1>10, <2>2
    <3>. QED  BY <2>2, <3>1, PartialDef DEF Total
  <2>12. Total(S) = MaxOf(0, p[L] - n)
    BY <2>4, <2>5, <2>7, <2>10, <2>11
  <2>13. PICK c \in Nat : c = p[L]
    BY <2>7
  <2>14. PICK x \in Nat : x = MaxOf(0, n - c)
    <3>1. MaxOf(0, n - c) \in Nat
      BY DEF MaxOf
    <3>. QED  BY <3>1
  <2>15. PICK y \in Nat : y = MaxOf(0, c - n)
    <3>1. MaxOf(0, c - n) \in Nat
      BY DEF MaxOf
    <3>. QED  BY <3>1
  <2>16. x - y = n - c
    BY <2>14, <2>15 DEF MaxOf
  <2>17. wAvail' = wAvail + x /\ Total(Lacks)' = y /\ Total(Lacks) = c
    BY <1>4, <2>8, <2>9, <2>12, <2>13, <2>14, <2>15
  <2>. QED  BY <2>16, <2>17
<1>16. ReleaseEffect(n, base, g)
  BY <1>1, <1>8, <1>13, <1>14, <1>15 DEF ReleaseEffect
<1>. QED  BY <1>1, <1>16

-----------------------------------------------------------------------------
(* Sending threads *)

\* A release, by a sender that gives up or by the writer, keeps the senders in
\* order: the acquirers served go on, the others stay queued.
LEMMA ReleaseSend ==
  ASSUME SendTypes, NEW n \in Nat, NEW base \in [Senders -> Phases], Release(n, base),
         sent' \in [Senders -> Nat], held' \in [Senders -> Nat],
         \A s \in Senders :
           \/ base[s] = phase[s] /\ sent'[s] = sent[s] /\ held'[s] = held[s]
           \/ /\ phase[s] = "enqueue" /\ base[s] = "idle"
              /\ sent'[s] = sent[s] + 1 /\ held'[s] = 0
  PROVE  SendTypes'
<1>1. PICK g \in 0..Len(wWait) : ReleaseEffect(n, base, g)
  BY ReleaseFacts DEF SendTypes
<1>2. PICK L \in Nat : L = Len(wWait)
  BY SeqElements DEF SendTypes
<1>3. \A i \in 1..L : wWait[i] \in Waiters /\ wWait[i].who \in Senders /\ wWait[i].lacks \in Nat
  <2>1. \A i \in 1..L : wWait[i] \in Waiters
    BY <1>2, SeqElements DEF SendTypes
  <2>. QED  BY <2>1 DEF Waiters
<1>4. /\ wWait' \in Seq(Waiters) /\ wAvail' \in Nat /\ Len(wWait') = L - g
      /\ \A i \in 1..L - g :
           wWait'[i].who = wWait[i + g].who /\ wWait'[i].lacks <= wWait[i + g].lacks
      /\ phase' = [s \in Senders |-> IF \E i \in 1..g : wWait[i].who = s THEN "enqueue"
                                                                         ELSE base[s]]
  BY <1>1, <1>2 DEF ReleaseEffect
<1>5. phase' \in [Senders -> Phases]
  BY <1>4 DEF Phases
<1>6. ASSUME NEW s \in Senders PROVE SenderOK(s)'
  <2>1. SenderOK(s) /\ sent[s] \in Nat /\ Len(Script[s]) \in Nat
    BY MessageTypes DEF SendTypes
  <2>2. Current(s)' = <<s, sent'[s] + 1>> /\ Current(s) = <<s, sent[s] + 1>>
    BY DEF Current
  <2>3. CASE \E i \in 1..g : wWait[i].who = s
    <3>1. phase[s] = "waiting" /\ phase'[s] = "enqueue"
      BY <1>2, <1>4, <2>3 DEF SendTypes, QueueOK
    <3>2. sent'[s] = sent[s] /\ held'[s] = held[s]
      BY <3>1
    <3>. QED  BY <2>1, <2>2, <3>1, <3>2 DEF SenderOK, WritePermits, Size
  <2>4. CASE ~\E i \in 1..g : wWait[i].who = s
    <3>1. phase'[s] = base[s]
      BY <1>4, <2>4
    <3>2. CASE base[s] = phase[s] /\ sent'[s] = sent[s] /\ held'[s] = held[s]
      BY <2>1, <2>2, <3>1, <3>2 DEF SenderOK, WritePermits, Size
    <3>3. CASE /\ phase[s] = "enqueue" /\ base[s] = "idle"
               /\ sent'[s] = sent[s] + 1 /\ held'[s] = 0
      BY <2>1, <3>1, <3>3 DEF SenderOK
    <3>. QED  BY <3>2, <3>3
  <2>. QED  BY <2>3, <2>4
<1>7. QueueOK'
  <2>1. ASSUME NEW i \in 1..L - g
        PROVE  /\ phase'[wWait'[i].who] = "waiting"
               /\ wWait'[i].lacks <= held'[wWait'[i].who]
    <3>1. i + g \in 1..L /\ wWait'[i].who = wWait[i + g].who
          /\ wWait'[i].lacks <= wWait[i + g].lacks /\ wWait'[i].lacks \in Nat
      <4>1. i + g \in 1..L
        OBVIOUS
      <4>2. wWait'[i] \in Waiters
        BY <1>4, SeqElements
      <4>. QED  BY <1>4, <4>1, <4>2 DEF Waiters
    <3>2. PICK s \in Senders : s = wWait[i + g].who
      BY <1>3, <3>1
    <3>3. phase[s] = "waiting" /\ wWait[i + g].lacks <= held[s] /\ wWait[i + g].lacks \in Nat
          /\ held[s] \in Nat
      BY <1>2, <1>3, <3>1, <3>2 DEF SendTypes, QueueOK
    <3>4. ~\E j \in 1..g : wWait[j].who = s
      BY <1>2, <3>1, <3>2 DEF SendTypes, QueueOK
    <3>5. base[s] = "waiting" /\ held'[s] = held[s]
      BY <3>3
    <3>6. phase'[s] = "waiting"
      BY <1>4, <3>4, <3>5
    <3>. QED  BY <3>1, <3>2, <3>3, <3>5, <3>6
  <2>2. ASSUME NEW i \in 1..L - g, NEW j \in 1..L - g, wWait'[i].who = wWait'[j].who
        PROVE  i = j
    <3>1. i + g \in 1..L /\ j + g \in 1..L /\ wWait[i + g].who = wWait[j + g].who
      BY <1>4, <2>2
    <3>2. i + g = j + g
      BY <1>2, <3>1 DEF SendTypes, QueueOK
    <3>. QED  BY <3>2
  <2>. QED  BY <1>4, <2>1, <2>2 DEF QueueOK
<1>. QED  BY <1>4, <1>5, <1>6, <1>7 DEF SendTypes

-----------------------------------------------------------------------------
(* The permits that travel with jobs and frames *)

\* Queueing a job adds its permits to those of the queue, taking it removes them.
LEMMA JobPermitsLaws ==
  /\ JobPermits(<<>>) = 0
  /\ \A q \in Seq(Sent) :
       /\ JobPermits(q) \in Nat
       /\ \A m \in Sent : JobPermits(Append(q, m)) = JobPermits(q) + WritePermits(m)
       /\ q # <<>> => JobPermits(q) = WritePermits(Head(q)) + JobPermits(Tail(q))
<1>. DEFINE F(q) == [i \in 1..Len(q) |-> WritePermits(q[i])]
<1>1. \A q : JobPermits(q) = Total(F(q))
  BY DEF JobPermits
<1>2. \A m \in Sent : WritePermits(m) \in Nat
  BY MessageTypes
<1>3. F(<<>>) = <<>>
  OBVIOUS
<1>4. ASSUME NEW q \in Seq(Sent)
      PROVE  F(q) \in Seq(Nat) /\ F(q) \in Seq(Int) /\ Len(F(q)) = Len(q)
  <2>1. Len(q) \in Nat /\ \A i \in 1..Len(q) : q[i] \in Sent
    BY SeqElements
  <2>2. F(q) \in [1..Len(q) -> Nat] /\ F(q) \in [1..Len(q) -> Int]
    BY <1>2, <2>1
  <2>. HIDE DEF F
  <2>. QED  BY <2>1, <2>2, FunctionIsSeq
<1>5. ASSUME NEW q \in Seq(Sent), NEW m \in Sent
      PROVE  F(Append(q, m)) = Append(F(q), WritePermits(m))
  OBVIOUS
<1>6. ASSUME NEW q \in Seq(Sent), q # <<>>
      PROVE  Head(F(q)) = WritePermits(Head(q)) /\ Tail(F(q)) = F(Tail(q)) /\ F(q) # <<>>
  <2>1. Len(q) \in Nat \ {0} /\ Len(Tail(q)) = Len(q) - 1
        /\ \A i \in 1..Len(q) - 1 : Tail(q)[i] = q[i + 1]
    BY <1>6
  <2>2. F(q) \in Seq(Nat) /\ Len(F(q)) = Len(q)
    BY <1>4
  <2>3. Tail(F(q)) \in [1..Len(q) - 1 -> Nat] /\ F(q) # <<>>
        /\ \A i \in 1..Len(q) - 1 : Tail(F(q))[i] = F(q)[i + 1]
    <3>. HIDE DEF F
    <3>1. F(q) # <<>>
      BY <2>1, <2>2
    <3>. QED  BY <2>2, <3>1, TailElements
  <2>4. \A i \in 1..Len(q) - 1 : F(q)[i + 1] = WritePermits(Tail(q)[i])
    BY <2>1
  <2>5. Tail(F(q)) = F(Tail(q))
    BY <2>1, <2>3, <2>4
  <2>6. Head(F(q)) = F(q)[1] /\ Head(q) = q[1] /\ F(q)[1] = WritePermits(q[1])
    BY <2>1
  <2>. QED  BY <2>3, <2>5, <2>6
<1>. HIDE DEF F
<1>7. ASSUME NEW q \in Seq(Sent)
      PROVE  /\ JobPermits(q) \in Nat
             /\ \A m \in Sent : JobPermits(Append(q, m)) = JobPermits(q) + WritePermits(m)
             /\ q # <<>> => JobPermits(q) = WritePermits(Head(q)) + JobPermits(Tail(q))
  <2>1. JobPermits(q) \in Nat
    BY <1>1, <1>4, TotalType
  <2>2. ASSUME NEW m \in Sent PROVE JobPermits(Append(q, m)) = JobPermits(q) + WritePermits(m)
    <3>1. F(q) \in Seq(Int) /\ WritePermits(m) \in Int
      BY <1>2, <1>4
    <3>2. Total(Append(F(q), WritePermits(m))) = Total(F(q)) + WritePermits(m)
      BY <3>1, TotalAppend
    <3>. QED  BY <1>1, <1>5, <3>2
  <2>3. ASSUME q # <<>> PROVE JobPermits(q) = WritePermits(Head(q)) + JobPermits(Tail(q))
    <3>1. Total(F(q)) = Head(F(q)) + Total(Tail(F(q)))
      BY <1>4, <1>6, <2>3, TotalTail
    <3>. QED  BY <1>1, <1>6, <2>3, <3>1
  <2>. QED  BY <2>1, <2>2, <2>3
<1>. QED  BY <1>1, <1>3, <1>7, TotalEmpty

\* The same for prefetched frames.
LEMMA FramePermitsLaws ==
  /\ FramePermits(<<>>) = 0
  /\ \A q \in Seq(Seq(Units)) :
       /\ FramePermits(q) \in Nat
       /\ \A b \in Seq(Units) : FramePermits(Append(q, b)) = FramePermits(q) + ReadPermits(Len(b))
       /\ q # <<>> => FramePermits(q) = ReadPermits(Len(Head(q))) + FramePermits(Tail(q))
<1>. DEFINE w(b) == ReadPermits(Len(b))
            F(q) == [i \in 1..Len(q) |-> w(q[i])]
<1>1. \A q : FramePermits(q) = Total(F(q))
  BY DEF FramePermits
<1>2. \A b \in Seq(Units) : w(b) \in Nat
  BY ReadPermitsType
<1>. HIDE DEF w
<1>3. F(<<>>) = <<>>
  OBVIOUS
<1>4. ASSUME NEW q \in Seq(Seq(Units))
      PROVE  F(q) \in Seq(Nat) /\ F(q) \in Seq(Int) /\ Len(F(q)) = Len(q)
  <2>1. Len(q) \in Nat /\ \A i \in 1..Len(q) : q[i] \in Seq(Units)
    BY SeqElements
  <2>2. F(q) \in [1..Len(q) -> Nat] /\ F(q) \in [1..Len(q) -> Int]
    BY <1>2, <2>1
  <2>. HIDE DEF F
  <2>. QED  BY <2>1, <2>2, FunctionIsSeq
<1>5. ASSUME NEW q \in Seq(Seq(Units)), NEW b \in Seq(Units)
      PROVE  F(Append(q, b)) = Append(F(q), w(b))
  OBVIOUS
<1>6. ASSUME NEW q \in Seq(Seq(Units)), q # <<>>
      PROVE  Head(F(q)) = w(Head(q)) /\ Tail(F(q)) = F(Tail(q)) /\ F(q) # <<>>
  <2>1. Len(q) \in Nat \ {0} /\ Len(Tail(q)) = Len(q) - 1
        /\ \A i \in 1..Len(q) - 1 : Tail(q)[i] = q[i + 1]
    BY <1>6
  <2>2. F(q) \in Seq(Nat) /\ Len(F(q)) = Len(q)
    BY <1>4
  <2>3. Tail(F(q)) \in [1..Len(q) - 1 -> Nat] /\ F(q) # <<>>
        /\ \A i \in 1..Len(q) - 1 : Tail(F(q))[i] = F(q)[i + 1]
    <3>. HIDE DEF F
    <3>1. F(q) # <<>>
      BY <2>1, <2>2
    <3>. QED  BY <2>2, <3>1, TailElements
  <2>4. \A i \in 1..Len(q) - 1 : F(q)[i + 1] = w(Tail(q)[i])
    BY <2>1
  <2>5. Tail(F(q)) = F(Tail(q))
    BY <2>1, <2>3, <2>4
  <2>6. Head(F(q)) = F(q)[1] /\ Head(q) = q[1] /\ F(q)[1] = w(q[1])
    BY <2>1
  <2>. QED  BY <2>3, <2>5, <2>6
<1>. HIDE DEF F
<1>7. ASSUME NEW q \in Seq(Seq(Units))
      PROVE  /\ FramePermits(q) \in Nat
             /\ \A b \in Seq(Units) : FramePermits(Append(q, b)) = FramePermits(q) + w(b)
             /\ q # <<>> => FramePermits(q) = w(Head(q)) + FramePermits(Tail(q))
  <2>1. FramePermits(q) \in Nat
    BY <1>1, <1>4, TotalType
  <2>2. ASSUME NEW b \in Seq(Units) PROVE FramePermits(Append(q, b)) = FramePermits(q) + w(b)
    <3>1. F(q) \in Seq(Int) /\ w(b) \in Int
      BY <1>2, <1>4
    <3>2. Total(Append(F(q), w(b))) = Total(F(q)) + w(b)
      BY <3>1, TotalAppend
    <3>. QED  BY <1>1, <1>5, <3>2
  <2>3. ASSUME q # <<>> PROVE FramePermits(q) = w(Head(q)) + FramePermits(Tail(q))
    <3>1. Total(F(q)) = Head(F(q)) + Total(Tail(F(q)))
      BY <1>4, <1>6, <2>3, TotalTail
    <3>. QED  BY <1>1, <1>6, <2>3, <3>1
  <2>. QED  BY <2>1, <2>2, <2>3
<1>. QED  BY <1>1, <1>3, <1>7, TotalEmpty DEF w

-----------------------------------------------------------------------------
(* Type correctness *)

\* What the senders and their semaphore look like depends on these variables only.
LEMMA SendSame ==
  ASSUME SendTypes, UNCHANGED <<sendVars, wAvail>>
  PROVE  SendTypes'
<1>1. phase' = phase /\ sent' = sent /\ held' = held /\ wWait' = wWait /\ wAvail' = wAvail
  BY DEF sendVars
<1>2. \A s \in Senders : SenderOK(s)'
  BY <1>1 DEF SendTypes, SenderOK, Current, WritePermits, Size
<1>3. QueueOK'
  BY <1>1 DEF SendTypes, QueueOK
<1>. QED  BY <1>1, <1>2, <1>3 DEF SendTypes

\* A sender that has permits to ask for asks for those of a message it has to send.
LEMMA CurrentTypes ==
  ASSUME SendTypes, NEW s \in Senders, sent[s] < Len(Script[s])
  PROVE  Current(s) \in Sent /\ WritePermits(Current(s)) \in Nat
<1>1. sent[s] \in Nat /\ sent[s] + 1 \in Nat \ {0} /\ sent[s] + 1 <= Len(Script[s])
  BY MessageTypes DEF SendTypes
<1>. QED  BY <1>1, MessageTypes DEF Current

\* One sender s takes the permits of its message, or queues for the rest of them.
LEMMA AcquireSend ==
  ASSUME SendTypes, NEW s \in Senders, CanSend(s),
         held' = [held EXCEPT ![s] = WritePermits(Current(s))], sent' = sent,
         wAvail' \in Nat,
         \/ phase' = [phase EXCEPT ![s] = "enqueue"] /\ wWait' = wWait
         \/ \E n \in Nat \ {0} : /\ n <= WritePermits(Current(s))
                                 /\ phase' = [phase EXCEPT ![s] = "waiting"]
                                 /\ wWait' = Append(wWait, [who |-> s, lacks |-> n])
  PROVE  SendTypes'
<1>1. WritePermits(Current(s)) \in Nat /\ phase[s] = "idle" /\ sent[s] < Len(Script[s])
  BY CurrentTypes DEF CanSend
<1>2. phase' \in [Senders -> Phases] /\ held' \in [Senders -> Nat] /\ sent' \in [Senders -> Nat]
  BY <1>1 DEF SendTypes, Phases
<1>3. phase'[s] # "idle" /\ \A t \in Senders \ {s} : phase'[t] = phase[t] /\ held'[t] = held[t]
  BY DEF SendTypes
<1>4. ASSUME NEW t \in Senders PROVE SenderOK(t)'
  <2>1. SenderOK(t) /\ (t # s => phase'[t] = phase[t] /\ held'[t] = held[t]) /\ sent'[t] = sent[t]
    BY <1>3 DEF SendTypes
  <2>2. held'[s] = WritePermits(Current(s))
    BY DEF SendTypes
  <2>3. WritePermits(Current(t))' = WritePermits(Current(t))
    BY DEF Current, WritePermits, Size
  <2>. QED  BY <1>1, <1>3, <2>1, <2>2, <2>3 DEF SenderOK
<1>5. \A i \in 1..Len(wWait) :
        /\ wWait[i].who \in Senders \ {s} /\ wWait[i].lacks <= held[wWait[i].who]
        /\ phase[wWait[i].who] = "waiting"
  <2>1. ASSUME NEW i \in 1..Len(wWait) PROVE wWait[i].who \in Senders
    <3>1. wWait[i] \in Waiters
      BY SeqElements DEF SendTypes
    <3>. QED  BY <3>1 DEF Waiters
  <2>. QED  BY <1>1, <2>1 DEF SendTypes, QueueOK
<1>6. CASE phase' = [phase EXCEPT ![s] = "enqueue"] /\ wWait' = wWait
  <2>1. QueueOK'
    BY <1>3, <1>5, <1>6 DEF SendTypes, QueueOK
  <2>. QED  BY <1>2, <1>4, <1>6, <2>1 DEF SendTypes
<1>7. ASSUME NEW n \in Nat \ {0}, n <= WritePermits(Current(s)),
             phase' = [phase EXCEPT ![s] = "waiting"],
             wWait' = Append(wWait, [who |-> s, lacks |-> n])
      PROVE  SendTypes'
  <2>1. [who |-> s, lacks |-> n] \in Waiters
    BY DEF Waiters
  <2>2. PICK L \in Nat : L = Len(wWait)
    BY SeqElements DEF SendTypes
  <2>3. /\ wWait' \in Seq(Waiters) /\ Len(wWait') = L + 1
        /\ wWait'[L + 1] = [who |-> s, lacks |-> n] /\ \A i \in 1..L : wWait'[i] = wWait[i]
    BY <1>7, <2>1, <2>2, AppendElements DEF SendTypes
  <2>4. ASSUME NEW i \in 1..L + 1
        PROVE  phase'[wWait'[i].who] = "waiting" /\ wWait'[i].lacks <= held'[wWait'[i].who]
    <3>1. CASE i = L + 1
      BY <1>1, <1>7, <2>3, <3>1 DEF SendTypes
    <3>2. CASE i # L + 1
      <4>1. i \in 1..L /\ wWait'[i] = wWait[i]
        BY <2>3, <3>2
      <4>. QED  BY <1>3, <1>5, <2>2, <4>1
    <3>. QED  BY <3>1, <3>2
  <2>5. ASSUME NEW i \in 1..L + 1, NEW j \in 1..L + 1, wWait'[i].who = wWait'[j].who
        PROVE  i = j
    <3>1. \A k \in 1..L + 1 : k = L + 1 \/ k \in 1..L
      OBVIOUS
    <3>2. \A k \in 1..L : wWait'[k].who # s
      BY <1>5, <2>2, <2>3
    <3>3. wWait'[L + 1].who = s
      BY <2>3
    <3>. QED  BY <2>2, <2>3, <2>5, <3>1, <3>2, <3>3 DEF SendTypes, QueueOK
  <2>6. QueueOK'
    BY <2>3, <2>4, <2>5 DEF QueueOK
  <2>. QED  BY <1>2, <1>4, <2>3, <2>6 DEF SendTypes
<1>. QED  BY <1>6, <1>7

\* What the senders and their semaphore look like after any step.
LEMMA SendStep ==
  ASSUME Typed, [Next]_vars
  PROVE  SendTypes'
<1>0. SendTypes /\ WriteTypes /\ wAvail \in Nat
  BY DEF Typed, SendTypes
<1>1. ASSUME NEW s \in Senders, AcquireBlocking(s) PROVE SendTypes'
  <2>1. CanSend(s) /\ WritePermits(Current(s)) \in Nat
    BY <1>0, <1>1, CurrentTypes DEF AcquireBlocking, CanSend
  <2>2. wAvail' \in Nat
    BY <1>0, <1>1, <2>1 DEF AcquireBlocking
  <2>. QED  BY <1>0, <1>1, <2>1, <2>2, AcquireSend DEF AcquireBlocking
<1>2. ASSUME NEW s \in Senders, AcquireAsync(s) PROVE SendTypes'
  <2>1. CanSend(s) /\ WritePermits(Current(s)) \in Nat
    BY <1>0, <1>2, CurrentTypes DEF AcquireAsync, CanSend
  <2>2. PICK n \in Nat : n = WritePermits(Current(s))
    BY <2>1
  <2>3. PICK now \in Nat : now = Lesser(n, wAvail)
    <3>1. Lesser(n, wAvail) \in Nat
      BY <1>0 DEF Lesser
    <3>. QED  BY <3>1
  <2>4. now <= n /\ now <= wAvail
    BY <1>0, <2>3 DEF Lesser
  <2>5. /\ wAvail' = wAvail - now
        /\ held' = [held EXCEPT ![s] = n] /\ sent' = sent
        /\ \/ phase' = [phase EXCEPT ![s] = "enqueue"] /\ wWait' = wWait
           \/ /\ now # n
              /\ phase' = [phase EXCEPT ![s] = "waiting"]
              /\ wWait' = Append(wWait, [who |-> s, lacks |-> n - now])
    BY <1>2, <2>2, <2>3 DEF AcquireAsync
  <2>6. wAvail' \in Nat /\ (now # n => n - now \in Nat \ {0} /\ n - now <= n)
    BY <1>0, <2>4, <2>5
  <2>. QED  BY <1>0, <2>1, <2>2, <2>5, <2>6, AcquireSend
<1>3. ASSUME NEW s \in Senders, Enqueue(s) PROVE SendTypes'
  <2>1. /\ phase' = [phase EXCEPT ![s] = "idle"] /\ held' = [held EXCEPT ![s] = 0]
        /\ sent' = [sent EXCEPT ![s] = sent[s] + 1] /\ wWait' = wWait /\ wAvail' = wAvail
        /\ phase[s] = "enqueue"
    BY <1>3 DEF Enqueue
  <2>2. /\ phase' \in [Senders -> Phases] /\ sent' \in [Senders -> Nat] /\ held' \in [Senders -> Nat]
    BY <1>0, <2>1 DEF SendTypes, Phases
  <2>3. ASSUME NEW t \in Senders PROVE SenderOK(t)'
    <3>1. SenderOK(t) /\ sent[t] \in Nat /\ Len(Script[t]) \in Nat
      BY <1>0, MessageTypes DEF SendTypes
    <3>2. CASE t = s
      <4>1. phase'[t] = "idle" /\ held'[t] = 0 /\ sent'[t] = sent[t] + 1
        BY <1>0, <2>1, <3>2 DEF SendTypes
      <4>. QED  BY <2>1, <3>1, <3>2, <4>1 DEF SenderOK
    <3>3. CASE t # s
      <4>1. phase'[t] = phase[t] /\ held'[t] = held[t] /\ sent'[t] = sent[t]
        BY <1>0, <2>1, <3>3 DEF SendTypes
      <4>2. WritePermits(Current(t))' = WritePermits(Current(t))
        BY <4>1 DEF Current, WritePermits, Size
      <4>. QED  BY <3>1, <4>1, <4>2 DEF SenderOK
    <3>. QED  BY <3>2, <3>3
  <2>4. QueueOK'
    <3>1. \A i \in 1..Len(wWait) : wWait[i].who # s
      BY <1>0, <2>1 DEF SendTypes, QueueOK
    <3>2. \A i \in 1..Len(wWait) : wWait[i].who \in Senders
      <4>1. \A i \in 1..Len(wWait) : wWait[i] \in Waiters
        BY <1>0, SeqElements DEF SendTypes
      <4>. QED  BY <4>1 DEF Waiters
    <3>. QED  BY <1>0, <2>1, <3>1, <3>2 DEF SendTypes, QueueOK
  <2>. QED  BY <1>0, <2>1, <2>2, <2>3, <2>4 DEF SendTypes
<1>4. ASSUME NEW s \in Senders, EnqueueGone(s) PROVE SendTypes'
  <2>1. PICK base : base = [phase EXCEPT ![s] = "idle"]
    OBVIOUS
  <2>2. /\ Release(held[s], base) /\ sent' = [sent EXCEPT ![s] = sent[s] + 1]
        /\ held' = [held EXCEPT ![s] = 0] /\ phase[s] = "enqueue"
    BY <1>4, <2>1 DEF EnqueueGone
  <2>3. base \in [Senders -> Phases] /\ held[s] \in Nat
        /\ sent' \in [Senders -> Nat] /\ held' \in [Senders -> Nat]
    BY <1>0, <2>1, <2>2 DEF SendTypes, Phases
  <2>4. \A t \in Senders :
          \/ base[t] = phase[t] /\ sent'[t] = sent[t] /\ held'[t] = held[t]
          \/ /\ phase[t] = "enqueue" /\ base[t] = "idle"
             /\ sent'[t] = sent[t] + 1 /\ held'[t] = 0
    BY <1>0, <2>1, <2>2 DEF SendTypes
  <2>. QED  BY <1>0, <2>2, <2>3, <2>4, ReleaseSend
<1>5. ASSUME NEW n \in Nat, Release(n, phase), sent' = sent, held' = held PROVE SendTypes'
  <2>1. phase \in [Senders -> Phases] /\ sent' \in [Senders -> Nat] /\ held' \in [Senders -> Nat]
    BY <1>0, <1>5 DEF SendTypes
  <2>2. \A t \in Senders : phase[t] = phase[t] /\ sent'[t] = sent[t] /\ held'[t] = held[t]
    BY <1>5
  <2>. QED  BY <1>0, <1>5, <2>1, <2>2, ReleaseSend
<1>6. CASE WriteDone \/ WriteFails
  <2>1. WritePermits(writer.msg) \in Nat
    BY <1>0, <1>6, MessageTypes DEF WriteTypes, WriteDone, WriteFails
  <2>. QED  BY <1>5, <1>6, <2>1 DEF WriteDone, WriteFails
<1>7. CASE WriterBreaks
  <2>1. JobPermits(wq) \in Nat
    BY <1>0, JobPermitsLaws DEF WriteTypes
  <2>. QED  BY <1>5, <1>7, <2>1 DEF WriterBreaks
<1>8. CASE UNCHANGED <<sendVars, wAvail>>
  BY <1>0, <1>8, SendSame
<1>9. ASSUME NEW r \in Receivers, ReceiverStep(r) PROVE UNCHANGED <<sendVars, wAvail>>
  BY <1>9 DEF ReceiverStep, Recv, RecvGone
<1>10. ASSUME ReaderStep \/ ServerStep \/ CloseSend \/ CloseRecv \/ Stopped \/ ConnectionLost
       PROVE  UNCHANGED <<sendVars, wAvail>>
  BY <1>10 DEF ReaderStep, ServerStep, CloseSend, CloseRecv, Stopped, ConnectionLost, vars,
     ReadPrefix, ReadPermit, ReadBody, ReadPush, ReaderBreaks,
     ServerTake, ServeFrame, ServeEof, ServerBreaks, ServerEnds
<1>11. ASSUME WriterTake \/ WriteUnit \/ WriterEnds PROVE UNCHANGED <<sendVars, wAvail>>
  BY <1>11 DEF WriterTake, WriteUnit, WriterEnds
<1>12. ASSUME UNCHANGED vars PROVE UNCHANGED <<sendVars, wAvail>>
  BY <1>12 DEF vars
<1>. QED
  BY <1>1, <1>2, <1>3, <1>4, <1>6, <1>7, <1>8, <1>9, <1>10, <1>11, <1>12
     DEF Next, SenderStep, WriterStep

\* The units on the wire without the first one, or without the last ones.
LEMMA WireTypes ==
  ASSUME WriteTypes, NEW w,
         \/ wire # <<>> /\ w = Tail(wire)
         \/ \E n \in 0..Len(wire) : w = SubSeq(wire, 1, n)
  PROVE  /\ w \in Seq(Units) /\ Len(w) <= Window /\ Len(w) <= Len(wire)
         /\ \A i \in 1..Len(w) : w[i][2] <= Size(w[i][1])
<1>1. wire \in Seq(Units) /\ Window \in Nat /\ Len(wire) <= Window
      /\ \A i \in 1..Len(wire) : wire[i][2] <= Size(wire[i][1])
  BY LimitsAssumption DEF WriteTypes
<1>2. CASE wire # <<>> /\ w = Tail(wire)
  <2>1. w \in Seq(Units) /\ Len(w) = Len(wire) - 1 /\ Len(wire) \in Nat \ {0}
        /\ \A i \in 1..Len(wire) - 1 : w[i] = wire[i + 1]
    BY <1>1, <1>2, TailElements
  <2>2. \A i \in 1..Len(w) : i + 1 \in 1..Len(wire) /\ w[i] = wire[i + 1]
    BY <2>1
  <2>. QED  BY <1>1, <2>1, <2>2
<1>3. ASSUME NEW n \in 0..Len(wire), w = SubSeq(wire, 1, n)
      PROVE  /\ w \in Seq(Units) /\ Len(w) <= Window /\ Len(w) <= Len(wire)
             /\ \A i \in 1..Len(w) : w[i][2] <= Size(w[i][1])
  <2>1. Len(wire) \in Nat /\ n \in Nat /\ n <= Len(wire)
    BY <1>1, SeqElements
  <2>2. w \in Seq(Units) /\ Len(w) = n /\ \A i \in 1..n : w[i] = wire[i]
    BY <1>1, <1>3, <2>1
  <2>3. \A i \in 1..n : i \in 1..Len(wire)
    BY <2>1
  <2>. QED  BY <1>1, <2>1, <2>2, <2>3
<1>. QED  BY <1>2, <1>3

\* The queue, the writer task and the stream after any step.
LEMMA WriteStep ==
  ASSUME Typed, [Next]_vars
  PROVE  WriteTypes'
<1>0. SendTypes /\ WriteTypes /\ {WriteCap, Window} \subseteq Nat
  BY LimitsAssumption DEF Typed
<1>. DEFINE WriterTypes == [at : {"idle", "write", "failed", "dead"}, msg : Sent \cup {<<>>}, off : Nat]
            Same == UNCHANGED <<wq, writer, ack, sendOpen, up, wire, accepted>>
<1>1. ASSUME NEW s \in Senders, Enqueue(s) PROVE WriteTypes'
  <2>1. SenderOK(s) /\ phase[s] = "enqueue"
    BY <1>0, <1>1 DEF SendTypes, Enqueue
  <2>2. Current(s) \in Sent
    BY <1>0, <2>1, CurrentTypes DEF SenderOK
  <2>3. wq \in Seq(Sent) /\ accepted \in Seq(Sent)
    BY <1>0 DEF WriteTypes
  <2>4. wq' \in Seq(Sent) /\ Len(wq') = Len(wq) + 1 /\ accepted' \in Seq(Sent)
    BY <1>1, <2>2, <2>3, AppendElements DEF Enqueue
  <2>5. Len(wq') <= WriteCap
    BY <1>0, <1>1, <2>3, <2>4 DEF Enqueue
  <2>6. UNCHANGED <<writer, ack, sendOpen, up, wire>>
    BY <1>1 DEF Enqueue
  <2>. QED  BY <1>0, <2>4, <2>5, <2>6 DEF WriteTypes
<1>2. ASSUME NEW s \in Senders, EnqueueGone(s) PROVE WriteTypes'
  <2>1. ack' \in [Sent -> {"none", "ok", "err"}]
    BY <1>0, <1>2 DEF WriteTypes, EnqueueGone
  <2>2. UNCHANGED <<wq, writer, sendOpen, up, wire, accepted>>
    BY <1>2 DEF EnqueueGone
  <2>. QED  BY <1>0, <2>1, <2>2 DEF WriteTypes
<1>3. CASE CloseSend
  <2>1. sendOpen' \in BOOLEAN /\ UNCHANGED <<wq, writer, ack, up, wire, accepted>>
    BY <1>3 DEF CloseSend
  <2>. QED  BY <1>0, <2>1 DEF WriteTypes
<1>4. CASE WriterTake
  <2>1. /\ wq # <<>> /\ wq \in Seq(Sent) /\ wq' = Tail(wq) /\ Len(wq) <= WriteCap
        /\ writer' = [at |-> "write", msg |-> Head(wq), off |-> 0]
        /\ UNCHANGED <<ack, sendOpen, up, wire, accepted>>
    BY <1>0, <1>4 DEF WriterTake, WriteTypes
  <2>2. wq' \in Seq(Sent) /\ Len(wq') = Len(wq) - 1 /\ Head(wq) \in Sent /\ Len(wq) \in Nat
    BY <2>1, TailElements
  <2>3. writer' \in WriterTypes /\ Size(Head(wq)) \in Nat
        /\ writer'.msg = Head(wq) /\ writer'.off = 0
    BY <2>1, <2>2, MessageTypes
  <2>. QED  BY <1>0, <2>1, <2>2, <2>3 DEF WriteTypes
<1>5. CASE WriteUnit
  <2>1. /\ writer \in WriterTypes /\ writer.at = "write" /\ writer.msg \in Sent /\ writer.off \in Nat
        /\ writer.off <= Size(writer.msg) /\ Size(writer.msg) \in Nat
        /\ Len(wire) < Window /\ wire \in Seq(Units)
        /\ \A i \in 1..Len(wire) : wire[i][2] <= Size(wire[i][1])
    BY <1>0, <1>5, MessageTypes DEF WriteTypes, WriteUnit
  <2>2. PICK u : u = <<writer.msg, writer.off>>
    OBVIOUS
  <2>3. u \in Units /\ u[2] <= Size(u[1])
    BY <2>1, <2>2 DEF Units
  <2>4. /\ wire' = Append(wire, u) /\ writer' = [writer EXCEPT !.off = writer.off + 1]
        /\ UNCHANGED <<wq, ack, sendOpen, up, accepted>>
    BY <1>5, <2>2 DEF WriteUnit
  <2>5. /\ wire' \in Seq(Units) /\ Len(wire') = Len(wire) + 1
        /\ wire'[Len(wire) + 1] = u /\ \A i \in 1..Len(wire) : wire'[i] = wire[i]
    BY <2>1, <2>3, <2>4, AppendElements
  <2>6. Len(wire) \in Nat
    BY <2>1
  <2>7. \A i \in 1..Len(wire') : wire'[i][2] <= Size(wire'[i][1])
    BY <2>1, <2>3, <2>5, <2>6
  <2>8. Len(wire') <= Window
    BY <1>0, <2>1, <2>5, <2>6
  <2>9. /\ writer' \in WriterTypes /\ writer'.msg = writer.msg /\ writer'.off = writer.off + 1
    BY <2>1, <2>4
  <2>10. writer'.off <= Size(writer'.msg) + 1
    BY <2>1, <2>9
  <2>. QED  BY <1>0, <2>1, <2>4, <2>5, <2>7, <2>8, <2>9, <2>10 DEF WriteTypes
<1>6. CASE WriteDone \/ WriteFails
  <2>1. \E a \in {"idle", "failed"} : writer' = [at |-> a, msg |-> <<>>, off |-> 0]
    BY <1>6 DEF WriteDone, WriteFails, Idle
  <2>2. writer' \in WriterTypes /\ writer'.at # "write"
    BY <2>1
  <2>3. \E a \in {"ok", "err"} : ack' = [ack EXCEPT ![writer.msg] = a]
    BY <1>6 DEF WriteDone, WriteFails
  <2>4. ack' \in [Sent -> {"none", "ok", "err"}]
    BY <1>0, <2>3 DEF WriteTypes
  <2>5. UNCHANGED <<wq, sendOpen, up, wire, accepted>>
    BY <1>6 DEF WriteDone, WriteFails
  <2>. QED  BY <1>0, <2>2, <2>4, <2>5 DEF WriteTypes
<1>7. CASE WriterBreaks \/ WriterEnds
  <2>1. writer' = [at |-> "dead", msg |-> <<>>, off |-> 0]
    BY <1>7 DEF WriterBreaks, WriterEnds, Idle
  <2>2. writer' \in WriterTypes /\ writer'.at # "write"
    BY <2>1
  <2>3. ack' \in [Sent -> {"none", "ok", "err"}]
    <3>1. ack \in [Sent -> {"none", "ok", "err"}]
      BY <1>0 DEF WriteTypes
    <3>2. CASE WriterBreaks
      <4>1. ack' = [m \in Sent |-> IF Contains(wq, m) THEN "err" ELSE ack[m]]
        BY <3>2 DEF WriterBreaks
      <4>. QED  BY <3>1, <4>1
    <3>3. CASE WriterEnds
      BY <3>1, <3>3 DEF WriterEnds
    <3>. QED  BY <1>7, <3>2, <3>3
  <2>4. wq' = <<>> /\ UNCHANGED <<sendOpen, up, wire, accepted>>
    BY <1>7 DEF WriterBreaks, WriterEnds
  <2>5. wq' \in Seq(Sent) /\ Len(wq') <= WriteCap
    BY <1>0, <2>4
  <2>. QED  BY <1>0, <2>2, <2>3, <2>4, <2>5 DEF WriteTypes
<1>8. CASE ReadPrefix \/ ReadBody \/ ConnectionLost
  <2>1. /\ \/ wire # <<>> /\ wire' = Tail(wire)
           \/ \E n \in 0..Len(wire) : wire' = SubSeq(wire, 1, n)
        /\ up' \in BOOLEAN /\ UNCHANGED <<wq, writer, ack, sendOpen, accepted>>
    BY <1>0, <1>8 DEF ReadPrefix, ReadBody, ConnectionLost, WriteTypes
  <2>2. /\ wire' \in Seq(Units) /\ Len(wire') <= Window
        /\ \A i \in 1..Len(wire') : wire'[i][2] <= Size(wire'[i][1])
    BY <1>0, <2>1, WireTypes
  <2>. QED  BY <1>0, <2>1, <2>2 DEF WriteTypes
<1>9. CASE Same
  BY <1>0, <1>9 DEF WriteTypes
<1>10. ASSUME NEW s \in Senders, AcquireBlocking(s) \/ AcquireAsync(s) PROVE Same
  BY <1>10 DEF AcquireBlocking, AcquireAsync
<1>11. ASSUME NEW r \in Receivers, ReceiverStep(r) PROVE Same
  BY <1>11 DEF ReceiverStep, Recv, RecvGone
<1>12. ASSUME \/ ReadPermit \/ ReadPush \/ ReaderBreaks \/ ServerStep \/ CloseRecv \/ Stopped
              \/ UNCHANGED vars
       PROVE  Same
  BY <1>12 DEF ServerStep, CloseRecv, Stopped, vars, ReadPermit, ReadPush, ReaderBreaks,
     ServerTake, ServeFrame, ServeEof, ServerBreaks, ServerEnds
<1>. HIDE DEF Same, WriterTypes
<1>. QED
  BY <1>1, <1>2, <1>3, <1>4, <1>5, <1>6, <1>7, <1>8, <1>9, <1>10, <1>11, <1>12
     DEF Next, SenderStep, WriterStep, ReaderStep

\* The reader task and the prefetched frames after any step.
LEMMA ReadStep ==
  ASSUME Typed, [Next]_vars, rAvail' \in Nat
  PROVE  ReadTypes'
<1>0. WriteTypes /\ ReadTypes /\ ReadCap \in Nat
  BY LimitsAssumption DEF Typed
<1>. DEFINE ReaderTypes == [at : {"prefix", "permit", "body", "dead"}, len : Nat, buf : Seq(Units)]
            Same == reader' = reader /\ fq' = fq
<1>1. CASE ReadPrefix
  <2>1. wire \in Seq(Units) /\ wire # <<>>
    BY <1>0, <1>1 DEF ReadPrefix, WriteTypes
  <2>2. Head(wire) \in Units
    BY <2>1, TailElements
  <2>3. Size(Head(wire)[1]) \in Nat
    BY <2>2, MessageTypes DEF Units
  <2>4. /\ reader' \in ReaderTypes /\ Len(reader'.buf) <= reader'.len /\ reader'.buf = <<>>
        /\ fq' = fq
    BY <1>1, <2>3 DEF ReadPrefix
  <2>. QED  BY <1>0, <2>4 DEF ReadTypes
<1>2. CASE ReadPermit
  <2>1. /\ reader' \in ReaderTypes /\ Len(reader'.buf) <= reader'.len
        /\ reader'.at = "body" /\ fq' = fq
    BY <1>0, <1>2 DEF ReadPermit, ReadTypes
  <2>. QED  BY <1>0, <2>1 DEF ReadTypes
<1>3. CASE ReadBody
  <2>1. wire \in Seq(Units) /\ wire # <<>> /\ reader \in ReaderTypes
        /\ Len(reader.buf) < reader.len /\ reader.at = "body"
    BY <1>0, <1>3 DEF ReadBody, WriteTypes, ReadTypes
  <2>2. Head(wire) \in Units /\ reader.buf \in Seq(Units)
    BY <2>1, TailElements
  <2>3. PICK b : b = Append(reader.buf, Head(wire))
    OBVIOUS
  <2>4. b \in Seq(Units) /\ Len(b) = Len(reader.buf) + 1
    BY <2>2, <2>3, AppendElements
  <2>5. Len(b) <= reader.len
    BY <2>1, <2>2, <2>4
  <2>6. reader' = [reader EXCEPT !.buf = b] /\ fq' = fq
    BY <1>3, <2>3 DEF ReadBody
  <2>7. reader' \in ReaderTypes /\ reader'.buf = b /\ reader'.len = reader.len /\ reader'.at = "body"
    BY <2>1, <2>4, <2>6
  <2>. QED  BY <1>0, <2>5, <2>6, <2>7 DEF ReadTypes
<1>4. CASE ReadPush
  <2>1. reader.buf \in Seq(Units) /\ fq \in Seq(Seq(Units)) /\ Len(fq) \in Nat
    BY <1>0 DEF ReadTypes
  <2>2. fq' \in Seq(Seq(Units)) /\ Len(fq') = Len(fq) + 1
    BY <1>4, <2>1, AppendElements DEF ReadPush
  <2>3. Len(fq') <= ReadCap
    BY <1>0, <1>4, <2>1, <2>2 DEF ReadPush
  <2>4. reader' \in ReaderTypes /\ Len(reader'.buf) <= reader'.len /\ reader'.at = "prefix"
    BY <1>4 DEF ReadPush, AtPrefix
  <2>. QED  BY <1>0, <2>2, <2>3, <2>4 DEF ReadTypes
<1>5. CASE ReaderBreaks
  <2>1. reader' = [at |-> "dead", len |-> 0, buf |-> <<>>] /\ fq' = fq
    BY <1>5 DEF ReaderBreaks, AtPrefix
  <2>2. reader' \in ReaderTypes /\ Len(reader'.buf) <= reader'.len /\ reader'.at = "dead"
    BY <2>1
  <2>. QED  BY <1>0, <2>1, <2>2 DEF ReadTypes
<1>6. CASE ServeFrame
  <2>1. fq \in Seq(Seq(Units)) /\ fq # <<>> /\ fq' = Tail(fq) /\ reader' = reader
        /\ Len(fq) <= ReadCap
    BY <1>0, <1>6 DEF ServeFrame, ReadTypes
  <2>2. fq' \in Seq(Seq(Units)) /\ Len(fq') = Len(fq) - 1 /\ Len(fq) \in Nat
    BY <2>1, TailElements
  <2>3. Len(fq') <= ReadCap
    BY <1>0, <2>1, <2>2
  <2>. QED  BY <1>0, <2>1, <2>2, <2>3 DEF ReadTypes
<1>7. CASE ServerEnds
  <2>1. fq' = <<>> /\ fq' \in Seq(Seq(Units)) /\ Len(fq') <= ReadCap /\ reader' = reader
    BY <1>0, <1>7 DEF ServerEnds
  <2>. QED  BY <1>0, <2>1 DEF ReadTypes
<1>8. CASE Same
  BY <1>0, <1>8 DEF ReadTypes
<1>9. ASSUME NEW s \in Senders, SenderStep(s) PROVE Same
  BY <1>9 DEF SenderStep, AcquireBlocking, AcquireAsync, Enqueue, EnqueueGone, readVars
<1>10. ASSUME NEW r \in Receivers, ReceiverStep(r) PROVE Same
  BY <1>10 DEF ReceiverStep, Recv, RecvGone, readVars
<1>11. ASSUME \/ WriterStep \/ ServerTake \/ ServeEof \/ ServerBreaks \/ CloseSend \/ CloseRecv
              \/ Stopped \/ ConnectionLost \/ UNCHANGED vars
       PROVE  Same
  BY <1>11 DEF WriterStep, CloseSend, CloseRecv, Stopped, ConnectionLost, vars, readVars,
     WriterTake, WriteUnit, WriteDone, WriteFails, WriterBreaks, WriterEnds,
     ServerTake, ServeEof, ServerBreaks
<1>. HIDE DEF Same, ReaderTypes
<1>. QED
  BY <1>1, <1>2, <1>3, <1>4, <1>5, <1>6, <1>7, <1>8, <1>9, <1>10, <1>11
     DEF Next, ReaderStep, ServerStep

\* The budget of the reader never goes below zero, and its permits are conserved.
LEMMA ReadBudgetStep ==
  ASSUME Typed, [Next]_vars
  PROVE  rAvail' \in Nat /\ (ReadPermitsConserved => ReadPermitsConserved')
<1>. DEFINE Body == IF reader.at = "body" THEN ReadPermits(reader.len) ELSE 0
            Same == reader' = reader /\ fq' = fq /\ rAvail' = rAvail
<1>0. /\ WriteTypes /\ rAvail \in Nat /\ fq \in Seq(Seq(Units)) /\ FramePermits(fq) \in Nat
      /\ reader \in [at : {"prefix", "permit", "body", "dead"}, len : Nat, buf : Seq(Units)]
      /\ ReadPermits(reader.len) \in Nat /\ Len(reader.buf) <= reader.len /\ Body \in Nat
      /\ ReadBudget \in Nat
  BY FramePermitsLaws, ReadPermitsType, LimitsAssumption DEF Typed, ReadTypes
<1>1. ReadPermitsConserved <=> rAvail + Body + FramePermits(fq) = ReadBudget
  BY DEF ReadPermitsConserved
<1>2. ReadPermitsConserved' <=> rAvail' + Body' + FramePermits(fq') = ReadBudget
  BY DEF ReadPermitsConserved, FramePermits, ReadPermits
<1>3. CASE ReadPrefix
  <2>1. Body = 0 /\ Body' = 0 /\ rAvail' = rAvail /\ fq' = fq
    BY <1>3 DEF ReadPrefix
  <2>. QED  BY <1>0, <1>1, <1>2, <2>1
<1>4. CASE ReadPermit
  <2>1. /\ reader.at = "permit" /\ ReadPermits(reader.len) <= rAvail
        /\ rAvail' = rAvail - ReadPermits(reader.len)
        /\ reader' = [reader EXCEPT !.at = "body"] /\ fq' = fq
    BY <1>4 DEF ReadPermit
  <2>2. reader'.at = "body" /\ reader'.len = reader.len
    BY <1>0, <2>1
  <2>3. Body = 0 /\ Body' = ReadPermits(reader.len)
    BY <2>1, <2>2 DEF ReadPermits
  <2>. QED  BY <1>0, <1>1, <1>2, <2>1, <2>3
<1>5. CASE ReadBody
  <2>1. /\ reader.at = "body" /\ reader' = [reader EXCEPT !.buf = Append(reader.buf, Head(wire))]
        /\ fq' = fq /\ rAvail' = rAvail
    BY <1>5 DEF ReadBody
  <2>2. reader'.at = "body" /\ reader'.len = reader.len
    BY <1>0, <2>1
  <2>3. Body' = Body
    BY <2>1, <2>2 DEF ReadPermits
  <2>. QED  BY <1>0, <1>1, <1>2, <2>1, <2>3
<1>6. CASE ReadPush
  <2>1. /\ reader.at = "body" /\ Len(reader.buf) = reader.len /\ fq' = Append(fq, reader.buf)
        /\ reader' = AtPrefix /\ rAvail' = rAvail
    BY <1>6 DEF ReadPush
  <2>2. FramePermits(fq') = FramePermits(fq) + ReadPermits(reader.len)
    BY <1>0, <2>1, FramePermitsLaws
  <2>3. Body = ReadPermits(reader.len) /\ Body' = 0
    BY <2>1 DEF AtPrefix
  <2>. QED  BY <1>0, <1>1, <1>2, <2>1, <2>2, <2>3
<1>7. CASE ReaderBreaks
  <2>1. rAvail' = rAvail + Body /\ reader' = [at |-> "dead", len |-> 0, buf |-> <<>>] /\ fq' = fq
    BY <1>7 DEF ReaderBreaks, AtPrefix
  <2>2. Body' = 0
    BY <2>1
  <2>. QED  BY <1>0, <1>1, <1>2, <2>1, <2>2
<1>8. CASE ServeFrame
  <2>1. /\ fq # <<>> /\ fq' = Tail(fq) /\ reader' = reader
        /\ rAvail' = rAvail + ReadPermits(Len(Head(fq)))
    BY <1>8 DEF ServeFrame
  <2>2. FramePermits(fq) = ReadPermits(Len(Head(fq))) + FramePermits(fq')
    BY <1>0, <2>1, FramePermitsLaws
  <2>3. Head(fq) \in Seq(Units) /\ fq' \in Seq(Seq(Units))
    BY <1>0, <2>1, TailElements
  <2>4. ReadPermits(Len(Head(fq))) \in Nat /\ FramePermits(fq') \in Nat
    <3>1. Len(Head(fq)) \in Nat
      BY <2>3, SeqElements
    <3>. QED  BY <2>3, <3>1, FramePermitsLaws, ReadPermitsType
  <2>5. Body' = Body
    BY <2>1 DEF ReadPermits
  <2>6. PICK c \in Nat : c = ReadPermits(Len(Head(fq)))
    BY <2>4
  <2>7. PICK d \in Nat : d = FramePermits(fq')
    BY <2>4
  <2>8. rAvail' = rAvail + c /\ FramePermits(fq) = c + d
    BY <2>1, <2>2, <2>6, <2>7
  <2>. HIDE DEF Body, Same
  <2>. QED  BY <1>0, <1>1, <1>2, <2>5, <2>7, <2>8
<1>9. CASE ServerEnds
  <2>1. fq' = <<>> /\ reader' = reader /\ rAvail' = rAvail + FramePermits(fq)
    BY <1>9 DEF ServerEnds
  <2>2. FramePermits(fq') = 0 /\ Body' = Body
    BY <2>1, FramePermitsLaws DEF ReadPermits
  <2>. QED  BY <1>0, <1>1, <1>2, <2>1, <2>2
<1>10. CASE Same
  <2>1. Body' = Body
    BY <1>10 DEF ReadPermits
  <2>. QED  BY <1>0, <1>1, <1>2, <1>10, <2>1
<1>11. ASSUME NEW s \in Senders, SenderStep(s) PROVE Same
  BY <1>11 DEF SenderStep, AcquireBlocking, AcquireAsync, Enqueue, EnqueueGone, readVars
<1>12. ASSUME NEW r \in Receivers, ReceiverStep(r) PROVE Same
  BY <1>12 DEF ReceiverStep, Recv, RecvGone, readVars
<1>13. ASSUME \/ WriterStep \/ ServerTake \/ ServeEof \/ ServerBreaks \/ CloseSend \/ CloseRecv
              \/ Stopped \/ ConnectionLost \/ UNCHANGED vars
       PROVE  Same
  BY <1>13 DEF WriterStep, CloseSend, CloseRecv, Stopped, ConnectionLost, vars, readVars,
     WriterTake, WriteUnit, WriteDone, WriteFails, WriterBreaks, WriterEnds,
     ServerTake, ServeEof, ServerBreaks
<1>. HIDE DEF Same, Body
<1>. QED
  BY <1>3, <1>4, <1>5, <1>6, <1>7, <1>8, <1>9, <1>10, <1>11, <1>12, <1>13
     DEF Next, ReaderStep, ServerStep

\* A receiver whose call returned has one more call behind it and waits no longer.
LEMMA ReturnedTypes ==
  ASSUME RecvTypes, NEW R \in SUBSET Receivers, Returned(R),
         \A r \in R : done[r] < wants[r]
  PROVE  /\ done' \in [Receivers -> Nat] /\ waiting' \in SUBSET Receivers
         /\ \A r \in Receivers : done'[r] <= wants[r] /\ (r \in waiting' => done'[r] < wants[r])
         /\ \A r \in Receivers : r \in waiting' <=> r \in waiting /\ r \notin R
<1>1. wants \in [Receivers -> Nat]
  BY ThreadsAssumption DEF RecvTypes
<1>2. \A r \in Receivers : done[r] \in Nat /\ wants[r] \in Nat
  BY <1>1 DEF RecvTypes
<1>3. done' \in [Receivers -> Nat]
  BY <1>2 DEF Returned
<1>4. ASSUME NEW r \in Receivers
      PROVE  done'[r] <= wants[r] /\ (r \in waiting' => done'[r] < wants[r])
  BY <1>2 DEF RecvTypes, Returned
<1>5. \A r \in Receivers : r \in waiting' <=> r \in waiting /\ r \notin R
  BY DEF Returned
<1>. QED  BY <1>3, <1>4, <1>5 DEF RecvTypes, Returned

\* The server task and the receiving threads after any step.
LEMMA RecvStep ==
  ASSUME Typed, [Next]_vars
  PROVE  RecvTypes'
<1>. DEFINE ServerTypes == [at : {"idle", "serve", "failed", "dead"}, job : SUBSET Receivers]
            Same == UNCHANGED <<recvVars, delivered>>
<1>0. RecvTypes /\ ReadTypes
  BY DEF Typed
<1>00. /\ rq \in Seq(Receivers) /\ Len(rq) \in Nat
       /\ \A i \in 1..Len(rq) : rq[i] \in Receivers
  BY <1>0, SeqElements DEF RecvTypes
<1>1. CASE ServerTake
  <2>1. /\ rq # <<>> /\ server.at = "idle" /\ rq' = Tail(rq)
        /\ server' = [at |-> "serve", job |-> {Head(rq)}]
        /\ UNCHANGED <<wants, done, waiting, recvOpen, delivered>>
    BY <1>1 DEF ServerTake
  <2>2. PICK L \in Nat : L = Len(rq) - 1
    BY <1>00, <2>1, TailElements
  <2>3. /\ Len(rq) = L + 1 /\ Head(rq) = rq[1] /\ Head(rq) \in Receivers
        /\ rq' \in Seq(Receivers) /\ Len(rq') = L /\ \A i \in 1..L : rq'[i] = rq[i + 1]
    BY <1>00, <2>1, <2>2, TailElements
  <2>4. server.job = {} /\ \A i, j \in 1..L + 1 : rq[i] = rq[j] => i = j
    BY <1>0, <2>1, <2>3 DEF RecvTypes
  <2>5. server' \in ServerTypes /\ server'.at = "serve" /\ server'.job = {rq[1]}
    BY <2>1, <2>3
  <2>6. ASSUME NEW i \in 1..L PROVE rq'[i] \notin server'.job
    <3>1. i + 1 \in 1..L + 1 /\ 1 \in 1..L + 1 /\ i + 1 # 1
      OBVIOUS
    <3>. QED  BY <2>3, <2>4, <2>5, <3>1
  <2>7. ASSUME NEW i \in 1..L, NEW j \in 1..L, rq'[i] = rq'[j] PROVE i = j
    <3>1. i + 1 \in 1..L + 1 /\ j + 1 \in 1..L + 1 /\ (i + 1 = j + 1 => i = j)
      OBVIOUS
    <3>. QED  BY <2>3, <2>4, <2>7, <3>1
  <2>8. ASSUME NEW r \in Receivers
        PROVE  r \in waiting' <=> r \in server'.job \/ \E i \in 1..L : rq'[i] = r
    <3>1. r \in waiting <=> \E i \in 1..L + 1 : rq[i] = r
      BY <1>0, <2>3, <2>4 DEF RecvTypes
    <3>2. (\E i \in 1..L + 1 : rq[i] = r) <=> rq[1] = r \/ \E i \in 1..L : rq[i + 1] = r
      <4>1. ASSUME NEW i \in 1..L + 1, i # 1 PROVE i - 1 \in 1..L /\ (i - 1) + 1 = i
        BY <4>1
      <4>2. ASSUME NEW i \in 1..L PROVE i + 1 \in 1..L + 1
        OBVIOUS
      <4>3. 1 \in 1..L + 1
        OBVIOUS
      <4>4. ASSUME NEW i \in 1..L + 1, rq[i] = r
            PROVE  rq[1] = r \/ \E j \in 1..L : rq[j + 1] = r
        BY <4>1, <4>4
      <4>. QED  BY <4>2, <4>3, <4>4
    <3>. QED  BY <2>1, <2>3, <2>5, <3>1, <3>2
  <2>. QED  BY <1>0, <2>1, <2>3, <2>5, <2>6, <2>7, <2>8, ZenonT(60) DEF RecvTypes
<1>2. CASE ServeFrame \/ ServeEof
  <2>1. /\ server.at = "serve" /\ Returned(server.job) /\ rq' = rq
        /\ UNCHANGED <<wants, recvOpen>>
    BY <1>2 DEF ServeFrame, ServeEof
  <2>2. server.job \in SUBSET Receivers /\ \A r \in server.job : done[r] < wants[r]
    BY <1>0 DEF RecvTypes
  <2>3. server' \in ServerTypes /\ server'.at # "serve" /\ server'.job = {}
    BY <1>2 DEF ServeFrame, ServeEof, IdleServer
  <2>4. /\ done' \in [Receivers -> Nat] /\ waiting' \in SUBSET Receivers
        /\ \A r \in Receivers : done'[r] <= wants[r] /\ (r \in waiting' => done'[r] < wants[r])
        /\ \A r \in Receivers : r \in waiting' <=> r \in waiting /\ r \notin server.job
    BY <1>0, <2>1, <2>2, ReturnedTypes
  <2>5. delivered' \in Seq(Seq(Units))
    <3>1. CASE ServeFrame
      <4>1. fq \in Seq(Seq(Units)) /\ fq # <<>> /\ delivered' = Append(delivered, Head(fq))
        BY <1>0, <3>1 DEF ServeFrame, ReadTypes
      <4>2. Head(fq) \in Seq(Units) /\ delivered \in Seq(Seq(Units))
        BY <1>0, <4>1, TailElements DEF RecvTypes
      <4>. QED  BY <4>1, <4>2, AppendElements
    <3>2. CASE ServeEof
      BY <1>0, <3>2 DEF ServeEof, RecvTypes
    <3>. QED  BY <1>2, <3>1, <3>2
  <2>6. \A r \in Receivers : r \in waiting' <=> \E i \in 1..Len(rq) : rq[i] = r
    BY <1>0, <2>4 DEF RecvTypes
  <2>. QED  BY <1>0, <2>1, <2>3, <2>4, <2>5, <2>6 DEF RecvTypes
<1>3. CASE ServerBreaks
  <2>1. /\ server.at = "failed" /\ Returned(ToSet(rq)) /\ rq' = <<>>
        /\ server' = [at |-> "dead", job |-> {}] /\ UNCHANGED <<wants, recvOpen, delivered>>
    BY <1>3 DEF ServerBreaks
  <2>2. PICK R : R = ToSet(rq)
    OBVIOUS
  <2>3. R = {rq[i] : i \in 1..Len(rq)}
    BY <1>00, <2>2 DEF ToSet
  <2>4. server.job = {} /\ R \in SUBSET Receivers /\ \A r \in R : done[r] < wants[r]
    BY <1>0, <1>00, <2>1, <2>3 DEF RecvTypes
  <2>5. /\ done' \in [Receivers -> Nat] /\ waiting' \in SUBSET Receivers
        /\ \A r \in Receivers : done'[r] <= wants[r] /\ (r \in waiting' => done'[r] < wants[r])
        /\ \A r \in Receivers : r \in waiting' <=> r \in waiting /\ r \notin R
    BY <1>0, <2>1, <2>2, <2>4, ReturnedTypes
  <2>6. \A r \in Receivers : r \notin waiting'
    <3>1. \A r \in Receivers : r \in waiting => \E i \in 1..Len(rq) : rq[i] = r
      BY <1>0, <2>4 DEF RecvTypes
    <3>. QED  BY <2>3, <2>5, <3>1
  <2>7. server' \in ServerTypes /\ server'.job = {} /\ rq' \in Seq(Receivers) /\ Len(rq') = 0
    BY <2>1
  <2>. QED  BY <1>0, <2>1, <2>5, <2>6, <2>7 DEF RecvTypes
<1>4. CASE ServerEnds
  <2>1. /\ server.at = "idle" /\ server' = [at |-> "dead", job |-> {}]
        /\ UNCHANGED <<rq, wants, done, waiting, recvOpen, delivered>>
    BY <1>4 DEF ServerEnds
  <2>2. server.job = {} /\ server' \in ServerTypes /\ server'.job = {}
    BY <1>0, <2>1 DEF RecvTypes
  <2>. QED  BY <1>0, <2>1, <2>2 DEF RecvTypes
<1>5. ASSUME NEW r \in Receivers, Recv(r) PROVE RecvTypes'
  <2>1. /\ r \notin waiting /\ done[r] < wants[r] /\ rq' = Append(rq, r)
        /\ waiting' = waiting \cup {r} /\ UNCHANGED <<server, wants, done, recvOpen, delivered>>
    BY <1>5 DEF Recv
  <2>2. PICK L \in Nat : L = Len(rq)
    BY <1>00
  <2>3. /\ rq' \in Seq(Receivers) /\ Len(rq') = L + 1 /\ rq'[L + 1] = r
        /\ \A i \in 1..L : rq'[i] = rq[i]
    BY <1>00, <2>1, <2>2, AppendElements
  <2>4. \A i \in 1..L + 1 : i = L + 1 \/ i \in 1..L
    OBVIOUS
  <2>5. r \notin server.job /\ \A i \in 1..L : rq[i] # r
    BY <1>0, <2>1, <2>2 DEF RecvTypes
  <2>6. ASSUME NEW i \in 1..L + 1, NEW j \in 1..L + 1, rq'[i] = rq'[j] PROVE i = j
    <3>1. \A k, l \in 1..L : rq'[k] = rq'[l] => k = l
      BY <1>0, <2>2, <2>3 DEF RecvTypes
    <3>2. \A k \in 1..L : rq'[k] # rq'[L + 1]
      BY <2>3, <2>5
    <3>. HIDE DEF ServerTypes, Same
    <3>. QED  BY <2>4, <2>6, <3>1, <3>2, Zenon
  <2>7. ASSUME NEW i \in 1..L + 1 PROVE rq'[i] \notin server.job
    BY <1>0, <2>2, <2>3, <2>4, <2>5 DEF RecvTypes
  <2>8. ASSUME NEW t \in Receivers
        PROVE  t \in waiting' <=> t \in server.job \/ \E i \in 1..L + 1 : rq'[i] = t
    <3>1. (\E i \in 1..L + 1 : rq'[i] = t) <=> t = r \/ \E i \in 1..L : rq[i] = t
      <4>1. L + 1 \in 1..L + 1 /\ \A i \in 1..L : i \in 1..L + 1
        OBVIOUS
      <4>. QED  BY <2>3, <2>4, <4>1
    <3>2. t \in waiting <=> t \in server.job \/ \E i \in 1..L : rq[i] = t
      BY <1>0, <2>2 DEF RecvTypes
    <3>. QED  BY <2>1, <3>1, <3>2
  <2>. QED  BY <1>0, <2>1, <2>3, <2>6, <2>7, <2>8 DEF RecvTypes
<1>6. ASSUME NEW r \in Receivers, RecvGone(r) PROVE RecvTypes'
  <2>1. /\ r \notin waiting /\ done[r] < wants[r] /\ Returned({r})
        /\ UNCHANGED <<rq, server, wants, recvOpen, delivered>>
    BY <1>6 DEF RecvGone
  <2>2. /\ done' \in [Receivers -> Nat] /\ waiting' \in SUBSET Receivers
        /\ \A t \in Receivers : done'[t] <= wants[t] /\ (t \in waiting' => done'[t] < wants[t])
        /\ \A t \in Receivers : t \in waiting' <=> t \in waiting /\ t \notin {r}
    BY <1>0, <2>1, ReturnedTypes
  <2>3. \A t \in Receivers : t \in waiting' <=> t \in waiting
    BY <2>1, <2>2
  <2>. QED  BY <1>0, <2>1, <2>2, <2>3 DEF RecvTypes
<1>7. CASE CloseRecv
  <2>1. recvOpen' \in BOOLEAN /\ UNCHANGED <<rq, server, wants, done, waiting, delivered>>
    BY <1>7 DEF CloseRecv
  <2>. QED  BY <1>0, <2>1 DEF RecvTypes
<1>8. CASE Same
  BY <1>0, <1>8 DEF RecvTypes, recvVars
<1>9. ASSUME NEW s \in Senders, SenderStep(s) PROVE Same
  BY <1>9 DEF SenderStep, AcquireBlocking, AcquireAsync, Enqueue, EnqueueGone
<1>10. ASSUME \/ WriterStep \/ ReaderStep \/ CloseSend \/ Stopped \/ ConnectionLost
              \/ UNCHANGED vars
       PROVE  Same
  BY <1>10 DEF WriterStep, ReaderStep, CloseSend, Stopped, ConnectionLost, vars,
     WriterTake, WriteUnit, WriteDone, WriteFails, WriterBreaks, WriterEnds,
     ReadPrefix, ReadPermit, ReadBody, ReadPush, ReaderBreaks
<1>. HIDE DEF Same, ServerTypes
<1>. QED
  BY <1>1, <1>2, <1>3, <1>4, <1>5, <1>6, <1>7, <1>8, <1>9, <1>10
     DEF Next, ReceiverStep, ServerStep

\* Init satisfies the types.
LEMMA TypedInit ==
  ASSUME Init PROVE Typed /\ ReadPermitsConserved
<1>1. SendTypes
  <2>1. /\ phase \in [Senders -> Phases] /\ sent \in [Senders -> Nat] /\ held \in [Senders -> Nat]
        /\ wAvail \in Nat /\ wWait \in Seq(Waiters) /\ Len(wWait) = 0
    BY LimitsAssumption DEF Init, Phases
  <2>2. \A s \in Senders : SenderOK(s)
    BY MessageTypes DEF Init, SenderOK
  <2>. QED  BY <2>1, <2>2 DEF SendTypes, QueueOK
<1>2. WriteTypes
  BY LimitsAssumption DEF Init, WriteTypes, Idle
<1>3. ReadTypes
  BY LimitsAssumption DEF Init, ReadTypes, AtPrefix
<1>4. RecvTypes
  <2>1. rq \in Seq(Receivers) /\ Len(rq) = 0 /\ delivered \in Seq(Seq(Units))
    BY DEF Init
  <2>2. wants \in Wants /\ wants \in [Receivers -> Nat]
    BY ThreadsAssumption DEF Init
  <2>3. \A r \in Receivers : done[r] <= wants[r]
    BY <2>2 DEF Init
  <2>. QED  BY <2>1, <2>2, <2>3 DEF Init, RecvTypes, IdleServer
<1>5. ReadPermitsConserved
  BY FramePermitsLaws, LimitsAssumption DEF Init, ReadPermitsConserved, AtPrefix
<1>. QED  BY <1>1, <1>2, <1>3, <1>4, <1>5 DEF Typed

\* Every step keeps the types.
LEMMA TypedStep ==
  ASSUME Typed, [Next]_vars PROVE Typed'
<1>1. rAvail' \in Nat
  BY ReadBudgetStep
<1>. QED  BY <1>1, SendStep, WriteStep, ReadStep, RecvStep DEF Typed

\* Channel.tla: the permit of a frame travels with it from the reader task to
\* the receiver, through every error path, and is given back exactly once; so
\* prefetched bytes never exceed the read budget, whatever its size.
THEOREM ReadBudgetKept == Spec => []ReadPermitsConserved
<1>1. Init => Typed /\ ReadPermitsConserved
  BY TypedInit
<1>2. (Typed /\ ReadPermitsConserved) /\ [Next]_vars => (Typed /\ ReadPermitsConserved)'
  BY TypedStep, ReadBudgetStep
<1>. QED  BY <1>1, <1>2, PTL DEF Spec

-----------------------------------------------------------------------------
(* The write budget *)

\* A sum over the senders.
OfSenders(h) == Total([i \in 1..Cardinality(Senders) |-> h[SenderAt[i]]])

\* The senders are enumerated once each.
LEMMA SenderAtFacts ==
  /\ Cardinality(Senders) \in Nat
  /\ SenderAt \in [1..Cardinality(Senders) -> Senders]
  /\ \A i, j \in 1..Cardinality(Senders) : SenderAt[i] = SenderAt[j] => i = j
  /\ \A s \in Senders : \E i \in 1..Cardinality(Senders) : SenderAt[i] = s
<1>1. Cardinality(Senders) \in Nat /\ ExistsBijection(1..Cardinality(Senders), Senders)
  BY ThreadsAssumption, FS_CardinalityType
<1>2. Bijection(1..Cardinality(Senders), Senders) # {}
  BY <1>1 DEF ExistsBijection
<1>3. SenderAt \in Bijection(1..Cardinality(Senders), Senders)
  BY <1>2 DEF SenderAt
<1>. QED  BY <1>1, <1>3, Fun_BijectionProperties

\* The sum is over a sequence of numbers.
LEMMA OfSendersSeq ==
  ASSUME NEW h \in [Senders -> Nat]
  PROVE  LET f == [i \in 1..Cardinality(Senders) |-> h[SenderAt[i]]]
         IN  f \in Seq(Nat) /\ f \in Seq(Int) /\ Len(f) = Cardinality(Senders)
<1>. DEFINE f == [i \in 1..Cardinality(Senders) |-> h[SenderAt[i]]]
<1>1. f \in [1..Cardinality(Senders) -> Nat] /\ f \in [1..Cardinality(Senders) -> Int]
  BY SenderAtFacts
<1>. HIDE DEF f
<1>2. f \in Seq(Nat) /\ f \in Seq(Int) /\ Len(f) = Cardinality(Senders)
  BY <1>1, SenderAtFacts, FunctionIsSeq
<1>. QED  BY <1>2 DEF f

\* A sum over the senders is a number; it is zero if all terms are.
LEMMA OfSendersType ==
  /\ \A h \in [Senders -> Nat] : OfSenders(h) \in Nat
  /\ OfSenders([s \in Senders |-> 0]) = 0
<1>1. ASSUME NEW h \in [Senders -> Nat] PROVE OfSenders(h) \in Nat
  BY OfSendersSeq, TotalType DEF OfSenders
<1>2. OfSenders([s \in Senders |-> 0]) = 0
  <2>. DEFINE h == [s \in Senders |-> 0]
              f == [i \in 1..Cardinality(Senders) |-> h[SenderAt[i]]]
  <2>1. h \in [Senders -> Nat] /\ \A i \in 1..Cardinality(Senders) : f[i] = 0
    BY SenderAtFacts
  <2>2. f \in Seq(Int) /\ Len(f) = Cardinality(Senders)
    BY <2>1, OfSendersSeq
  <2>3. OfSenders(h) = Total(f)
    BY DEF OfSenders
  <2>4. Len(f) \in 0..Len(f) /\ \A i \in 1..Len(f) : f[i] = 0
    <3>. HIDE DEF f
    <3>. QED  BY <2>1, <2>2, SenderAtFacts
  <2>. HIDE DEF f
  <2>5. Partial(f)[Len(f)] = 0
    BY <2>2, <2>4, PartialZero
  <2>. QED  BY <2>3, <2>5 DEF Total
<1>. QED  BY <1>1, <1>2

\* Changing the term of one sender changes the sum by as much.
LEMMA OfSendersUpdate ==
  ASSUME NEW h \in [Senders -> Nat], NEW s \in Senders, NEW n \in Nat
  PROVE  OfSenders([h EXCEPT ![s] = n]) = OfSenders(h) + n - h[s]
<1>. DEFINE C == Cardinality(Senders)
            k == [h EXCEPT ![s] = n]
            f == [i \in 1..C |-> h[SenderAt[i]]]
            g == [i \in 1..C |-> k[SenderAt[i]]]
<1>1. PICK j \in 1..C : SenderAt[j] = s
  BY SenderAtFacts
<1>2. k \in [Senders -> Nat]
  OBVIOUS
<1>3. \A i \in 1..C : SenderAt[i] \in Senders /\ (i # j => SenderAt[i] # s)
  BY <1>1, SenderAtFacts
<1>4. g[j] = n /\ f[j] = h[s] /\ \A i \in 1..C : i # j => f[i] = g[i]
  BY <1>1, <1>3
<1>. HIDE DEF k
<1>5. f \in Seq(Int) /\ Len(f) = C /\ g \in Seq(Int) /\ Len(g) = C
  BY <1>2, OfSendersSeq
<1>6. OfSenders(h) = Total(f) /\ OfSenders(k) = Total(g)
  BY DEF OfSenders
<1>. HIDE DEF f, g, C
<1>7. Total(g) = Total(f) + g[j] - f[j]
  <2>1. j \in 1..Len(f) /\ Len(f) = Len(g) /\ \A i \in 1..Len(f) : i # j => f[i] = g[i]
    BY <1>1, <1>4, <1>5
  <2>. QED  BY <1>5, <2>1, TotalUpdate
<1>. QED  BY <1>4, <1>6, <1>7 DEF k

\* Smaller terms have a smaller sum.
LEMMA OfSendersMonotone ==
  ASSUME NEW h \in [Senders -> Nat], NEW k \in [Senders -> Nat],
         \A s \in Senders : h[s] <= k[s]
  PROVE  OfSenders(h) <= OfSenders(k)
<1>. DEFINE C == Cardinality(Senders)
            f == [i \in 1..C |-> h[SenderAt[i]]]
            g == [i \in 1..C |-> k[SenderAt[i]]]
<1>1. \A i \in 1..C : f[i] <= g[i]
  BY SenderAtFacts
<1>2. f \in Seq(Int) /\ Len(f) = C /\ g \in Seq(Int) /\ Len(g) = C
  BY OfSendersSeq
<1>3. OfSenders(h) = Total(f) /\ OfSenders(k) = Total(g)
  BY DEF OfSenders
<1>. HIDE DEF f, g, C
<1>. QED  BY <1>1, <1>2, <1>3, TotalMonotone

\* What the queued acquirers lack is part of what senders hold or wait for:
\* each of them is queued once.
LEMMA LacksWithinHeld ==
  ASSUME SendTypes PROVE Total(Lacks) \in Nat /\ Total(Lacks) <= OfSenders(held)
<1>1. PICK L \in Nat : L = Len(wWait)
  BY SeqElements DEF SendTypes
<1>2. ASSUME NEW i \in 1..L
      PROVE  /\ wWait[i].who \in Senders /\ wWait[i].lacks \in Nat
             /\ wWait[i].lacks <= held[wWait[i].who]
  <2>1. wWait[i] \in Waiters
    BY <1>1, SeqElements DEF SendTypes
  <2>. QED  BY <1>1, <2>1 DEF SendTypes, QueueOK, Waiters
<1>3. \A i, j \in 1..L : wWait[i].who = wWait[j].who => i = j
  BY <1>1 DEF SendTypes, QueueOK
<1>4. /\ Lacks \in Seq(Int) /\ Lacks \in Seq(Nat) /\ Len(Lacks) = L
      /\ \A i \in 1..L : Lacks[i] = wWait[i].lacks
  BY <1>1, LacksType DEF SendTypes
<1>. DEFINE p == Partial(Lacks)
            Part(i, h) == /\ OfSenders(h) = p[i] /\ \A s \in Senders : h[s] <= held[s]
                          /\ \A s \in Senders : (\A j \in 1..i : wWait[j].who # s) => h[s] = 0
            T == {i \in 0..L : \E h \in [Senders -> Nat] : Part(i, h)}
<1>5. p[0] = 0 /\ \A i \in 1..L : p[i] = p[i - 1] + Lacks[i]
  BY <1>4, PartialDef
<1>6. held \in [Senders -> Nat]
  BY DEF SendTypes
<1>. HIDE DEF p
<1>7. 0 \in T
  <2>1. PICK h : h = [s \in Senders |-> 0]
    OBVIOUS
  <2>2. h \in [Senders -> Nat] /\ OfSenders(h) = 0 /\ \A s \in Senders : h[s] = 0 /\ h[s] <= held[s]
    BY <1>6, <2>1, OfSendersType
  <2>3. Part(0, h)
    BY <1>5, <2>2
  <2>. QED  BY <2>2, <2>3
<1>8. ASSUME NEW i \in 0..L - 1, i \in T PROVE i + 1 \in T
  <2>1. i + 1 \in 1..L /\ i + 1 \in 0..L /\ (i + 1) - 1 = i /\ i \in 0..L
    OBVIOUS
  <2>2. PICK h \in [Senders -> Nat] : Part(i, h)
    BY <1>8
  <2>3. PICK s \in Senders : s = wWait[i + 1].who
    BY <1>2, <2>1
  <2>4. PICK n \in Nat : n = wWait[i + 1].lacks
    BY <1>2, <2>1
  <2>5. n <= held[s] /\ p[i + 1] = p[i] + n
    BY <1>2, <1>4, <1>5, <2>1, <2>3, <2>4
  <2>6. \A j \in 1..i : wWait[j].who # s
    <3>1. ASSUME NEW j \in 1..i PROVE wWait[j].who # s
      <4>1. j \in 1..L /\ j # i + 1
        OBVIOUS
      <4>. QED  BY <1>3, <2>1, <2>3, <4>1
    <3>. QED  BY <3>1
  <2>7. h[s] = 0 /\ OfSenders(h) = p[i] /\ \A t \in Senders : h[t] <= held[t]
    BY <2>2, <2>6
  <2>8. PICK k : k = [h EXCEPT ![s] = n]
    OBVIOUS
  <2>9. k \in [Senders -> Nat] /\ k[s] = n /\ \A t \in Senders \ {s} : k[t] = h[t]
    BY <2>8
  <2>10. OfSenders(k) = p[i + 1]
    <3>1. OfSenders(k) = OfSenders(h) + n - h[s] /\ OfSenders(h) \in Nat
      BY <2>8, OfSendersUpdate, OfSendersType
    <3>. QED  BY <2>5, <2>7, <3>1
  <2>11. \A t \in Senders : k[t] <= held[t]
    BY <2>5, <2>7, <2>9
  <2>12. ASSUME NEW t \in Senders, \A j \in 1..i + 1 : wWait[j].who # t PROVE k[t] = 0
    <3>1. t # s
      BY <2>1, <2>3, <2>12
    <3>2. \A j \in 1..i : wWait[j].who # t
      BY <2>1, <2>12
    <3>. QED  BY <2>2, <2>9, <3>1, <3>2
  <2>13. Part(i + 1, k)
    BY <2>10, <2>11, <2>12
  <2>. HIDE DEF Part
  <2>. QED  BY <2>1, <2>9, <2>13
<1>9. L \in T
  <2>. HIDE DEF T
  <2>1. 0..L \subseteq T
    BY <1>7, <1>8, SetInduction
  <2>. QED  BY <2>1
<1>10. PICK h \in [Senders -> Nat] : Part(L, h)
  BY <1>9
<1>11. OfSenders(h) <= OfSenders(held)
  BY <1>6, <1>10, OfSendersMonotone
<1>. QED  BY <1>4, <1>10, <1>11, TotalType DEF p, Total

\* What senders hold or wait for, what the queued acquirers still lack, what
\* travels with queued jobs, and what the writer task holds.
HeldSum == OfSenders(held)
LackSum == Total(Lacks)
QueuedSum == JobPermits(wq)
Writing == IF writer.at = "write" THEN WritePermits(writer.msg) ELSE 0

\* The sums of WritePermitsConserved are numbers.
WriteSums ==
  /\ HeldSum \in Nat /\ LackSum \in Nat /\ QueuedSum \in Nat
  /\ Writing \in Nat /\ wAvail \in Nat /\ WriteBudget \in Nat
  /\ LackSum <= HeldSum
  /\ WritePermitsConserved <=>
       wAvail + HeldSum - LackSum + QueuedSum + Writing = WriteBudget

\* Well-typed states have well-typed sums.
LEMMA WriteSumsType == Typed => WriteSums
<1>. SUFFICES ASSUME Typed PROVE WriteSums
  OBVIOUS
<1>1. HeldSum \in Nat /\ LackSum \in Nat /\ LackSum <= HeldSum
  BY LacksWithinHeld, OfSendersType DEF Typed, SendTypes, HeldSum, LackSum
<1>2. QueuedSum \in Nat /\ Writing \in Nat
  BY JobPermitsLaws, MessageTypes DEF Typed, WriteTypes, QueuedSum, Writing
<1>3. wAvail \in Nat /\ WriteBudget \in Nat
  BY LimitsAssumption DEF Typed, SendTypes
<1>4. WritePermitsConserved <=>
        wAvail + (HeldSum - LackSum) + QueuedSum + Writing = WriteBudget
  BY DEF WritePermitsConserved, HeldPermits, OfSenders, Writing, HeldSum, LackSum, QueuedSum
<1>. QED  BY <1>1, <1>2, <1>3, <1>4 DEF WriteSums

\* Every step moves permits without creating or losing any.
LEMMA WriteBudgetStep ==
  ASSUME Typed, WritePermitsConserved, [Next]_vars
  PROVE  WritePermitsConserved'
<1>. DEFINE Same == UNCHANGED <<sendVars, wAvail, wq, writer>>
            Balanced == wAvail' + HeldSum' - LackSum' + QueuedSum' + Writing'
                          = wAvail + HeldSum - LackSum + QueuedSum + Writing
<1>1. Typed' /\ SendTypes /\ WriteTypes /\ held \in [Senders -> Nat] /\ wWait \in Seq(Waiters)
  BY TypedStep DEF Typed, SendTypes
<1>2. /\ HeldSum \in Nat /\ LackSum \in Nat /\ QueuedSum \in Nat /\ Writing \in Nat /\ wAvail \in Nat /\ WriteBudget \in Nat
      /\ wAvail + HeldSum - LackSum + QueuedSum + Writing = WriteBudget
  BY WriteSumsType DEF WriteSums
<1>3. /\ HeldSum' \in Nat /\ LackSum' \in Nat /\ QueuedSum' \in Nat /\ Writing' \in Nat /\ wAvail' \in Nat
      /\ WritePermitsConserved' <=> wAvail' + HeldSum' - LackSum' + QueuedSum' + Writing' = WriteBudget
  <2>1. WriteSums'
    BY <1>1, WriteSumsType, PTL
  <2>. QED  BY <2>1 DEF WriteSums
<1>4. HeldSum' = OfSenders(held') /\ QueuedSum' = JobPermits(wq')
  BY DEF HeldSum, QueuedSum, OfSenders, JobPermits, WritePermits, Size
<1>. SUFFICES Balanced
  BY <1>2, <1>3
<1>0. ASSUME NEW n \in Nat, NEW m \in Nat, NEW k \in Nat, NEW l \in Nat, n = m + k + l,
             wAvail' = wAvail + n - LackSum + LackSum', HeldSum' = HeldSum - m,
             QueuedSum' = QueuedSum - k, Writing' = Writing - l
      PROVE  Balanced
  <2>1. PICK v \in Nat, h \in Nat, a \in Nat, q \in Nat, w \in Nat :
          v = wAvail /\ h = HeldSum /\ a = LackSum /\ q = QueuedSum /\ w = Writing
    BY <1>2
  <2>2. PICK v1 \in Nat, h1 \in Nat, a1 \in Nat, q1 \in Nat, w1 \in Nat :
          v1 = wAvail' /\ h1 = HeldSum' /\ a1 = LackSum' /\ q1 = QueuedSum' /\ w1 = Writing'
    BY <1>3
  <2>3. v1 = v + n - a + a1 /\ h1 = h - m /\ q1 = q - k /\ w1 = w - l
    BY <1>0, <2>1, <2>2
  <2>4. v1 + h1 - a1 + q1 + w1 = v + h - a + q + w
    BY <1>0, <2>3
  <2>. QED  BY <2>1, <2>2, <2>4
<1>5. CASE Same
  <2>1. held' = held /\ wWait' = wWait /\ wAvail' = wAvail /\ wq' = wq /\ writer' = writer
    BY <1>5 DEF sendVars
  <2>2. LackSum' = LackSum /\ Writing' = Writing
    BY <2>1 DEF LackSum, Lacks, Total, Writing, WritePermits, Size
  <2>. QED  BY <1>4, <2>1, <2>2 DEF HeldSum, QueuedSum
<1>6. ASSUME NEW s \in Senders, AcquireBlocking(s)
      PROVE  Balanced
  <2>1. SenderOK(s) /\ phase[s] = "idle" /\ sent[s] < Len(Script[s])
    BY <1>1, <1>6 DEF SendTypes, AcquireBlocking, CanSend
  <2>2. WritePermits(Current(s)) \in Nat /\ held[s] = 0
    BY <1>1, <2>1, CurrentTypes DEF SenderOK
  <2>3. PICK n \in Nat : n = WritePermits(Current(s))
    BY <2>2
  <2>4. /\ wAvail' = wAvail - n /\ held' = [held EXCEPT ![s] = n]
        /\ wWait' = wWait /\ wq' = wq /\ writer' = writer
    BY <1>6, <2>3 DEF AcquireBlocking
  <2>5. HeldSum' = HeldSum + n
    <3>1. HeldSum' = HeldSum + n - held[s]
      BY <1>1, <1>4, <2>4, OfSendersUpdate DEF HeldSum
    <3>. QED  BY <1>2, <2>2, <3>1
  <2>6. LackSum' = LackSum /\ Writing' = Writing /\ QueuedSum' = QueuedSum
    BY <1>4, <2>4 DEF QueuedSum, LackSum, Lacks, Total, Writing, WritePermits, Size
  <2>. QED  BY <1>2, <2>4, <2>5, <2>6
<1>7. ASSUME NEW s \in Senders, AcquireAsync(s)
      PROVE  Balanced
  <2>1. SenderOK(s) /\ phase[s] = "idle" /\ sent[s] < Len(Script[s])
    BY <1>1, <1>7 DEF SendTypes, AcquireAsync, CanSend
  <2>2. WritePermits(Current(s)) \in Nat /\ held[s] = 0
    BY <1>1, <2>1, CurrentTypes DEF SenderOK
  <2>3. PICK n \in Nat : n = WritePermits(Current(s))
    BY <2>2
  <2>4. PICK now \in Nat : now = Lesser(n, wAvail)
    <3>1. Lesser(n, wAvail) \in Nat
      BY <1>2 DEF Lesser
    <3>. QED  BY <3>1
  <2>5. /\ wAvail' = wAvail - now /\ held' = [held EXCEPT ![s] = n]
        /\ wq' = wq /\ writer' = writer
        /\ \/ now = n /\ wWait' = wWait
           \/ now # n /\ wWait' = Append(wWait, [who |-> s, lacks |-> n - now])
    BY <1>7, <2>3, <2>4 DEF AcquireAsync
  <2>6. HeldSum' = HeldSum + n
    <3>1. HeldSum' = HeldSum + n - held[s]
      BY <1>1, <1>4, <2>5, OfSendersUpdate DEF HeldSum
    <3>. QED  BY <1>2, <2>2, <3>1
  <2>7. Writing' = Writing /\ QueuedSum' = QueuedSum
    BY <1>4, <2>5 DEF QueuedSum, Writing, WritePermits, Size
  <2>8. LackSum' = LackSum + (n - now)
    <3>1. CASE wWait' = wWait /\ now = n
      <4>1. LackSum' = LackSum
        BY <3>1 DEF LackSum, Lacks, Total
      <4>. QED  BY <1>2, <3>1, <4>1
    <3>2. CASE wWait' = Append(wWait, [who |-> s, lacks |-> n - now])
      <4>1. n - now \in Int
        OBVIOUS
      <4>2. Len(wWait) \in Nat
        BY <1>1, SeqElements
      <4>3. Lacks' = Append(Lacks, n - now)
        <5>1. PICK L \in Nat : L = Len(wWait)
          BY <4>2
        <5>2. PICK x : x = [who |-> s, lacks |-> n - now]
          OBVIOUS
        <5>3. /\ Len(wWait') = L + 1 /\ wWait'[L + 1] = x
              /\ \A i \in 1..L : wWait'[i] = wWait[i]
          BY <1>1, <3>2, <5>1, <5>2
        <5>4. Lacks' = [i \in 1..L + 1 |-> wWait'[i].lacks] /\ Lacks = [i \in 1..L |-> wWait[i].lacks]
          BY <5>1, <5>3 DEF Lacks
        <5>5. x.lacks = n - now
          BY <5>2
        <5>6. Append(Lacks, n - now) = [i \in 1..L + 1 |-> IF i = L + 1 THEN n - now ELSE Lacks[i]]
          BY <5>4
        <5>7. \A i \in 1..L + 1 : wWait'[i].lacks = IF i = L + 1 THEN n - now ELSE Lacks[i]
          BY <5>3, <5>4, <5>5
        <5>. QED  BY <5>4, <5>6, <5>7, ZenonT(60)
      <4>4. Lacks \in Seq(Int)
        BY <1>1, LacksType
      <4>5. Total(Append(Lacks, n - now)) = Total(Lacks) + (n - now)
        BY <4>1, <4>4, TotalAppend
      <4>. QED  BY <4>3, <4>5 DEF LackSum, Total
    <3>. QED  BY <2>5, <3>1, <3>2
  <2>. QED  BY <1>2, <2>5, <2>6, <2>7, <2>8
<1>8. ASSUME NEW s \in Senders, Enqueue(s)
      PROVE  Balanced
  <2>1. SenderOK(s) /\ phase[s] = "enqueue"
    BY <1>1, <1>8 DEF SendTypes, Enqueue
  <2>2. sent[s] < Len(Script[s]) /\ held[s] = WritePermits(Current(s))
    BY <2>1 DEF SenderOK
  <2>3. Current(s) \in Sent /\ held[s] \in Nat
    BY <1>1, <2>2, CurrentTypes
  <2>4. PICK n \in Nat : n = held[s]
    BY <2>3
  <2>5. /\ wAvail' = wAvail /\ held' = [held EXCEPT ![s] = 0]
        /\ wq' = Append(wq, Current(s)) /\ writer' = writer /\ wWait' = wWait
    BY <1>8 DEF Enqueue
  <2>6. HeldSum' = HeldSum + 0 - n
    BY <1>1, <1>4, <2>4, <2>5, OfSendersUpdate DEF HeldSum
  <2>7. QueuedSum' = QueuedSum + n
    BY <1>1, <1>4, <2>2, <2>3, <2>4, <2>5, JobPermitsLaws DEF WriteTypes, QueuedSum
  <2>8. LackSum' = LackSum /\ Writing' = Writing
    BY <2>5 DEF LackSum, Lacks, Total, Writing, WritePermits, Size
  <2>. QED  BY <1>2, <2>5, <2>6, <2>7, <2>8
<1>9. ASSUME NEW n \in Nat, NEW base, Release(n, base) PROVE wAvail' = wAvail + n - LackSum + LackSum'
  <2>1. PICK g \in 0..Len(wWait) : ReleaseEffect(n, base, g)
    BY <1>1, <1>2, <1>9, ReleaseFacts
  <2>2. wAvail' - LackSum' = wAvail + n - LackSum
    BY <2>1 DEF ReleaseEffect, LackSum
  <2>3. PICK a \in Nat : a = LackSum'
    BY <1>3
  <2>4. PICK v \in Nat : v = wAvail'
    BY <1>3
  <2>5. v - a = wAvail + n - LackSum
    BY <2>2, <2>3, <2>4
  <2>6. LackSum' \in Nat /\ wAvail' \in Nat /\ LackSum \in Nat /\ wAvail \in Nat
    BY <1>2, <1>3
  <2>7. PICK c \in Nat : c = LackSum
    BY <2>6
  <2>8. PICK w \in Nat : w = wAvail
    BY <2>6
  <2>9. v - a = w + n - c
    BY <2>5, <2>7, <2>8
  <2>10. v = w + n - c + a
    BY <2>9
  <2>. QED  BY <2>3, <2>4, <2>7, <2>8, <2>10
<1>10. ASSUME NEW s \in Senders, EnqueueGone(s)
       PROVE  Balanced
  <2>1. PICK n \in Nat : n = held[s]
    BY <1>1
  <2>2. /\ Release(n, [phase EXCEPT ![s] = "idle"]) /\ held' = [held EXCEPT ![s] = 0]
        /\ wq' = wq /\ writer' = writer
    BY <1>10, <2>1 DEF EnqueueGone
  <2>3. wAvail' = wAvail + n - LackSum + LackSum'
    BY <1>9, <2>2
  <2>4. HeldSum' = HeldSum - n
    <3>1. HeldSum' = HeldSum + 0 - n
      BY <1>1, <1>4, <2>1, <2>2, OfSendersUpdate DEF HeldSum
    <3>. QED  BY <1>2, <3>1
  <2>5. QueuedSum' = QueuedSum /\ Writing' = Writing
    BY <1>4, <2>2 DEF QueuedSum, Writing, WritePermits, Size
  <2>6. QueuedSum' = QueuedSum - 0 /\ Writing' = Writing - 0 /\ n = n + 0 + 0
    BY <1>2, <2>5
  <2>. QED  BY <1>0, <2>3, <2>4, <2>6
<1>11. CASE WriterTake
  <2>1. /\ wq # <<>> /\ writer.at = "idle" /\ wq' = Tail(wq) /\ wAvail' = wAvail
        /\ writer' = [at |-> "write", msg |-> Head(wq), off |-> 0]
        /\ held' = held /\ wWait' = wWait
    BY <1>11 DEF WriterTake, sendVars
  <2>2. QueuedSum = WritePermits(Head(wq)) + QueuedSum'
    BY <1>1, <1>4, <2>1, JobPermitsLaws DEF WriteTypes, QueuedSum
  <2>3. Writing = 0 /\ Writing' = WritePermits(Head(wq))
    BY <2>1 DEF Writing, WritePermits, Size
  <2>4. HeldSum' = HeldSum /\ LackSum' = LackSum
    BY <1>4, <2>1 DEF HeldSum, QueuedSum, LackSum, Lacks, Total
  <2>. QED  BY <1>2, <1>3, <2>1, <2>2, <2>3, <2>4
<1>12. CASE WriteUnit
  <2>1. /\ writer.at = "write" /\ writer' = [writer EXCEPT !.off = writer.off + 1]
        /\ held' = held /\ wWait' = wWait /\ wAvail' = wAvail /\ wq' = wq
    BY <1>12 DEF WriteUnit, sendVars
  <2>2. writer'.at = "write" /\ writer'.msg = writer.msg
    BY <1>1, <2>1 DEF WriteTypes
  <2>3. Writing' = Writing
    BY <2>1, <2>2 DEF Writing, WritePermits, Size
  <2>4. HeldSum' = HeldSum /\ LackSum' = LackSum /\ QueuedSum' = QueuedSum
    BY <1>4, <2>1 DEF HeldSum, QueuedSum, LackSum, Lacks, Total
  <2>. QED  BY <2>1, <2>3, <2>4
<1>13. CASE WriteDone \/ WriteFails
  <2>1. writer.at = "write" /\ writer.msg \in Sent
    BY <1>1, <1>13 DEF WriteDone, WriteFails, WriteTypes
  <2>2. Writing = WritePermits(writer.msg)
    BY <2>1 DEF Writing
  <2>3. /\ Release(Writing, phase) /\ held' = held /\ wq' = wq
        /\ \E a \in {"idle", "failed"} : writer' = [at |-> a, msg |-> <<>>, off |-> 0]
    BY <1>13, <2>2 DEF WriteDone, WriteFails, Idle
  <2>4. Writing' = 0
    BY <2>3 DEF Writing
  <2>5. HeldSum' = HeldSum /\ QueuedSum' = QueuedSum
    BY <1>4, <2>3 DEF HeldSum, QueuedSum
  <2>6. wAvail' = wAvail + Writing - LackSum + LackSum'
    BY <1>2, <1>9, <2>3
  <2>7. HeldSum' = HeldSum - 0 /\ QueuedSum' = QueuedSum - 0 /\ Writing' = Writing - Writing
        /\ Writing = 0 + 0 + Writing
    BY <1>2, <2>4, <2>5
  <2>. QED  BY <1>0, <1>2, <2>6, <2>7
<1>14. CASE WriterBreaks
  <2>1. /\ writer.at = "failed" /\ Release(QueuedSum, phase) /\ held' = held /\ wq' = <<>>
        /\ writer' = [at |-> "dead", msg |-> <<>>, off |-> 0]
    BY <1>14 DEF WriterBreaks, Idle, QueuedSum
  <2>2. Writing = 0 /\ Writing' = 0
    BY <2>1 DEF Writing
  <2>3. HeldSum' = HeldSum /\ QueuedSum' = 0
    BY <1>4, <2>1, JobPermitsLaws DEF QueuedSum, HeldSum
  <2>4. wAvail' = wAvail + QueuedSum - LackSum + LackSum'
    BY <1>2, <1>9, <2>1
  <2>5. HeldSum' = HeldSum - 0 /\ QueuedSum' = QueuedSum - QueuedSum /\ Writing' = Writing - 0
        /\ QueuedSum = 0 + QueuedSum + 0
    BY <1>2, <2>2, <2>3
  <2>. QED  BY <1>0, <1>2, <2>4, <2>5
<1>15. CASE WriterEnds
  <2>1. /\ writer.at = "idle" /\ writer' = [at |-> "dead", msg |-> <<>>, off |-> 0]
        /\ held' = held /\ wWait' = wWait /\ wAvail' = wAvail /\ wq' = wq
    BY <1>15 DEF WriterEnds, Idle, sendVars
  <2>2. Writing = 0 /\ Writing' = 0
    BY <2>1 DEF Writing
  <2>3. HeldSum' = HeldSum /\ LackSum' = LackSum /\ QueuedSum' = QueuedSum
    BY <1>4, <2>1 DEF HeldSum, QueuedSum, LackSum, Lacks, Total
  <2>. QED  BY <2>1, <2>2, <2>3
<1>16. ASSUME NEW r \in Receivers, ReceiverStep(r) PROVE Same
  BY <1>16 DEF ReceiverStep, Recv, RecvGone
<1>17. ASSUME \/ ReaderStep \/ ServerStep \/ CloseSend \/ CloseRecv \/ Stopped \/ ConnectionLost
              \/ UNCHANGED vars
       PROVE  Same
  BY <1>17 DEF ReaderStep, ServerStep, CloseSend, CloseRecv, Stopped, ConnectionLost, vars,
     ReadPrefix, ReadPermit, ReadBody, ReadPush, ReaderBreaks,
     ServerTake, ServeFrame, ServeEof, ServerBreaks, ServerEnds
<1>. HIDE DEF Same, Balanced
<1>. QED
  BY <1>5, <1>6, <1>7, <1>8, <1>10, <1>11, <1>12, <1>13, <1>14, <1>15, <1>16, <1>17
     DEF Next, SenderStep, WriterStep

\* The inductive invariant: the types, and both budgets.
Budgets == Typed /\ ReadPermitsConserved /\ WritePermitsConserved

\* Both budgets are complete at the start and after every step.
LEMMA BudgetsKept == Spec => []Budgets
<1>1. Init => Budgets
  <2>. SUFFICES ASSUME Init PROVE Budgets
    OBVIOUS
  <2>1. Typed /\ ReadPermitsConserved
    BY TypedInit
  <2>2. HeldSum = 0 /\ QueuedSum = 0 /\ Writing = 0 /\ wAvail = WriteBudget
    BY OfSendersType, JobPermitsLaws DEF Init, Writing, Idle, HeldSum, QueuedSum
  <2>3. LackSum = 0
    <3>1. Lacks = <<>>
      BY DEF Init, Lacks
    <3>. QED  BY <3>1, TotalEmpty DEF LackSum
  <2>4. WritePermitsConserved
    BY <2>1, <2>2, <2>3, WriteSumsType DEF WriteSums
  <2>. QED  BY <2>1, <2>4 DEF Budgets
<1>2. Budgets /\ [Next]_vars => Budgets'
  BY TypedStep, ReadBudgetStep, WriteBudgetStep DEF Budgets
<1>. QED  BY <1>1, <1>2, PTL DEF Spec

\* channel.rs: every permit of the write budget is free, granted to a queued
\* acquirer, or travels with one message to the stream; no error path of the
\* senders or of the writer task leaks or duplicates one.
THEOREM WriteBudgetKept == Spec => []WritePermitsConserved
<1>1. Budgets => WritePermitsConserved
  BY DEF Budgets
<1>. QED  BY <1>1, BudgetsKept, PTL

\* Channel.tla: in every reachable state each variable has its type, the queues
\* are within their capacities and the budgets within their limits.
THEOREM TypeCorrect == Spec => []TypeOK
<1>1. Budgets => TypeOK
  <2>. SUFFICES ASSUME Budgets PROVE TypeOK
    OBVIOUS
  <2>1. Typed /\ SendTypes /\ WriteTypes /\ ReadTypes /\ RecvTypes
    BY DEF Budgets, Typed
  <2>2. wAvail \in 0..WriteBudget
    <3>1. /\ HeldSum \in Nat /\ LackSum \in Nat /\ QueuedSum \in Nat /\ Writing \in Nat
          /\ wAvail \in Nat /\ WriteBudget \in Nat /\ LackSum <= HeldSum
          /\ wAvail + HeldSum - LackSum + QueuedSum + Writing = WriteBudget
      BY <2>1, WriteSumsType DEF WriteSums, Budgets
    <3>. QED  BY <3>1
  <2>3. rAvail \in 0..ReadBudget
    <3>1. FramePermits(fq) \in Nat /\ rAvail \in Nat /\ ReadPermits(reader.len) \in Nat
      BY <2>1, FramePermitsLaws, ReadPermitsType DEF ReadTypes
    <3>. QED  BY <3>1, LimitsAssumption DEF Budgets, ReadPermitsConserved
  <2>4. ASSUME NEW s \in Senders PROVE sent[s] \in 0..Len(Script[s]) /\ held[s] \in 0..WriteBudget
    <3>1. SenderOK(s) /\ sent[s] \in Nat /\ held[s] \in Nat /\ phase[s] \in Phases
      BY <2>1 DEF SendTypes
    <3>2. held[s] = 0 \/ (held[s] = WritePermits(Current(s)) /\ Current(s) \in Sent)
      BY <2>1, <3>1, CurrentTypes DEF SenderOK
    <3>3. \A m \in Sent : WritePermits(m) \in 0..WriteBudget
      BY MessageTypes, LimitsAssumption DEF WritePermits
    <3>4. held[s] \in 0..WriteBudget
      BY <3>2, <3>3, LimitsAssumption
    <3>. QED  BY <3>1, <3>4, MessageTypes DEF SenderOK
  <2>5. ASSUME NEW i \in 1..Len(wWait)
        PROVE  wWait[i].who \in Senders /\ wWait[i].lacks \in 1..WriteBudget
    <3>1. wWait[i] \in Waiters
      BY <2>1, SeqElements DEF SendTypes
    <3>2. PICK s \in Senders : s = wWait[i].who
      BY <3>1 DEF Waiters
    <3>3. wWait[i].lacks \in Nat \ {0} /\ wWait[i].lacks <= held[s] /\ held[s] \in 0..WriteBudget
      BY <2>1, <2>4, <3>1, <3>2 DEF SendTypes, QueueOK, Waiters
    <3>. QED  BY <3>2, <3>3, LimitsAssumption
  <2>6. ToSet(wq) \subseteq Sent /\ ToSet(accepted) \subseteq Sent /\ ToSet(rq) \subseteq Receivers
    BY <2>1 DEF WriteTypes, RecvTypes, ToSet
  <2>7. writer.at = "write" => writer.msg \in Sent /\ writer.off \in 0..Size(writer.msg) + 1
    <3>1. \A m \in Sent : Size(m) \in Nat
      BY MessageTypes
    <3>. QED  BY <2>1, <3>1 DEF WriteTypes
  <2>8. ASSUME NEW i \in 1..Len(wire)
        PROVE  wire[i][1] \in Sent /\ wire[i][2] \in 0..Size(wire[i][1])
    <3>1. wire[i] \in Units /\ wire[i][2] <= Size(wire[i][1])
      BY <2>1, SeqElements DEF WriteTypes
    <3>2. wire[i][1] \in Sent /\ wire[i][2] \in Nat
      BY <3>1 DEF Units
    <3>3. Size(wire[i][1]) \in Nat
      BY <3>2, MessageTypes
    <3>. QED  BY <3>1, <3>2, <3>3
  <2>9. waiting = ToSet(rq) \cup server.job
    <3>1. ToSet(rq) = {rq[i] : i \in 1..Len(rq)}
      BY <2>1 DEF RecvTypes, ToSet
    <3>2. \A r : r \in waiting => r \in Receivers
      BY <2>1 DEF RecvTypes
    <3>3. \A r : r \in ToSet(rq) \cup server.job => r \in Receivers
      BY <2>1, <2>6 DEF RecvTypes
    <3>4. \A r \in Receivers : r \in waiting <=> r \in ToSet(rq) \cup server.job
      BY <2>1, <3>1, ZenonT(60) DEF RecvTypes
    <3>. QED  BY <3>2, <3>3, <3>4
  <2>10. wants \in Wants /\ \A r \in Receivers : done[r] \in 0..wants[r]
    <3>1. wants \in Wants /\ wants \in [Receivers -> Nat] /\ done \in [Receivers -> Nat]
          /\ \A r \in Receivers : done[r] <= wants[r]
      BY <2>1, ThreadsAssumption DEF RecvTypes
    <3>. QED  BY <3>1
  <2>11. /\ phase \in [Senders -> {"idle", "waiting", "enqueue"}]
         /\ Len(wq) <= WriteCap
         /\ writer.at \in {"idle", "write", "failed", "dead"}
         /\ ack \in [Sent -> {"none", "ok", "err"}]
         /\ {sendOpen, up, recvOpen} \subseteq BOOLEAN
         /\ Len(wire) <= Window
    BY <2>1 DEF SendTypes, WriteTypes, RecvTypes, Phases
  <2>12. /\ reader.at \in {"prefix", "permit", "body", "dead"} /\ Len(reader.buf) <= reader.len
         /\ Len(fq) <= ReadCap
         /\ server.at \in {"idle", "serve", "failed", "dead"} /\ server.job \subseteq Receivers
    BY <2>1 DEF ReadTypes, RecvTypes
  <2>. QED
    BY <2>2, <2>3, <2>4, <2>5, <2>6, <2>7, <2>8, <2>9, <2>10, <2>11, <2>12 DEF TypeOK
<1>. QED  BY <1>1, BudgetsKept, PTL

-----------------------------------------------------------------------------
(* Delivery.  The stream is the frames of the accepted messages one after   *)
(* another; a position in it counts units.  StartsOf(a)[i] is the position  *)
(* after the first i frames of a.                                           *)

StartsOf(a) == Partial([i \in 1..Len(a) |-> Size(a[i]) + 1])

\* Unit u is the one at position p of the stream of a.
At(a, u, p) ==
  \E i \in 1..Len(a) : \E k \in 0..Size(a[i]) : u = <<a[i], k>> /\ StartsOf(a)[i - 1] + k = p

\* Frames the reader has completed, and messages the writer has taken.
Handled == Len(delivered) + Len(fq)
Taken == Len(accepted) - Len(wq)

\* Where the reader and the writer are in the stream.
ReadPos == StartsOf(accepted)[Handled]
             + (IF reader.at = "prefix" THEN 0 ELSE 1 + Len(reader.buf))
WritePos == IF writer.at = "write" THEN StartsOf(accepted)[Taken - 1] + writer.off
                                   ELSE StartsOf(accepted)[Taken]

\* The handles are closed by senders that are done.
SendersDone == ~sendOpen => AllSent

\* Why tasks end.
Endings ==
  /\ server.at \in {"failed", "dead"} => fq = <<>>
  /\ server.at = "failed" => reader.at = "dead"
  /\ writer.at = "failed" => ~up \/ reader.at = "dead"
  /\ writer.at = "dead" => wq = <<>> /\ (~up \/ reader.at = "dead" \/ ~sendOpen)

\* The queue is the end of what was accepted; the writer has what comes before.
Queued ==
  /\ Len(wq) <= Len(accepted)
  /\ \A i \in 1..Len(wq) : wq[i] = accepted[Taken + i]
  /\ writer.at = "write" => Taken >= 1 /\ writer.msg = accepted[Taken]

\* Frames delivered and prefetched are those of the first accepted messages.
Framed ==
  /\ Handled <= Len(accepted)
  /\ \A i \in 1..Len(delivered) : delivered[i] = Frame(accepted[i])
  /\ \A i \in 1..Len(fq) : fq[i] = Frame(accepted[Len(delivered) + i])

\* While somebody reads, what the reader has of the next frame, the units on
\* the wire and the writer follow one another in the stream.
Reading ==
  reader.at # "prefix" =>
    /\ Handled + 1 <= Len(accepted) /\ reader.len = Size(accepted[Handled + 1])
    /\ \A i \in 1..Len(reader.buf) : reader.buf[i] = <<accepted[Handled + 1], i>>
OnWire == \A j \in 1..Len(wire) : At(accepted, wire[j], ReadPos + (j - 1))
InStep == up => ReadPos + Len(wire) = WritePos
Live == reader.at # "dead" /\ server.at # "dead"
Streaming == Live => Reading /\ OnWire /\ InStep

\* The reader stops on a live connection only when everything was read.
Drained ==
  up /\ reader.at = "dead" /\ server.at # "dead" => ~sendOpen /\ Handled = Len(accepted)

Delivery == SendersDone /\ Endings /\ Queued /\ Framed /\ Streaming /\ Drained

\* Positions in the stream of a.
LEMMA StartsLaws ==
  ASSUME NEW a \in Seq(Sent)
  PROVE  /\ Len(a) \in Nat /\ StartsOf(a) \in [0..Len(a) -> Nat]
         /\ \A i \in 1..Len(a) : a[i] \in Sent /\ Size(a[i]) \in Nat
         /\ \A i \in 1..Len(a) : StartsOf(a)[i] = StartsOf(a)[i - 1] + Size(a[i]) + 1
         /\ \A i, j \in 0..Len(a) : i <= j => StartsOf(a)[i] <= StartsOf(a)[j]
<1>. DEFINE f == [i \in 1..Len(a) |-> Size(a[i]) + 1]
<1>1. Len(a) \in Nat /\ \A i \in 1..Len(a) : a[i] \in Sent
  BY SeqElements
<1>2. \A i \in 1..Len(a) : Size(a[i]) \in Nat
  BY <1>1, MessageTypes
<1>3. f \in [1..Len(a) -> Nat] /\ f \in [1..Len(a) -> Int] /\ \A i \in 1..Len(a) : f[i] = Size(a[i]) + 1
  BY <1>2
<1>4. StartsOf(a) = Partial(f)
  BY DEF StartsOf
<1>. HIDE DEF f
<1>5. f \in Seq(Nat) /\ f \in Seq(Int) /\ Len(f) = Len(a)
  BY <1>1, <1>3, FunctionIsSeq
<1>6. /\ Partial(f) \in [0..Len(a) -> Nat]
      /\ \A i, j \in 0..Len(a) : i <= j => Partial(f)[i] <= Partial(f)[j]
  BY <1>5, PartialNat
<1>7. \A i \in 1..Len(a) : Partial(f)[i] = Partial(f)[i - 1] + f[i]
  BY <1>5, PartialDef
<1>8. ASSUME NEW i \in 1..Len(a) PROVE Partial(f)[i] = Partial(f)[i - 1] + Size(a[i]) + 1
  <2>1. i - 1 \in 0..Len(a)
    BY <1>1
  <2>2. PICK c \in Nat : c = Partial(f)[i - 1]
    BY <1>6, <2>1
  <2>. QED  BY <1>2, <1>3, <1>7, <2>2
<1>. QED  BY <1>1, <1>2, <1>4, <1>6, <1>8

\* A position belongs to one unit only: if u is at the k-th unit of frame h + 1,
\* then it is that unit, and there is nothing beyond the last frame.
LEMMA AtHere ==
  ASSUME NEW a \in Seq(Sent), NEW h \in 0..Len(a), NEW k \in Nat, NEW u,
         h = Len(a) => k = 0, h < Len(a) => k <= Size(a[h + 1]),
         At(a, u, StartsOf(a)[h] + k)
  PROVE  h < Len(a) /\ u = <<a[h + 1], k>>
<1>1. PICK n \in Nat : n = Len(a)
  BY SeqElements
<1>2. PICK st : st = StartsOf(a)
  OBVIOUS
<1>3. /\ st \in [0..n -> Nat] /\ \A i \in 1..n : Size(a[i]) \in Nat
      /\ \A i \in 1..n : st[i] = st[i - 1] + Size(a[i]) + 1
      /\ \A i, j \in 0..n : i <= j => st[i] <= st[j]
  BY <1>1, <1>2, StartsLaws
<1>4. PICK i \in 1..n : \E l \in 0..Size(a[i]) : u = <<a[i], l>> /\ st[i - 1] + l = st[h] + k
  BY <1>1, <1>2 DEF At
<1>5. Size(a[i]) \in Nat /\ i - 1 \in 0..n /\ i \in 0..n /\ h \in 0..n
  BY <1>1, <1>3
<1>6. PICK l \in 0..Size(a[i]) : u = <<a[i], l>> /\ st[i - 1] + l = st[h] + k
  BY <1>4
<1>7. st[i] \in Nat /\ st[i - 1] \in Nat /\ st[h] \in Nat /\ l \in Nat /\ l <= Size(a[i])
      /\ st[i] = st[i - 1] + Size(a[i]) + 1
  BY <1>3, <1>5
<1>8. ~(i <= h)
  <2>1. SUFFICES ASSUME i <= h PROVE FALSE
    OBVIOUS
  <2>2. st[i] <= st[h]
    BY <1>3, <1>5, <2>1
  <2>3. st[i - 1] + l < st[i]
    BY <1>5, <1>7
  <2>. QED  BY <1>6, <1>7, <2>2, <2>3
<1>9. ~(h + 1 < i)
  <2>1. SUFFICES ASSUME h + 1 < i PROVE FALSE
    OBVIOUS
  <2>2. h + 1 \in 1..n /\ h + 1 \in 0..n /\ (h + 1) - 1 = h /\ h < n /\ h + 1 <= i - 1
    BY <1>5, <2>1
  <2>3. st[h + 1] = st[h] + Size(a[h + 1]) + 1 /\ Size(a[h + 1]) \in Nat /\ st[h + 1] \in Nat
    BY <1>3, <2>2
  <2>4. st[h + 1] <= st[i - 1]
    BY <1>3, <1>5, <2>2
  <2>5. k <= Size(a[h + 1])
    BY <1>1, <2>2
  <2>6. st[h] + k < st[h + 1]
    BY <1>7, <2>3, <2>5
  <2>. QED  BY <1>6, <1>7, <2>3, <2>4, <2>6, SMTT(60)
<1>10. i = h + 1 /\ h < n
  BY <1>5, <1>8, <1>9
<1>11. l = k
  <2>1. i - 1 = h
    BY <1>5, <1>10
  <2>. QED  BY <1>6, <1>7, <2>1
<1>. QED  BY <1>1, <1>6, <1>10, <1>11

\* The unit k of frame i is at that position.
LEMMA AtThere ==
  ASSUME NEW a \in Seq(Sent), NEW i \in 1..Len(a), NEW k \in Nat, k <= Size(a[i])
  PROVE  At(a, <<a[i], k>>, StartsOf(a)[i - 1] + k)
<1>1. k \in 0..Size(a[i])
  BY StartsLaws
<1>. QED  BY <1>1 DEF At

\* Messages accepted later change nothing before them.
LEMMA AppendKeepsStarts ==
  ASSUME NEW a \in Seq(Sent), NEW m \in Sent
  PROVE  LET b == Append(a, m)
         IN  /\ b \in Seq(Sent) /\ Len(b) = Len(a) + 1 /\ b[Len(a) + 1] = m
             /\ \A i \in 1..Len(a) : b[i] = a[i]
             /\ \A i \in 0..Len(a) : StartsOf(b)[i] = StartsOf(a)[i]
             /\ \A u, p : At(a, u, p) => At(b, u, p)
<1>. DEFINE b == Append(a, m)
            f == [i \in 1..Len(a) |-> Size(a[i]) + 1]
            g == [i \in 1..Len(b) |-> Size(b[i]) + 1]
<1>1. b \in Seq(Sent) /\ Len(b) = Len(a) + 1 /\ b[Len(a) + 1] = m
      /\ \A i \in 1..Len(a) : b[i] = a[i]
  BY AppendElements
<1>2. Len(a) \in Nat
  BY SeqElements
<1>. HIDE DEF b
<1>3. f \in [1..Len(a) -> Int] /\ g \in [1..Len(b) -> Int]
  <2>1. \A i \in 1..Len(a) : Size(a[i]) + 1 \in Int
    BY StartsLaws
  <2>2. \A i \in 1..Len(b) : Size(b[i]) + 1 \in Int
    <3>1. b \in Seq(Sent)
      BY <1>1
    <3>2. \A i \in 1..Len(b) : Size(b[i]) \in Nat
      BY <3>1, StartsLaws
    <3>. QED  BY <3>2
  <2>. QED  BY <2>1, <2>2
<1>4. \A i \in 1..Len(a) : f[i] = g[i]
  BY <1>1, <1>2
<1>5. StartsOf(a) = Partial(f) /\ StartsOf(b) = Partial(g)
  BY DEF StartsOf
<1>. HIDE DEF f, g
<1>6. f \in Seq(Int) /\ Len(f) = Len(a) /\ g \in Seq(Int) /\ Len(g) = Len(a) + 1
  <2>1. Len(b) \in Nat
    BY <1>1, <1>2
  <2>2. f \in Seq(Int) /\ Len(f) = Len(a)
    BY <1>2, <1>3, FunctionIsSeq
  <2>3. g \in Seq(Int) /\ Len(g) = Len(b)
    BY <1>3, <2>1, FunctionIsSeq
  <2>. QED  BY <1>1, <2>2, <2>3
<1>7. ASSUME NEW i \in 0..Len(a) PROVE Partial(f)[i] = Partial(g)[i]
  <2>1. i \in Nat /\ i <= Len(f) /\ i <= Len(g) /\ \A j \in 1..i : f[j] = g[j]
    BY <1>2, <1>4, <1>6, SMTT(60)
  <2>. QED  BY <1>6, <2>1, PartialAgree
<1>8. \A i \in 0..Len(a) : StartsOf(b)[i] = StartsOf(a)[i]
  BY <1>5, <1>7
<1>9. ASSUME NEW u, NEW p, At(a, u, p) PROVE At(b, u, p)
  <2>1. PICK i \in 1..Len(a) :
          \E k \in 0..Size(a[i]) : u = <<a[i], k>> /\ StartsOf(a)[i - 1] + k = p
    BY <1>9 DEF At
  <2>2. i \in 1..Len(b) /\ b[i] = a[i] /\ StartsOf(b)[i - 1] = StartsOf(a)[i - 1]
    <3>1. i - 1 \in 0..Len(a)
      BY <1>2
    <3>. QED  BY <1>1, <1>2, <1>8, <3>1
  <2>. QED  BY <2>1, <2>2 DEF At
<1>. QED  BY <1>1, <1>8, <1>9 DEF b

\* The lengths that occur in positions.
LEMMA Lengths ==
  Typed => /\ accepted \in Seq(Sent) /\ Len(accepted) \in Nat
           /\ wq \in Seq(Sent) /\ Len(wq) \in Nat
           /\ wire \in Seq(Units) /\ Len(wire) \in Nat
           /\ fq \in Seq(Seq(Units)) /\ Len(fq) \in Nat
           /\ delivered \in Seq(Seq(Units)) /\ Len(delivered) \in Nat
           /\ reader.buf \in Seq(Units) /\ Len(reader.buf) \in Nat /\ reader.len \in Nat
<1>1. Typed => /\ accepted \in Seq(Sent) /\ wq \in Seq(Sent) /\ wire \in Seq(Units)
               /\ fq \in Seq(Seq(Units)) /\ delivered \in Seq(Seq(Units))
               /\ reader.buf \in Seq(Units) /\ reader.len \in Nat
  BY DEF Typed, WriteTypes, ReadTypes, RecvTypes
<1>. QED  BY <1>1, SeqElements

\* A sender on its way to the queue has not finished, so the handles are open.
LEMMA NotDone ==
  ASSUME Typed, SendersDone, NEW s \in Senders, phase[s] = "enqueue" PROVE sendOpen
<1>1. SenderOK(s) /\ sent[s] \in Nat /\ Len(Script[s]) \in Nat
  BY MessageTypes DEF Typed, SendTypes
<1>2. sent[s] # Len(Script[s])
  BY <1>1 DEF SenderOK
<1>. QED  BY <1>2 DEF SendersDone, AllSent

\* Closed handles stay closed, with everything sent.
LEMMA SendersDoneStep ==
  ASSUME Typed, SendersDone, [Next]_vars PROVE SendersDone'
<1>. DEFINE Same == sendOpen' = sendOpen /\ sent' = sent
<1>1. CASE CloseSend
  BY <1>1 DEF CloseSend, SendersDone, AllSent, sendVars
<1>2. ASSUME NEW s \in Senders, Enqueue(s) \/ EnqueueGone(s) PROVE SendersDone'
  <2>1. sendOpen /\ sendOpen' = sendOpen
    BY <1>2, NotDone DEF Enqueue, EnqueueGone
  <2>. QED  BY <2>1 DEF SendersDone
<1>3. CASE Same
  BY <1>3 DEF SendersDone, AllSent
<1>4. ASSUME NEW s \in Senders, AcquireBlocking(s) \/ AcquireAsync(s) PROVE Same
  BY <1>4 DEF AcquireBlocking, AcquireAsync
<1>5. ASSUME NEW r \in Receivers, ReceiverStep(r) PROVE Same
  BY <1>5 DEF ReceiverStep, Recv, RecvGone, sendVars
<1>6. ASSUME WriterStep PROVE Same
  BY <1>6 DEF WriterStep, WriterTake, WriteUnit, WriteDone, WriteFails, WriterBreaks,
     WriterEnds, sendVars
<1>7. ASSUME \/ ReaderStep \/ ServerStep \/ CloseRecv \/ Stopped \/ ConnectionLost
             \/ UNCHANGED vars
      PROVE  Same
  BY <1>7 DEF ReaderStep, ServerStep, CloseRecv, Stopped, ConnectionLost, vars, sendVars,
     ReadPrefix, ReadPermit, ReadBody, ReadPush, ReaderBreaks,
     ServerTake, ServeFrame, ServeEof, ServerBreaks, ServerEnds
<1>. HIDE DEF Same
<1>. QED  BY <1>1, <1>2, <1>3, <1>4, <1>5, <1>6, <1>7 DEF Next, SenderStep

\* The tasks end for no other reasons, and the reasons stay.
LEMMA EndingsStep ==
  ASSUME Typed, Endings, [Next]_vars PROVE Endings'
<1>. DEFINE W == UNCHANGED <<writer, wq, up, reader, sendOpen>>
            S == UNCHANGED <<server, fq, reader>>
<1>0. /\ writer \in [at : {"idle", "write", "failed", "dead"}, msg : Sent \cup {<<>>}, off : Nat]
      /\ reader \in [at : {"prefix", "permit", "body", "dead"}, len : Nat, buf : Seq(Units)]
      /\ sendOpen \in BOOLEAN /\ up \in BOOLEAN
  BY DEF Typed, WriteTypes, ReadTypes
<1>1. CASE W /\ S
  BY <1>1 DEF Endings
<1>2. ASSUME NEW s \in Senders, Enqueue(s) PROVE Endings'
  BY <1>2 DEF Enqueue, Endings, readVars, recvVars
<1>3. CASE CloseSend
  BY <1>3 DEF CloseSend, Endings, readVars, recvVars
<1>4. CASE WriterTake
  <2>1. writer'.at = "write" /\ UNCHANGED <<server, fq, reader, up>>
    BY <1>4 DEF WriterTake, readVars, recvVars
  <2>. QED  BY <2>1 DEF Endings
<1>5. CASE WriteUnit
  <2>1. writer.at = "write" /\ writer'.at = "write" /\ UNCHANGED <<server, fq, reader, up>>
    BY <1>0, <1>5 DEF WriteUnit, readVars, recvVars
  <2>. QED  BY <2>1 DEF Endings
<1>6. CASE WriteDone
  <2>1. writer'.at = "idle" /\ UNCHANGED <<server, fq, reader, up>>
    BY <1>6 DEF WriteDone, readVars, recvVars, Idle
  <2>. QED  BY <2>1 DEF Endings
<1>7. CASE WriteFails
  <2>1. writer'.at = "failed" /\ (~up \/ reader.at = "dead") /\ UNCHANGED <<server, fq, reader, up>>
    BY <1>7 DEF WriteFails, readVars, recvVars, Idle
  <2>. QED  BY <2>1 DEF Endings
<1>8. CASE WriterBreaks
  <2>1. /\ writer.at = "failed" /\ writer'.at = "dead" /\ wq' = <<>>
        /\ UNCHANGED <<server, fq, reader, up>>
    BY <1>8 DEF WriterBreaks, readVars, recvVars, Idle
  <2>. QED  BY <2>1 DEF Endings
<1>9. CASE WriterEnds
  <2>1. /\ writer'.at = "dead" /\ wq = <<>> /\ wq' = wq /\ ~sendOpen /\ sendOpen' = sendOpen
        /\ UNCHANGED <<server, fq, reader, up>>
    BY <1>9 DEF WriterEnds, readVars, recvVars, Idle
  <2>. QED  BY <2>1 DEF Endings
<1>10. CASE ConnectionLost
  <2>1. ~up' /\ UNCHANGED <<server, fq, reader, writer, wq>>
    BY <1>10 DEF ConnectionLost, readVars, recvVars
  <2>. QED  BY <2>1 DEF Endings
<1>11. CASE ReadPrefix \/ ReadPermit \/ ReadBody \/ ReadPush
  <2>1. reader.at # "dead" /\ UNCHANGED <<server, writer, wq, up, sendOpen>>
    BY <1>11 DEF ReadPrefix, ReadPermit, ReadBody, ReadPush, recvVars
  <2>2. fq' = fq \/ server.at # "dead"
    BY <1>11 DEF ReadPrefix, ReadPermit, ReadBody, ReadPush
  <2>. QED  BY <2>1, <2>2 DEF Endings
<1>12. CASE ReaderBreaks
  <2>1. reader'.at = "dead" /\ UNCHANGED <<server, fq, writer, wq, up, sendOpen>>
    BY <1>12 DEF ReaderBreaks, recvVars, AtPrefix
  <2>. QED  BY <2>1 DEF Endings
<1>13. CASE ServerTake \/ ServeFrame
  <2>1. server'.at \in {"serve", "idle"} /\ W
    BY <1>13 DEF ServerTake, ServeFrame, readVars, IdleServer
  <2>. QED  BY <2>1 DEF Endings
<1>14. CASE ServeEof
  <2>1. server'.at = "failed" /\ fq = <<>> /\ reader.at = "dead" /\ fq' = fq /\ W
    BY <1>14 DEF ServeEof, readVars
  <2>. QED  BY <2>1 DEF Endings
<1>15. CASE ServerBreaks
  <2>1. server.at = "failed" /\ server'.at = "dead" /\ fq' = fq /\ W
    BY <1>15 DEF ServerBreaks, readVars
  <2>. QED  BY <2>1 DEF Endings
<1>16. CASE ServerEnds
  <2>1. server'.at = "dead" /\ fq' = <<>> /\ W
    BY <1>16 DEF ServerEnds
  <2>. QED  BY <2>1 DEF Endings
<1>17. ASSUME NEW s \in Senders, AcquireBlocking(s) \/ AcquireAsync(s) \/ EnqueueGone(s)
       PROVE  W /\ S
  BY <1>17 DEF AcquireBlocking, AcquireAsync, EnqueueGone, readVars, recvVars
<1>18. ASSUME NEW r \in Receivers, ReceiverStep(r) PROVE W /\ S
  BY <1>18 DEF ReceiverStep, Recv, RecvGone, readVars
<1>19. ASSUME CloseRecv \/ Stopped \/ UNCHANGED vars PROVE W /\ S
  BY <1>19 DEF CloseRecv, Stopped, vars, readVars, recvVars
<1>. HIDE DEF W, S
<1>. QED
  BY <1>1, <1>2, <1>3, <1>4, <1>5, <1>6, <1>7, <1>8, <1>9, <1>10, <1>11, <1>12, <1>13,
     <1>14, <1>15, <1>16, <1>17, <1>18, <1>19
     DEF Next, SenderStep, WriterStep, ReaderStep, ServerStep

\* The queue and the writer's message after any step.
LEMMA QueuedStep ==
  ASSUME Typed, Queued, [Next]_vars PROVE Queued'
<1>. DEFINE Same == UNCHANGED <<wq, accepted, writer>>
<1>0. accepted \in Seq(Sent) /\ wq \in Seq(Sent) /\ Len(accepted) \in Nat /\ Len(wq) \in Nat
      /\ Len(wq) <= Len(accepted)
  BY Lengths DEF Queued
<1>1. CASE Same
  BY <1>1 DEF Queued, Taken
<1>2. ASSUME NEW s \in Senders, Enqueue(s) PROVE Queued'
  <2>1. PICK m : m = Current(s)
    OBVIOUS
  <2>2. m \in Sent
    <3>1. SendTypes /\ SenderOK(s) /\ phase[s] = "enqueue"
      BY <1>2 DEF Enqueue, Typed, SendTypes
    <3>. QED  BY <2>1, <3>1, CurrentTypes DEF SenderOK
  <2>3. wq' = Append(wq, m) /\ accepted' = Append(accepted, m) /\ writer' = writer
    BY <1>2, <2>1 DEF Enqueue
  <2>4. PICK n \in Nat : n = Len(accepted)
    BY <1>0
  <2>5. PICK l \in Nat : l = Len(wq)
    BY <1>0
  <2>6. /\ Len(accepted') = n + 1 /\ accepted'[n + 1] = m
        /\ \A i \in 1..n : accepted'[i] = accepted[i]
    BY <1>0, <2>2, <2>3, <2>4, AppendElements
  <2>7. /\ Len(wq') = l + 1 /\ wq'[l + 1] = m
        /\ \A i \in 1..l : wq'[i] = wq[i]
    BY <1>0, <2>2, <2>3, <2>5, AppendElements
  <2>8. l <= n /\ Taken = n - l /\ Taken' = n - l
    BY <1>0, <2>4, <2>5, <2>6, <2>7 DEF Taken
  <2>9. ASSUME NEW i \in 1..l + 1 PROVE wq'[i] = accepted'[(n - l) + i]
    <3>1. CASE i = l + 1
      <4>1. (n - l) + i = n + 1
        BY <3>1
      <4>. QED  BY <2>6, <2>7, <3>1, <4>1
    <3>2. CASE i # l + 1
      <4>1. i \in 1..l /\ (n - l) + i \in 1..n
        BY <2>8, <3>2
      <4>. QED  BY <2>5, <2>6, <2>7, <2>8, <4>1 DEF Queued
    <3>. QED  BY <3>1, <3>2
  <2>10. writer.at = "write" => n - l >= 1 /\ writer.msg = accepted'[n - l]
    <3>1. SUFFICES ASSUME writer.at = "write" PROVE n - l >= 1 /\ writer.msg = accepted'[n - l]
      OBVIOUS
    <3>2. n - l >= 1 /\ writer.msg = accepted[n - l]
      BY <2>8, <3>1 DEF Queued
    <3>3. n - l \in 1..n
      BY <3>2
    <3>. QED  BY <2>6, <3>2, <3>3
  <2>. QED  BY <2>3, <2>6, <2>7, <2>8, <2>9, <2>10 DEF Queued
<1>3. CASE WriterTake
  <2>1. /\ wq # <<>> /\ wq' = Tail(wq) /\ accepted' = accepted
        /\ writer' = [at |-> "write", msg |-> Head(wq), off |-> 0]
    BY <1>3 DEF WriterTake
  <2>2. PICK l \in Nat : l = Len(wq) - 1
    BY <1>0, <2>1, TailElements, SMTT(60)
  <2>3. /\ Len(wq) = l + 1 /\ Len(wq') = l /\ Head(wq) = wq[1]
        /\ \A i \in 1..l : wq'[i] = wq[i + 1]
    BY <1>0, <2>1, <2>2, TailElements
  <2>4. PICK n \in Nat : n = Len(accepted)
    BY <1>0
  <2>5. l + 1 <= n /\ Taken = n - (l + 1) /\ Taken' = n - l
    BY <1>0, <2>1, <2>3, <2>4 DEF Taken
  <2>6. \A i \in 1..l + 1 : wq[i] = accepted[(n - (l + 1)) + i]
    BY <2>3, <2>5 DEF Queued
  <2>7. ASSUME NEW i \in 1..l PROVE wq'[i] = accepted[(n - l) + i]
    <3>1. i + 1 \in 1..l + 1 /\ (n - (l + 1)) + (i + 1) = (n - l) + i
      OBVIOUS
    <3>. QED  BY <2>3, <2>6, <3>1
  <2>8. n - l >= 1 /\ wq[1] = accepted[n - l]
    <3>1. 1 \in 1..l + 1 /\ (n - (l + 1)) + 1 = n - l
      OBVIOUS
    <3>. QED  BY <2>5, <2>6, <3>1
  <2>. QED  BY <2>1, <2>3, <2>4, <2>5, <2>7, <2>8 DEF Queued
<1>4. CASE WriteUnit
  <2>1. /\ writer.at = "write" /\ writer' = [writer EXCEPT !.off = writer.off + 1]
        /\ UNCHANGED <<wq, accepted>>
    BY <1>4 DEF WriteUnit
  <2>2. writer'.at = "write" /\ writer'.msg = writer.msg
    BY <2>1 DEF Typed, WriteTypes
  <2>. QED  BY <2>1, <2>2 DEF Queued, Taken
<1>5. CASE WriteDone \/ WriteFails
  <2>1. writer'.at # "write" /\ UNCHANGED <<wq, accepted>>
    BY <1>5 DEF WriteDone, WriteFails, Idle
  <2>. QED  BY <2>1 DEF Queued, Taken
<1>6. CASE WriterBreaks \/ WriterEnds
  <2>1. writer'.at # "write" /\ wq' = <<>> /\ accepted' = accepted
    BY <1>6 DEF WriterBreaks, WriterEnds, Idle
  <2>2. Len(wq') = 0
    BY <2>1
  <2>. QED  BY <1>0, <2>1, <2>2 DEF Queued
<1>7. ASSUME NEW s \in Senders, AcquireBlocking(s) \/ AcquireAsync(s) \/ EnqueueGone(s) PROVE Same
  BY <1>7 DEF AcquireBlocking, AcquireAsync, EnqueueGone
<1>8. ASSUME NEW r \in Receivers, ReceiverStep(r) PROVE Same
  BY <1>8 DEF ReceiverStep, Recv, RecvGone
<1>9. ASSUME \/ ReaderStep \/ ServerStep \/ CloseSend \/ CloseRecv \/ Stopped \/ ConnectionLost
             \/ UNCHANGED vars
      PROVE  Same
  BY <1>9 DEF ReaderStep, ServerStep, CloseSend, CloseRecv, Stopped, ConnectionLost, vars,
     ReadPrefix, ReadPermit, ReadBody, ReadPush, ReaderBreaks,
     ServerTake, ServeFrame, ServeEof, ServerBreaks, ServerEnds
<1>. HIDE DEF Same
<1>. QED
  BY <1>1, <1>2, <1>3, <1>4, <1>5, <1>6, <1>7, <1>8, <1>9 DEF Next, SenderStep, WriterStep

\* Frames are completed, handed out or dropped; the order is kept.
LEMMA FramedStep ==
  ASSUME Typed, Framed, Streaming, [Next]_vars PROVE Framed'
<1>. DEFINE Same == UNCHANGED <<accepted, delivered, fq>>
<1>0. PICK n \in Nat, d \in Nat, f \in Nat :
        n = Len(accepted) /\ d = Len(delivered) /\ f = Len(fq) /\ d + f <= n
  <2>1. Len(accepted) \in Nat /\ Len(delivered) \in Nat /\ Len(fq) \in Nat
    BY Lengths
  <2>2. Len(delivered) + Len(fq) <= Len(accepted)
    BY DEF Framed, Handled
  <2>. QED  BY <2>1, <2>2
<1>00. /\ accepted \in Seq(Sent) /\ delivered \in Seq(Seq(Units)) /\ fq \in Seq(Seq(Units))
       /\ \A i \in 1..d : delivered[i] = Frame(accepted[i])
       /\ \A i \in 1..f : fq[i] = Frame(accepted[d + i])
  BY <1>0, Lengths DEF Framed
<1>1. CASE Same
  BY <1>1 DEF Framed, Handled
<1>2. ASSUME NEW s \in Senders, Enqueue(s) PROVE Framed'
  <2>1. PICK m : m = Current(s)
    OBVIOUS
  <2>2. m \in Sent
    <3>1. SendTypes /\ SenderOK(s) /\ phase[s] = "enqueue"
      BY <1>2 DEF Enqueue, Typed, SendTypes
    <3>. QED  BY <2>1, <3>1, CurrentTypes DEF SenderOK
  <2>3. accepted' = Append(accepted, m) /\ delivered' = delivered /\ fq' = fq
    BY <1>2, <2>1 DEF Enqueue, readVars
  <2>4. Len(accepted') = n + 1 /\ \A i \in 1..n : accepted'[i] = accepted[i]
    BY <1>0, <1>00, <2>2, <2>3, AppendElements
  <2>5. \A i \in 1..d : i \in 1..n
    BY <1>0
  <2>6. \A i \in 1..f : d + i \in 1..n
    BY <1>0
  <2>7. \A i \in 1..d : delivered[i] = Frame(accepted'[i])
    BY <1>00, <2>4, <2>5
  <2>8. \A i \in 1..f : fq[i] = Frame(accepted'[d + i])
    BY <1>00, <2>4, <2>6
  <2>. QED  BY <1>0, <2>3, <2>4, <2>7, <2>8 DEF Framed, Handled
<1>3. CASE ReadPush
  <2>1. /\ reader.at = "body" /\ Len(reader.buf) = reader.len /\ Live
        /\ fq' = Append(fq, reader.buf) /\ UNCHANGED <<accepted, delivered>>
    BY <1>3 DEF ReadPush, Live
  <2>2. Reading
    BY <2>1 DEF Streaming
  <2>3. PICK m : m = accepted[d + f + 1]
    OBVIOUS
  <2>4. /\ d + f + 1 <= n /\ reader.len = Size(m)
        /\ \A i \in 1..Len(reader.buf) : reader.buf[i] = <<m, i>>
    BY <1>0, <2>1, <2>2, <2>3 DEF Reading, Handled
  <2>5. reader.buf = Frame(m)
    <3>1. reader.buf \in Seq(Units) /\ Len(reader.buf) = Size(m)
      BY <2>1, <2>4, Lengths
    <3>2. PICK b : b = reader.buf
      OBVIOUS
    <3>3. b = [i \in 1..Len(b) |-> b[i]]
      BY <3>1, <3>2
    <3>4. \A i \in 1..Len(b) : b[i] = <<m, i>>
      BY <2>4, <3>2
    <3>5. b = [i \in 1..Len(b) |-> <<m, i>>]
      BY <3>3, <3>4
    <3>. QED  BY <3>1, <3>2, <3>5 DEF Frame
  <2>6. Len(fq') = f + 1 /\ fq'[f + 1] = Frame(m) /\ \A i \in 1..f : fq'[i] = fq[i]
    <3>1. reader.buf \in Seq(Units)
      BY Lengths
    <3>. QED  BY <1>0, <1>00, <2>1, <2>5, <3>1, AppendElements
  <2>7. ASSUME NEW i \in 1..f + 1 PROVE fq'[i] = Frame(accepted[d + i])
    <3>1. CASE i = f + 1
      <4>1. d + i = d + f + 1
        BY <3>1
      <4>. QED  BY <2>3, <2>6, <3>1, <4>1
    <3>2. CASE i # f + 1
      <4>1. i \in 1..f
        BY <3>2
      <4>. QED  BY <1>00, <2>6, <4>1
    <3>. QED  BY <3>1, <3>2
  <2>8. d + (f + 1) <= n
    BY <2>4
  <2>. QED  BY <1>0, <1>00, <2>1, <2>6, <2>7, <2>8 DEF Framed, Handled
<1>4. CASE ServeFrame
  <2>1. fq # <<>> /\ delivered' = Append(delivered, Head(fq)) /\ fq' = Tail(fq) /\ accepted' = accepted
    BY <1>4 DEF ServeFrame
  <2>2. /\ f >= 1 /\ Len(fq') = f - 1 /\ Head(fq) = fq[1] /\ Head(fq) \in Seq(Units)
        /\ \A i \in 1..f - 1 : fq'[i] = fq[i + 1]
    BY <1>0, <1>00, <2>1, TailElements
  <2>3. /\ Len(delivered') = d + 1 /\ delivered'[d + 1] = Head(fq)
        /\ \A i \in 1..d : delivered'[i] = delivered[i]
    BY <1>0, <1>00, <2>1, <2>2, AppendElements
  <2>4. ASSUME NEW i \in 1..d + 1 PROVE delivered'[i] = Frame(accepted[i])
    <3>1. CASE i = d + 1
      <4>1. 1 \in 1..f
        BY <2>2
      <4>. QED  BY <1>00, <2>2, <2>3, <3>1, <4>1
    <3>2. CASE i # d + 1
      <4>1. i \in 1..d
        BY <3>2
      <4>. QED  BY <1>00, <2>3, <4>1
    <3>. QED  BY <3>1, <3>2
  <2>5. ASSUME NEW i \in 1..f - 1 PROVE fq'[i] = Frame(accepted[(d + 1) + i])
    <3>1. i + 1 \in 1..f /\ d + (i + 1) = (d + 1) + i
      BY <2>2
    <3>. QED  BY <1>00, <2>2, <3>1
  <2>6. (d + 1) + (f - 1) <= n
    BY <1>0
  <2>. QED  BY <1>0, <2>1, <2>2, <2>3, <2>4, <2>5, <2>6 DEF Framed, Handled
<1>5. CASE ServerEnds
  <2>1. fq' = <<>> /\ UNCHANGED <<accepted, delivered>>
    BY <1>5 DEF ServerEnds
  <2>2. Len(fq') = 0
    BY <2>1
  <2>3. d + 0 <= n
    BY <1>0
  <2>. QED  BY <1>0, <1>00, <2>1, <2>2, <2>3 DEF Framed, Handled
<1>6. ASSUME NEW s \in Senders, AcquireBlocking(s) \/ AcquireAsync(s) \/ EnqueueGone(s) PROVE Same
  BY <1>6 DEF AcquireBlocking, AcquireAsync, EnqueueGone, readVars
<1>7. ASSUME NEW r \in Receivers, ReceiverStep(r) PROVE Same
  BY <1>7 DEF ReceiverStep, Recv, RecvGone, readVars
<1>8. ASSUME WriterStep PROVE Same
  BY <1>8 DEF WriterStep, WriterTake, WriteUnit, WriteDone, WriteFails, WriterBreaks,
     WriterEnds, readVars
<1>9. ASSUME \/ ReadPrefix \/ ReadPermit \/ ReadBody \/ ReaderBreaks
             \/ ServerTake \/ ServeEof \/ ServerBreaks
             \/ CloseSend \/ CloseRecv \/ Stopped \/ ConnectionLost \/ UNCHANGED vars
      PROVE  Same
  BY <1>9 DEF CloseSend, CloseRecv, Stopped, ConnectionLost, vars, readVars,
     ReadPrefix, ReadPermit, ReadBody, ReaderBreaks, ServerTake, ServeEof, ServerBreaks
<1>. HIDE DEF Same
<1>. QED
  BY <1>1, <1>2, <1>3, <1>4, <1>5, <1>6, <1>7, <1>8, <1>9 DEF Next, SenderStep, ReaderStep, ServerStep

\* Where the two ends of the stream can be.
LEMMA Positions ==
  ASSUME Typed, Queued, Framed
  PROVE  /\ Handled \in 0..Len(accepted) /\ Taken \in 0..Len(accepted)
         /\ writer.at = "write" => Taken \in 1..Len(accepted)
         /\ StartsOf(accepted) \in [0..Len(accepted) -> Nat]
         /\ ReadPos \in Nat /\ WritePos \in Nat
<1>1. PICK n \in Nat, l \in Nat, d \in Nat, f \in Nat, b \in Nat :
        /\ n = Len(accepted) /\ l = Len(wq) /\ d = Len(delivered) /\ f = Len(fq)
        /\ b = Len(reader.buf)
  BY Lengths
<1>2. Handled \in 0..n
  BY <1>1 DEF Handled, Framed
<1>3. Taken \in 0..n /\ (writer.at = "write" => Taken \in 1..n)
  BY <1>1 DEF Taken, Queued
<1>4. StartsOf(accepted) \in [0..n -> Nat]
  BY <1>1, Lengths, StartsLaws
<1>5. PICK st : st = StartsOf(accepted)
  OBVIOUS
<1>6. ReadPos \in Nat
  <2>1. st[Handled] \in Nat
    BY <1>2, <1>4, <1>5
  <2>. QED  BY <1>1, <1>5, <2>1 DEF ReadPos
<1>7. WritePos \in Nat
  <2>1. CASE writer.at = "write"
    <3>1. Taken - 1 \in 0..n
      BY <1>3, <2>1
    <3>2. st[Taken - 1] \in Nat /\ writer.off \in Nat
      BY <1>4, <1>5, <3>1 DEF Typed, WriteTypes
    <3>. QED  BY <1>5, <2>1, <3>2 DEF WritePos
  <2>2. CASE writer.at # "write"
    BY <1>3, <1>4, <1>5, <2>2 DEF WritePos
  <2>. QED  BY <2>1, <2>2
<1>. QED  BY <1>1, <1>2, <1>3, <1>4, <1>6, <1>7

\* Steps that leave the stream and the reader alone.
LEMMA StreamRests ==
  ASSUME Reading, OnWire, UNCHANGED <<accepted, wire, reader>>, Handled' = Handled
  PROVE  Reading' /\ OnWire' /\ ReadPos' = ReadPos
<1>1. ReadPos' = ReadPos
  BY DEF ReadPos
<1>2. Reading'
  BY DEF Reading
<1>3. OnWire'
  BY <1>1 DEF OnWire
<1>. QED  BY <1>1, <1>2, <1>3

\* The writer puts the units of the accepted messages on the wire in order.
LEMMA StreamWrites ==
  ASSUME Typed, Endings, Queued, Framed, Reading, OnWire, InStep,
         reader.at # "dead", WriterStep
  PROVE  Reading' /\ OnWire' /\ InStep'
<1>0. PICK n \in Nat, l \in Nat, w \in Nat, t \in Nat, p \in Nat, q \in Nat :
        /\ n = Len(accepted) /\ l = Len(wq) /\ w = Len(wire) /\ t = Taken /\ p = ReadPos
        /\ q = WritePos
  <2>1. Len(accepted) \in Nat /\ Len(wq) \in Nat /\ Len(wire) \in Nat
    BY Lengths
  <2>2. Taken \in Nat /\ ReadPos \in Nat /\ WritePos \in Nat
    BY <2>1, Positions
  <2>. QED  BY <2>1, <2>2
<1>1. PICK st : st = StartsOf(accepted)
  OBVIOUS
<1>2. /\ t = n - l /\ t <= n /\ st \in [0..n -> Nat] /\ (writer.at = "write" => t \in 1..n)
      /\ accepted \in Seq(Sent) /\ (up => p + w = q)
  BY <1>0, <1>1, Lengths, Positions DEF Taken, InStep
<1>3. reader' = reader /\ Handled' = Handled /\ up' = up /\ accepted' = accepted
  BY DEF WriterStep, WriterTake, WriteUnit, WriteDone, WriteFails, WriterBreaks, WriterEnds,
     readVars, Handled
<1>4. CASE WriterTake
  <2>1. wq # <<>> /\ wq' = Tail(wq) /\ writer.at = "idle" /\ writer'.at = "write" /\ writer'.off = 0
        /\ wire' = wire
    BY <1>4 DEF WriterTake
  <2>2. Len(wq') = l - 1
    BY <1>0, <2>1, Lengths, TailElements
  <2>3. Taken' = t + 1
    BY <1>0, <1>2, <1>3, <2>2 DEF Taken
  <2>4. q = st[t]
    BY <1>0, <1>1, <2>1 DEF WritePos
  <2>5. st[t] \in Nat
    BY <1>2
  <2>6. WritePos' = st[(t + 1) - 1] + 0
    BY <1>1, <1>3, <2>1, <2>3 DEF WritePos
  <2>7. (t + 1) - 1 = t
    OBVIOUS
  <2>8. WritePos' = q
    BY <2>4, <2>5, <2>6, <2>7
  <2>. QED  BY <1>0, <1>2, <1>3, <2>1, <2>8, StreamRests DEF InStep
<1>5. CASE WriteUnit
  <2>1. /\ writer.at = "write" /\ writer.off <= Size(writer.msg) /\ up
        /\ wire' = Append(wire, <<writer.msg, writer.off>>) /\ wq' = wq
        /\ writer' = [writer EXCEPT !.off = writer.off + 1]
    BY <1>5 DEF WriteUnit
  <2>2. writer'.at = "write" /\ writer'.off = writer.off + 1 /\ writer.off \in Nat
    BY <2>1 DEF Typed, WriteTypes
  <2>3. PICK o \in Nat : o = writer.off
    BY <2>2
  <2>4. t \in 1..n /\ writer.msg = accepted[t] /\ o <= Size(accepted[t])
    BY <1>0, <1>2, <2>1, <2>3 DEF Queued
  <2>5. PICK c \in Nat : c = st[t - 1]
    <3>1. t - 1 \in 0..n
      BY <2>4
    <3>. QED  BY <1>2, <3>1
  <2>6. q = c + o
    BY <1>0, <1>1, <2>1, <2>3, <2>5 DEF WritePos
  <2>7. Taken' = t
    BY <1>0, <1>3, <2>1 DEF Taken
  <2>8. WritePos' = c + (o + 1)
    BY <1>1, <1>3, <2>2, <2>3, <2>5, <2>7 DEF WritePos
  <2>9. ReadPos' = p
    BY <1>0, <1>3 DEF ReadPos
  <2>10. At(accepted, <<accepted[t], o>>, c + o)
    BY <1>0, <1>1, <1>2, <2>4, <2>5, AtThere
  <2>11. <<writer.msg, writer.off>> \in Units
    BY <2>1, <2>2 DEF Typed, WriteTypes, Units
  <2>12. /\ Len(wire') = w + 1 /\ wire'[w + 1] = <<accepted[t], o>>
         /\ \A j \in 1..w : wire'[j] = wire[j]
    BY <1>0, <2>1, <2>3, <2>4, <2>11, Lengths, AppendElements, SMTT(60)
  <2>13. ASSUME NEW j \in 1..w + 1 PROVE At(accepted, wire'[j], p + (j - 1))
    <3>1. CASE j = w + 1
      <4>1. p + (j - 1) = c + o
        BY <1>2, <2>1, <2>6, <3>1
      <4>. QED  BY <2>10, <2>12, <3>1, <4>1
    <3>2. CASE j # w + 1
      <4>1. j \in 1..w
        BY <3>2
      <4>. QED  BY <1>0, <2>12, <4>1 DEF OnWire
    <3>. QED  BY <3>1, <3>2
  <2>14. OnWire'
    BY <1>3, <2>9, <2>12, <2>13 DEF OnWire
  <2>15. p + (w + 1) = c + (o + 1)
    <3>1. p + w = c + o
      BY <1>2, <2>1, <2>6
    <3>. QED  BY <3>1
  <2>16. InStep'
    BY <2>8, <2>9, <2>12, <2>15 DEF InStep
  <2>17. Reading'
    BY <1>3 DEF Reading
  <2>. QED  BY <2>14, <2>16, <2>17
<1>6. CASE WriteDone
  <2>1. writer.at = "write" /\ writer.off > Size(writer.msg) /\ writer'.at = "idle"
        /\ wq' = wq /\ wire' = wire
    BY <1>6 DEF WriteDone, Idle
  <2>2. t \in 1..n /\ writer.msg = accepted[t]
    BY <1>0, <1>2, <2>1 DEF Queued
  <2>3. PICK z \in Nat : z = Size(accepted[t])
    BY <1>0, <1>2, <2>2, StartsLaws
  <2>4. writer.off = z + 1
    BY <2>1, <2>2, <2>3 DEF Typed, WriteTypes
  <2>5. PICK c \in Nat : c = st[t - 1]
    <3>1. t - 1 \in 0..n
      BY <2>2
    <3>. QED  BY <1>2, <3>1
  <2>6. st[t] = c + z + 1
    BY <1>0, <1>1, <1>2, <2>2, <2>3, <2>5, StartsLaws
  <2>7. q = c + (z + 1)
    BY <1>0, <1>1, <2>1, <2>4, <2>5 DEF WritePos
  <2>8. Taken' = t
    BY <1>0, <1>3, <2>1 DEF Taken
  <2>9. WritePos' = st[t]
    BY <1>1, <1>3, <2>1, <2>8 DEF WritePos
  <2>10. WritePos' = q
    BY <2>6, <2>7, <2>9
  <2>. QED  BY <1>0, <1>2, <1>3, <2>1, <2>10, StreamRests DEF InStep
<1>7. CASE WriteFails \/ WriterBreaks
  <2>1. ~up /\ wire' = wire
    BY <1>7 DEF WriteFails, WriterBreaks, Endings
  <2>. QED  BY <1>3, <2>1, StreamRests DEF InStep
<1>8. CASE WriterEnds
  <2>1. writer.at = "idle" /\ writer'.at = "dead" /\ wq' = wq /\ wire' = wire
    BY <1>8 DEF WriterEnds, Idle
  <2>2. WritePos' = WritePos
    BY <1>3, <2>1 DEF WritePos, Taken
  <2>. QED  BY <1>3, <2>1, <2>2, StreamRests DEF InStep
<1>. QED  BY <1>4, <1>5, <1>6, <1>7, <1>8 DEF WriterStep

\* The reader takes the units off the wire in order, and they are the frame
\* that comes next.
LEMMA StreamReads ==
  ASSUME Typed, Queued, Framed, Reading, OnWire, InStep,
         ReadPrefix \/ ReadPermit \/ ReadBody \/ ReadPush
  PROVE  Reading' /\ OnWire' /\ InStep'
<1>0. PICK n \in Nat, h \in Nat, w \in Nat, b \in Nat, p \in Nat :
        /\ n = Len(accepted) /\ h = Handled /\ w = Len(wire) /\ b = Len(reader.buf) /\ p = ReadPos
  <2>1. Len(accepted) \in Nat /\ Len(reader.buf) \in Nat /\ Len(wire) \in Nat
    BY Lengths
  <2>2. Handled \in Nat /\ ReadPos \in Nat
    BY <2>1, Positions
  <2>. QED  BY <2>1, <2>2
<1>1. PICK st : st = StartsOf(accepted)
  OBVIOUS
<1>2. h <= n /\ st \in [0..n -> Nat] /\ accepted \in Seq(Sent) /\ h \in 0..n
  BY <1>0, <1>1, Lengths, Positions
<1>3. PICK c \in Nat : c = st[h]
  BY <1>2
<1>4. accepted' = accepted /\ WritePos' = WritePos /\ up' = up
  BY DEF ReadPrefix, ReadPermit, ReadBody, ReadPush, WritePos, Taken
<1>5. PICK q \in Nat : q = WritePos /\ (up => p + w = q)
  BY <1>0, Positions DEF InStep
<1>6. reader \in [at : {"prefix", "permit", "body", "dead"}, len : Nat, buf : Seq(Units)]
  BY DEF Typed, ReadTypes
<1>7. ASSUME wire # <<>>, wire' = Tail(wire), ReadPos' = p + 1
      PROVE  /\ At(accepted, Head(wire), p) /\ OnWire' /\ InStep' /\ Head(wire) \in Units
  <2>1. /\ w >= 1 /\ Len(wire') = w - 1 /\ Head(wire) = wire[1] /\ Head(wire) \in Units
        /\ \A j \in 1..w - 1 : wire'[j] = wire[j + 1]
    BY <1>0, <1>7, Lengths, TailElements
  <2>2. \A j \in 1..w : At(accepted, wire[j], p + (j - 1))
    BY <1>0 DEF OnWire
  <2>3. At(accepted, Head(wire), p)
    <3>1. 1 \in 1..w /\ p + (1 - 1) = p
      BY <2>1
    <3>. QED  BY <2>1, <2>2, <3>1
  <2>4. ASSUME NEW j \in 1..w - 1 PROVE At(accepted, wire'[j], (p + 1) + (j - 1))
    <3>1. j + 1 \in 1..w /\ p + ((j + 1) - 1) = (p + 1) + (j - 1)
      OBVIOUS
    <3>. QED  BY <2>1, <2>2, <3>1
  <2>5. OnWire'
    BY <1>4, <1>7, <2>1, <2>4 DEF OnWire
  <2>6. up => (p + 1) + (w - 1) = q
    BY <1>5
  <2>7. InStep'
    BY <1>4, <1>5, <1>7, <2>1, <2>6 DEF InStep
  <2>. QED  BY <2>1, <2>3, <2>5, <2>7
<1>8. CASE ReadPrefix
  <2>1. /\ reader.at = "prefix" /\ wire # <<>> /\ wire' = Tail(wire)
        /\ reader' = [at |-> "permit", len |-> Size(Head(wire)[1]), buf |-> <<>>]
        /\ UNCHANGED <<fq, delivered>>
    BY <1>8 DEF ReadPrefix
  <2>2. Handled' = h
    BY <1>0, <2>1 DEF Handled
  <2>3. p = c /\ p = c + 0
    BY <1>0, <1>1, <1>3, <2>1 DEF ReadPos
  <2>4. reader'.at = "permit" /\ reader'.len = Size(Head(wire)[1]) /\ Len(reader'.buf) = 0
    BY <2>1
  <2>5. ReadPos' = p + 1
    <3>1. ReadPos' = st[h] + (1 + 0)
      BY <1>1, <1>4, <2>2, <2>4 DEF ReadPos
    <3>2. c + (1 + 0) = c + 1
      OBVIOUS
    <3>. QED  BY <1>3, <2>3, <3>1, <3>2
  <2>6. At(accepted, Head(wire), c + 0) /\ OnWire' /\ InStep'
    BY <1>7, <2>1, <2>3, <2>5
  <2>7. h < n /\ Head(wire) = <<accepted[h + 1], 0>>
    <3>1. h < n => 0 <= Size(accepted[h + 1])
      <4>1. h < n => h + 1 \in 1..n
        BY <1>2
      <4>2. h < n => Size(accepted[h + 1]) \in Nat
        BY <1>0, <1>2, <4>1, StartsLaws
      <4>. QED  BY <4>2
    <3>2. PICK z \in Nat : z = 0
      OBVIOUS
    <3>3. At(accepted, Head(wire), StartsOf(accepted)[h] + z)
      BY <1>1, <1>3, <2>6, <3>2
    <3>4. h < n /\ Head(wire) = <<accepted[h + 1], z>>
      BY <1>0, <1>2, <3>1, <3>2, <3>3, AtHere
    <3>. QED  BY <3>2, <3>4
  <2>8. Reading'
    <3>1. h + 1 <= n /\ reader'.len = Size(accepted[h + 1])
      BY <2>4, <2>7
    <3>2. 1..Len(reader'.buf) = {}
      BY <2>4
    <3>. QED  BY <1>0, <1>4, <2>2, <3>1, <3>2 DEF Reading
  <2>. QED  BY <2>6, <2>8
<1>9. CASE ReadPermit
  <2>1. /\ reader.at = "permit" /\ reader' = [reader EXCEPT !.at = "body"]
        /\ UNCHANGED <<fq, delivered, wire>>
    BY <1>9 DEF ReadPermit
  <2>2. reader'.at = "body" /\ reader'.len = reader.len /\ reader'.buf = reader.buf
    BY <1>6, <2>1
  <2>3. Handled' = Handled
    BY <2>1 DEF Handled
  <2>4. ReadPos' = ReadPos
    BY <1>4, <2>1, <2>2, <2>3 DEF ReadPos
  <2>5. Reading'
    BY <1>4, <2>1, <2>2, <2>3 DEF Reading
  <2>6. OnWire' /\ InStep'
    BY <1>4, <2>1, <2>4 DEF OnWire, InStep
  <2>. QED  BY <2>5, <2>6
<1>10. CASE ReadBody
  <2>1. /\ reader.at = "body" /\ Len(reader.buf) < reader.len /\ wire # <<>> /\ wire' = Tail(wire)
        /\ reader' = [reader EXCEPT !.buf = Append(reader.buf, Head(wire))]
        /\ UNCHANGED <<fq, delivered>>
    BY <1>10 DEF ReadBody
  <2>2. /\ reader'.at = "body" /\ reader'.len = reader.len
        /\ reader'.buf = Append(reader.buf, Head(wire))
    BY <1>6, <2>1
  <2>3. Handled' = h
    BY <1>0, <2>1 DEF Handled
  <2>4. PICK m : m = accepted[h + 1]
    OBVIOUS
  <2>5. /\ h + 1 <= n /\ reader.len = Size(m)
        /\ \A i \in 1..b : reader.buf[i] = <<m, i>>
    BY <1>0, <2>1, <2>4 DEF Reading
  <2>6. p = c + (1 + b)
    BY <1>0, <1>1, <1>3, <2>1 DEF ReadPos
  <2>7. Head(wire) \in Units /\ reader.buf \in Seq(Units)
    BY <1>6, <2>1, Lengths, TailElements
  <2>8. /\ Len(reader'.buf) = b + 1 /\ reader'.buf[b + 1] = Head(wire)
        /\ \A i \in 1..b : reader'.buf[i] = reader.buf[i]
    BY <1>0, <2>2, <2>7, AppendElements
  <2>9. ReadPos' = p + 1
    <3>1. ReadPos' = st[h] + (1 + (b + 1))
      BY <1>1, <1>4, <2>2, <2>3, <2>8 DEF ReadPos
    <3>. QED  BY <1>3, <2>6, <3>1
  <2>10. At(accepted, Head(wire), p) /\ OnWire' /\ InStep'
    BY <1>7, <2>1, <2>9
  <2>11. Head(wire) = <<m, b + 1>>
    <3>1. PICK k \in Nat : k = 1 + b
      OBVIOUS
    <3>2. At(accepted, Head(wire), StartsOf(accepted)[h] + k)
      BY <1>1, <1>3, <2>6, <2>10, <3>1
    <3>3. h < n /\ k <= Size(accepted[h + 1])
      <4>1. PICK z \in Nat : z = reader.len
        BY <1>6
      <4>2. b < z /\ z = Size(accepted[h + 1])
        BY <1>0, <2>1, <2>4, <2>5, <4>1
      <4>. QED  BY <2>5, <3>1, <4>2
    <3>4. Head(wire) = <<accepted[h + 1], k>>
      BY <1>0, <1>2, <3>2, <3>3, AtHere
    <3>5. k = b + 1
      BY <3>1
    <3>. QED  BY <2>4, <3>4, <3>5
  <2>12. ASSUME NEW i \in 1..b + 1 PROVE reader'.buf[i] = <<m, i>>
    <3>1. CASE i = b + 1
      BY <2>8, <2>11, <3>1
    <3>2. CASE i # b + 1
      <4>1. i \in 1..b
        BY <3>2
      <4>. QED  BY <2>5, <2>8, <4>1
    <3>. QED  BY <3>1, <3>2
  <2>13. Reading'
    BY <1>0, <1>4, <2>2, <2>3, <2>4, <2>5, <2>8, <2>12 DEF Reading
  <2>. QED  BY <2>10, <2>13
<1>11. CASE ReadPush
  <2>1. /\ reader.at = "body" /\ Len(reader.buf) = reader.len
        /\ fq' = Append(fq, reader.buf) /\ reader' = AtPrefix /\ UNCHANGED <<delivered, wire>>
    BY <1>11 DEF ReadPush
  <2>2. reader'.at = "prefix"
    BY <2>1 DEF AtPrefix
  <2>3. Handled' = h + 1
    <3>1. fq \in Seq(Seq(Units)) /\ reader.buf \in Seq(Units) /\ Len(fq) \in Nat /\ Len(delivered) \in Nat
      BY Lengths
    <3>2. Len(fq') = Len(fq) + 1
      BY <2>1, <3>1, AppendElements
    <3>3. Len(delivered) + (Len(fq) + 1) = (Len(delivered) + Len(fq)) + 1
      BY <3>1
    <3>. QED  BY <1>0, <2>1, <3>2, <3>3 DEF Handled
  <2>4. h + 1 \in 1..n /\ b = Size(accepted[h + 1]) /\ (h + 1) - 1 = h
    <3>1. h + 1 <= n /\ b = Size(accepted[h + 1])
      BY <1>0, <2>1 DEF Reading
    <3>. QED  BY <3>1
  <2>5. st[h + 1] = c + b + 1
    <3>1. st[h + 1] = st[(h + 1) - 1] + Size(accepted[h + 1]) + 1
      BY <1>0, <1>1, <1>2, <2>4, StartsLaws
    <3>. QED  BY <1>3, <2>4, <3>1
  <2>6. p = c + (1 + b)
    BY <1>0, <1>1, <1>3, <2>1 DEF ReadPos
  <2>7. ReadPos' = c + b + 1
    <3>1. ReadPos' = st[h + 1] + 0
      BY <1>1, <1>4, <2>2, <2>3 DEF ReadPos
    <3>. QED  BY <2>5, <3>1
  <2>8. ReadPos' = p
    BY <2>6, <2>7
  <2>9. OnWire' /\ InStep'
    BY <1>0, <1>4, <2>1, <2>8 DEF OnWire, InStep
  <2>10. Reading'
    BY <2>2 DEF Reading
  <2>. QED  BY <2>9, <2>10
<1>. QED  BY <1>8, <1>9, <1>10, <1>11

\* A frame handed out was completed before.
LEMMA ServeHands ==
  ASSUME Typed, ServeFrame PROVE Handled' = Handled
<1>1. fq # <<>> /\ delivered' = Append(delivered, Head(fq)) /\ fq' = Tail(fq)
  BY DEF ServeFrame
<1>2. fq \in Seq(Seq(Units)) /\ delivered \in Seq(Seq(Units)) /\ Len(delivered) \in Nat
  BY Lengths
<1>3. PICK f \in Nat : f = Len(fq)
  BY <1>2, Lengths
<1>4. Len(fq') = f - 1 /\ Head(fq) \in Seq(Units)
  BY <1>1, <1>2, <1>3, TailElements
<1>5. Len(delivered') = Len(delivered) + 1
  BY <1>1, <1>2, <1>4, AppendElements
<1>6. (Len(delivered) + 1) + (f - 1) = Len(delivered) + f
  BY <1>2
<1>. QED  BY <1>3, <1>4, <1>5, <1>6 DEF Handled

\* Steps of others keep the stream together.
LEMMA StreamingStep ==
  ASSUME Typed, Endings, Queued, Framed, Streaming, [Next]_vars PROVE Streaming'
<1>. DEFINE Same == /\ UNCHANGED <<accepted, wq, writer, wire, up, reader>> /\ Handled' = Handled
                    /\ server.at = "dead" => server'.at = "dead"
<1>1. CASE Same
  <2>1. SUFFICES ASSUME Live' PROVE Reading' /\ OnWire' /\ InStep'
    BY DEF Streaming
  <2>2. Live
    BY <1>1, <2>1 DEF Live
  <2>3. Reading /\ OnWire /\ InStep
    BY <2>2 DEF Streaming
  <2>4. Reading' /\ OnWire' /\ ReadPos' = ReadPos
    BY <1>1, <2>3, StreamRests
  <2>5. WritePos' = WritePos
    BY <1>1 DEF WritePos, Taken
  <2>. QED  BY <1>1, <2>3, <2>4, <2>5 DEF InStep
<1>2. ASSUME NEW s \in Senders, Enqueue(s) PROVE Streaming'
  <2>1. SUFFICES ASSUME Live' PROVE Reading' /\ OnWire' /\ InStep'
    BY DEF Streaming
  <2>2. PICK m : m = Current(s)
    OBVIOUS
  <2>3. m \in Sent
    <3>1. SendTypes /\ SenderOK(s) /\ phase[s] = "enqueue"
      BY <1>2 DEF Enqueue, Typed, SendTypes
    <3>. QED  BY <2>2, <3>1, CurrentTypes DEF SenderOK
  <2>4. /\ wq' = Append(wq, m) /\ accepted' = Append(accepted, m)
        /\ UNCHANGED <<writer, wire, up, reader, server, fq, delivered>>
    BY <1>2, <2>2 DEF Enqueue, readVars, recvVars
  <2>5. Live /\ Reading /\ OnWire /\ InStep
    BY <2>1, <2>4 DEF Live, Streaming
  <2>6. PICK n \in Nat, l \in Nat, h \in Nat : n = Len(accepted) /\ l = Len(wq) /\ h = Handled
    <3>1. Len(accepted) \in Nat /\ Len(wq) \in Nat
      BY Lengths
    <3>. QED  BY <3>1, Positions
  <2>7. /\ Len(accepted') = n + 1 /\ Len(wq') = l + 1
        /\ \A i \in 1..n : accepted'[i] = accepted[i]
        /\ \A i \in 0..n : StartsOf(accepted')[i] = StartsOf(accepted)[i]
        /\ \A u, p : At(accepted, u, p) => At(accepted', u, p)
    <3>1. accepted \in Seq(Sent) /\ wq \in Seq(Sent)
      BY Lengths
    <3>2. Len(wq') = l + 1
      BY <2>3, <2>4, <2>6, <3>1, AppendElements
    <3>. QED  BY <2>3, <2>4, <2>6, <3>1, <3>2, AppendKeepsStarts
  <2>8. Handled' = h /\ h \in 0..n
    BY <2>4, <2>6, Positions DEF Handled
  <2>9. Taken = n - l /\ Taken' = n - l /\ n - l \in 0..n
    <3>1. Taken = n - l
      BY <2>6 DEF Taken
    <3>2. Taken' = (n + 1) - (l + 1)
      BY <2>7 DEF Taken
    <3>3. (n + 1) - (l + 1) = n - l
      OBVIOUS
    <3>. QED  BY <2>6, <3>1, <3>2, <3>3, Positions
  <2>10. ReadPos' = ReadPos
    BY <2>4, <2>6, <2>7, <2>8 DEF ReadPos
  <2>11. WritePos' = WritePos
    <3>1. CASE writer.at = "write"
      <4>1. n - l >= 1
        BY <2>9, <3>1 DEF Queued
      <4>2. (n - l) - 1 \in 0..n
        BY <2>9, <4>1
      <4>. QED  BY <2>4, <2>7, <2>9, <3>1, <4>2 DEF WritePos
    <3>2. CASE writer.at # "write"
      BY <2>4, <2>7, <2>9, <3>2 DEF WritePos
    <3>. QED  BY <3>1, <3>2
  <2>12. Reading'
    <3>1. SUFFICES ASSUME reader.at # "prefix"
                   PROVE  /\ h + 1 <= n + 1 /\ reader.len = Size(accepted'[h + 1])
                          /\ \A i \in 1..Len(reader.buf) : reader.buf[i] = <<accepted'[h + 1], i>>
      BY <2>4, <2>7, <2>8 DEF Reading
    <3>2. /\ h + 1 <= n /\ reader.len = Size(accepted[h + 1])
          /\ \A i \in 1..Len(reader.buf) : reader.buf[i] = <<accepted[h + 1], i>>
      BY <2>5, <2>6, <3>1 DEF Reading
    <3>3. h + 1 \in 1..n
      BY <3>2
    <3>. QED  BY <2>7, <3>2, <3>3
  <2>13. OnWire'
    BY <2>4, <2>5, <2>7, <2>10 DEF OnWire
  <2>14. InStep'
    BY <2>4, <2>5, <2>10, <2>11 DEF InStep
  <2>. QED  BY <2>12, <2>13, <2>14
<1>3. CASE WriterStep
  <2>1. SUFFICES ASSUME Live' PROVE Reading' /\ OnWire' /\ InStep'
    BY DEF Streaming
  <2>2. reader' = reader /\ server' = server
    BY <1>3 DEF WriterStep, WriterTake, WriteUnit, WriteDone, WriteFails, WriterBreaks, WriterEnds,
       readVars, recvVars
  <2>3. reader.at # "dead" /\ Reading /\ OnWire /\ InStep
    BY <2>1, <2>2 DEF Live, Streaming
  <2>. QED  BY <1>3, <2>3, StreamWrites
<1>4. CASE ReadPrefix \/ ReadPermit \/ ReadBody \/ ReadPush
  <2>1. SUFFICES ASSUME Live' PROVE Reading' /\ OnWire' /\ InStep'
    BY DEF Streaming
  <2>2. reader.at # "dead" /\ server' = server
    BY <1>4 DEF ReadPrefix, ReadPermit, ReadBody, ReadPush, recvVars
  <2>3. Reading /\ OnWire /\ InStep
    BY <2>1, <2>2 DEF Live, Streaming
  <2>. QED  BY <1>4, <2>3, StreamReads
<1>5. CASE ConnectionLost
  <2>1. SUFFICES ASSUME Live' PROVE Reading' /\ OnWire' /\ InStep'
    BY DEF Streaming
  <2>2. ~up' /\ UNCHANGED <<accepted, reader, server, fq, delivered>>
    BY <1>5 DEF ConnectionLost, readVars, recvVars
  <2>3. Reading /\ OnWire
    BY <2>1, <2>2 DEF Live, Streaming
  <2>4. PICK k \in 0..Len(wire) : wire' = SubSeq(wire, 1, k)
    BY <1>5 DEF ConnectionLost
  <2>5. wire \in Seq(Units) /\ Len(wire) \in Nat
    BY Lengths
  <2>6. Len(wire') = k /\ \A j \in 1..k : wire'[j] = wire[j] /\ j \in 1..Len(wire)
    BY <2>4, <2>5
  <2>7. Handled' = Handled
    BY <2>2 DEF Handled
  <2>8. ReadPos' = ReadPos
    BY <2>2, <2>7 DEF ReadPos
  <2>9. OnWire'
    BY <2>2, <2>3, <2>6, <2>8 DEF OnWire
  <2>10. Reading'
    BY <2>2, <2>3, <2>7 DEF Reading
  <2>. QED  BY <2>2, <2>9, <2>10 DEF InStep
<1>6. CASE ReaderBreaks
  BY <1>6 DEF ReaderBreaks, AtPrefix, Streaming, Live
<1>7. CASE ServerEnds
  BY <1>7 DEF ServerEnds, Streaming, Live
<1>8. CASE ServeFrame
  <2>1. /\ fq # <<>> /\ delivered' = Append(delivered, Head(fq)) /\ fq' = Tail(fq)
        /\ UNCHANGED <<accepted, wq, writer, wire, up, reader>> /\ server.at = "serve"
    BY <1>8 DEF ServeFrame
  <2>2. Handled' = Handled
    BY <1>8, ServeHands
  <2>. QED  BY <1>1, <2>1, <2>2
<1>9. ASSUME NEW s \in Senders, AcquireBlocking(s) \/ AcquireAsync(s) \/ EnqueueGone(s) PROVE Same
  BY <1>9 DEF AcquireBlocking, AcquireAsync, EnqueueGone, readVars, recvVars, Handled
<1>10. ASSUME NEW r \in Receivers, ReceiverStep(r) PROVE Same
  BY <1>10 DEF ReceiverStep, Recv, RecvGone, readVars, Handled
<1>11. ASSUME ServerTake \/ ServeEof \/ ServerBreaks PROVE Same
  BY <1>11 DEF ServerTake, ServeEof, ServerBreaks, readVars, Handled
<1>12. ASSUME CloseSend \/ CloseRecv \/ Stopped \/ UNCHANGED vars PROVE Same
  BY <1>12 DEF CloseSend, CloseRecv, Stopped, vars, readVars, recvVars, Handled
<1>. HIDE DEF Same
<1>. QED
  BY <1>1, <1>2, <1>3, <1>4, <1>5, <1>6, <1>7, <1>8, <1>9, <1>10, <1>11, <1>12
     DEF Next, SenderStep, ReaderStep, ServerStep

\* A reader that is level with a writer at the end of the stream has all of it.
LEMMA AllRead ==
  ASSUME Typed, Queued, Framed, Reading, InStep, up, wire = <<>>, wq = <<>>, writer.at = "dead",
         reader.at = "prefix" \/ Len(reader.buf) < reader.len
  PROVE  Handled = Len(accepted)
<1>0. PICK n \in Nat, h \in Nat, b \in Nat :
        n = Len(accepted) /\ h = Handled /\ b = Len(reader.buf)
  <2>1. Len(accepted) \in Nat /\ Len(reader.buf) \in Nat
    BY Lengths
  <2>. QED  BY <2>1, Positions
<1>1. PICK st : st = StartsOf(accepted)
  OBVIOUS
<1>2. h <= n /\ h \in 0..n /\ st \in [0..n -> Nat] /\ accepted \in Seq(Sent)
  BY <1>0, <1>1, Lengths, Positions
<1>3. PICK c \in Nat, e \in Nat : c = st[h] /\ e = st[n]
  <2>1. st[h] \in Nat /\ st[n] \in Nat
    BY <1>2
  <2>. QED  BY <2>1
<1>4. ReadPos = e
  <2>1. Len(wire) = 0 /\ Len(wq) = 0
    OBVIOUS
  <2>2. Taken = n
    BY <1>0, <2>1 DEF Taken
  <2>3. WritePos = e
    BY <1>1, <1>3, <2>2 DEF WritePos
  <2>. QED  BY <2>1, <2>3, Positions DEF InStep
<1>5. SUFFICES ASSUME h < n PROVE FALSE
  BY <1>0, <1>2
<1>6. PICK z \in Nat : z = Size(accepted[h + 1])
  <2>1. h + 1 \in 1..n
    BY <1>2, <1>5
  <2>. QED  BY <1>0, <1>2, <2>1, StartsLaws
<1>7. c + z + 1 <= e
  <2>1. h + 1 \in 1..n /\ h + 1 \in 0..n /\ n \in 0..n /\ (h + 1) - 1 = h
    BY <1>2, <1>5
  <2>2. st[h + 1] = st[(h + 1) - 1] + Size(accepted[h + 1]) + 1
    BY <1>0, <1>1, <1>2, <2>1, StartsLaws
  <2>3. st[h + 1] = c + z + 1
    BY <1>3, <1>6, <2>1, <2>2
  <2>4. st[h + 1] <= st[n]
    BY <1>0, <1>1, <1>2, <2>1, StartsLaws, SMTT(60)
  <2>. QED  BY <1>3, <2>3, <2>4
<1>8. CASE reader.at = "prefix"
  <2>1. ReadPos = c + 0
    BY <1>0, <1>1, <1>3, <1>8 DEF ReadPos
  <2>2. c + 0 = e
    BY <1>4, <2>1
  <2>. QED  BY <1>7, <2>2
<1>9. CASE reader.at # "prefix"
  <2>1. ReadPos = c + (1 + b)
    BY <1>0, <1>1, <1>3, <1>9 DEF ReadPos
  <2>2. reader.len = z /\ b < reader.len
    BY <1>0, <1>6, <1>9 DEF Reading
  <2>3. c + (1 + b) = e /\ b < z
    BY <1>4, <2>1, <2>2
  <2>. QED  BY <1>7, <2>3
<1>. QED  BY <1>8, <1>9

\* A reader that stops has read everything, or the connection or the server is gone.
LEMMA DrainedStep ==
  ASSUME Typed, SendersDone, Endings, Queued, Framed, Streaming, Drained, [Next]_vars
  PROVE  Drained'
<1>. DEFINE Same == /\ UNCHANGED <<accepted, sendOpen, up, reader>> /\ Handled' = Handled
                    /\ server.at = "dead" => server'.at = "dead"
<1>1. CASE Same
  BY <1>1 DEF Drained
<1>2. ASSUME NEW s \in Senders, Enqueue(s) PROVE Drained'
  <2>1. sendOpen /\ UNCHANGED <<up, reader, server>>
    BY <1>2, NotDone DEF Enqueue, readVars, recvVars
  <2>. QED  BY <2>1 DEF Drained
<1>3. CASE CloseSend
  <2>1. sendOpen /\ UNCHANGED <<up, reader, server>>
    BY <1>3 DEF CloseSend, readVars, recvVars
  <2>. QED  BY <2>1 DEF Drained
<1>4. CASE ConnectionLost
  BY <1>4 DEF ConnectionLost, Drained
<1>5. CASE ReadPrefix \/ ReadPermit \/ ReadBody \/ ReadPush
  <2>0. reader \in [at : {"prefix", "permit", "body", "dead"}, len : Nat, buf : Seq(Units)]
    BY DEF Typed, ReadTypes
  <2>1. reader'.at # "dead"
    BY <1>5, <2>0 DEF ReadPrefix, ReadPermit, ReadBody, ReadPush, AtPrefix
  <2>. QED  BY <2>1 DEF Drained
<1>6. CASE ReaderBreaks
  <2>1. UNCHANGED <<accepted, sendOpen, up, server, fq, delivered>>
    BY <1>6 DEF ReaderBreaks, recvVars
  <2>2. Handled' = Handled
    BY <2>1 DEF Handled
  <2>3. SUFFICES ASSUME up, server.at # "dead" PROVE ~sendOpen /\ Handled = Len(accepted)
    BY <2>1, <2>2 DEF Drained
  <2>4. /\ reader.at = "prefix" \/ (reader.at = "body" /\ Len(reader.buf) < reader.len)
        /\ wire = <<>> /\ writer.at = "dead"
    BY <1>6, <2>3 DEF ReaderBreaks
  <2>5. reader.at # "dead"
    BY <2>4
  <2>6. Reading /\ InStep
    BY <2>3, <2>5 DEF Live, Streaming
  <2>7. wq = <<>> /\ ~sendOpen
    BY <2>3, <2>4, <2>5 DEF Endings
  <2>. QED  BY <2>3, <2>4, <2>6, <2>7, AllRead
<1>7. CASE ServerEnds
  BY <1>7 DEF ServerEnds, Drained
<1>8. CASE ServeFrame
  <2>1. UNCHANGED <<accepted, sendOpen, up, reader>> /\ server.at = "serve"
    BY <1>8 DEF ServeFrame
  <2>. QED  BY <1>1, <1>8, <2>1, ServeHands
<1>9. ASSUME NEW s \in Senders, AcquireBlocking(s) \/ AcquireAsync(s) \/ EnqueueGone(s) PROVE Same
  BY <1>9 DEF AcquireBlocking, AcquireAsync, EnqueueGone, readVars, recvVars, Handled
<1>10. ASSUME NEW r \in Receivers, ReceiverStep(r) PROVE Same
  BY <1>10 DEF ReceiverStep, Recv, RecvGone, readVars, Handled
<1>11. ASSUME ServerTake \/ ServeEof \/ ServerBreaks PROVE Same
  BY <1>11 DEF ServerTake, ServeEof, ServerBreaks, readVars, Handled
<1>12. ASSUME CloseRecv \/ Stopped \/ UNCHANGED vars PROVE Same
  BY <1>12 DEF CloseRecv, Stopped, vars, readVars, recvVars, Handled
<1>13. ASSUME WriterStep PROVE Same
  BY <1>13 DEF WriterStep, WriterTake, WriteUnit, WriteDone, WriteFails, WriterBreaks,
     WriterEnds, readVars, recvVars, Handled
<1>. HIDE DEF Same
<1>. QED
  BY <1>1, <1>2, <1>3, <1>4, <1>5, <1>6, <1>7, <1>8, <1>9, <1>10, <1>11, <1>12, <1>13
     DEF Next, SenderStep, ReaderStep, ServerStep

\* The initial states: nothing accepted, everybody at the start.
LEMMA DeliveryInit ==
  ASSUME Init PROVE Delivery
<1>1. /\ accepted = <<>> /\ delivered = <<>> /\ fq = <<>> /\ wq = <<>> /\ wire = <<>>
      /\ writer.at = "idle" /\ reader.at = "prefix" /\ server.at = "idle" /\ sendOpen
  BY DEF Init, Idle, AtPrefix, IdleServer
<1>2. Len(accepted) = 0 /\ Len(delivered) = 0 /\ Len(fq) = 0 /\ Len(wq) = 0 /\ Len(wire) = 0
  BY <1>1
<1>3. Handled = 0 /\ Taken = 0
  BY <1>2 DEF Handled, Taken
<1>4. SendersDone /\ Endings /\ Drained
  BY <1>1 DEF SendersDone, Endings, Drained
<1>5. Queued /\ Framed
  BY <1>1, <1>2, <1>3 DEF Queued, Framed
<1>6. Reading /\ OnWire
  BY <1>1, <1>2 DEF Reading, OnWire
<1>7. InStep
  <2>1. Typed
    BY TypedInit
  <2>2. ReadPos \in Nat
    BY <1>5, <2>1, Positions
  <2>3. PICK c \in Nat : c = ReadPos
    BY <2>2
  <2>4. ReadPos = StartsOf(accepted)[0] + 0 /\ WritePos = StartsOf(accepted)[0]
    BY <1>1, <1>3 DEF ReadPos, WritePos
  <2>5. WritePos \in Nat
    BY <1>5, <2>1, Positions
  <2>. QED  BY <1>2, <2>2, <2>4, <2>5 DEF InStep
<1>. QED  BY <1>4, <1>5, <1>6, <1>7 DEF Delivery, Streaming

\* The invariant the two results about delivery rest on.
LEMMA DeliveryKept == Spec => [](Typed /\ Delivery)
<1>1. Init => Typed /\ Delivery
  BY TypedInit, DeliveryInit
<1>2. Typed /\ Delivery /\ [Next]_vars => Typed' /\ Delivery'
  <2>1. SUFFICES ASSUME Typed, Delivery, [Next]_vars PROVE Typed' /\ Delivery'
    OBVIOUS
  <2>2. SendersDone /\ Endings /\ Queued /\ Framed /\ Streaming /\ Drained
    BY <2>1 DEF Delivery
  <2>3. SendersDone' /\ Endings' /\ Queued'
    BY <2>1, <2>2, SendersDoneStep, EndingsStep, QueuedStep
  <2>4. Framed' /\ Streaming' /\ Drained'
    BY <2>1, <2>2, FramedStep, StreamingStep, DrainedStep
  <2>5. Typed'
    BY <2>1, TypedStep
  <2>. QED  BY <2>3, <2>4, <2>5 DEF Delivery
<1>. QED  BY <1>1, <1>2, PTL DEF Spec

\* A receive fails with "channel closed" only after a lost connection, or when
\* the senders are done and every message they queued was handed out: neither
\* the writer task nor the reader task nor the server task ends early.
THEOREM EofIsLast == Spec => []NoEarlyEof
<1>1. Typed /\ Delivery => NoEarlyEof
  <2>1. SUFFICES ASSUME Typed, Delivery, server.at = "failed", up
                 PROVE  ~sendOpen /\ Len(delivered) = Len(accepted)
    BY DEF NoEarlyEof
  <2>2. fq = <<>> /\ reader.at = "dead"
    BY <2>1 DEF Delivery, Endings
  <2>3. ~sendOpen /\ Handled = Len(accepted)
    BY <2>1, <2>2 DEF Delivery, Drained
  <2>4. Len(fq) = 0 /\ Len(delivered) \in Nat
    BY <2>1, <2>2, Lengths
  <2>. QED  BY <2>3, <2>4 DEF Handled
<1>. QED  BY <1>1, DeliveryKept, PTL

\* The channel implements Fifo: whatever the interleaving of threads and tasks,
\* the sizes of messages, budgets and window, and wherever the connection breaks,
\* receivers get whole frames, once each, in the order the messages were queued.
THEOREM FifoDelivered == Spec => DeliversFifo
<1>. DEFINE acc == [i \in 1..Len(accepted) |-> Frame(accepted[i])]
<1>1. Init => Abstract!Init
  <2>1. SUFFICES ASSUME Init PROVE acc = <<>> /\ delivered = <<>>
    BY DEF Abstract!Init
  <2>2. accepted = <<>> /\ delivered = <<>> /\ Len(accepted) = 0
    BY <2>1 DEF Init
  <2>. QED  BY <2>2
<1>2. Typed /\ Delivery /\ [Next]_vars => [Abstract!Next]_<<acc, delivered>>
  <2>1. SUFFICES ASSUME Typed, Delivery, [Next]_vars
                 PROVE  [Abstract!Next]_<<acc, delivered>>
    OBVIOUS
  <2>2. ASSUME NEW s \in Senders, Enqueue(s) PROVE Abstract!Accept
    <3>1. PICK m : m = Current(s)
      OBVIOUS
    <3>2. m \in Sent
      <4>1. SendTypes /\ SenderOK(s) /\ phase[s] = "enqueue"
        BY <2>1, <2>2 DEF Enqueue, Typed, SendTypes
      <4>. QED  BY <3>1, <4>1, CurrentTypes DEF SenderOK
    <3>3. accepted' = Append(accepted, m) /\ delivered' = delivered
      BY <2>2, <3>1 DEF Enqueue
    <3>4. PICK n \in Nat : n = Len(accepted)
      BY <2>1, Lengths
    <3>5. /\ Len(accepted') = n + 1 /\ accepted'[n + 1] = m
          /\ \A i \in 1..n : accepted'[i] = accepted[i]
      BY <2>1, <3>2, <3>3, <3>4, Lengths, AppendElements
    <3>6. acc' = [i \in 1..n + 1 |-> Frame(accepted'[i])] /\ acc = [i \in 1..n |-> Frame(accepted[i])]
      BY <3>4, <3>5 DEF Frame, Size
    <3>7. acc' = Append(acc, Frame(m))
      <4>1. \A i \in 1..n + 1 : Frame(accepted'[i]) = IF i <= n THEN Frame(accepted[i]) ELSE Frame(m)
        BY <3>5
      <4>. QED  BY <3>6, <4>1
    <3>. QED  BY <3>2, <3>3, <3>7 DEF Abstract!Accept
  <2>3. ASSUME ServeFrame PROVE Abstract!Deliver
    <3>1. fq # <<>> /\ delivered' = Append(delivered, Head(fq)) /\ accepted' = accepted
      BY <2>3 DEF ServeFrame
    <3>2. PICK n \in Nat, d \in Nat, f \in Nat :
            n = Len(accepted) /\ d = Len(delivered) /\ f = Len(fq)
      BY <2>1, Lengths
    <3>3. f >= 1 /\ Head(fq) = fq[1]
      BY <2>1, <3>1, <3>2, Lengths, TailElements
    <3>4. d + f <= n /\ \A i \in 1..f : fq[i] = Frame(accepted[d + i])
      BY <2>1, <3>2 DEF Delivery, Framed, Handled
    <3>5. Head(fq) = Frame(accepted[d + 1]) /\ d + 1 \in 1..n
      BY <3>3, <3>4
    <3>6. acc[d + 1] = Head(fq) /\ Len(acc) = n
      BY <3>2, <3>5
    <3>7. acc' = acc
      BY <3>1
    <3>8. d < n
      BY <3>5
    <3>. QED  BY <3>1, <3>2, <3>6, <3>7, <3>8 DEF Abstract!Deliver
  <2>4. ASSUME UNCHANGED <<accepted, delivered>> PROVE UNCHANGED <<acc, delivered>>
    BY <2>4
  <2>5. ASSUME NEW s \in Senders, AcquireBlocking(s) \/ AcquireAsync(s) \/ EnqueueGone(s)
        PROVE  UNCHANGED <<accepted, delivered>>
    BY <2>5 DEF AcquireBlocking, AcquireAsync, EnqueueGone
  <2>6. ASSUME NEW r \in Receivers, ReceiverStep(r) PROVE UNCHANGED <<accepted, delivered>>
    BY <2>6 DEF ReceiverStep, Recv, RecvGone
  <2>7. ASSUME WriterStep \/ ReaderStep PROVE UNCHANGED <<accepted, delivered>>
    BY <2>7 DEF WriterStep, WriterTake, WriteUnit, WriteDone, WriteFails, WriterBreaks, WriterEnds,
       ReaderStep, ReadPrefix, ReadPermit, ReadBody, ReadPush, ReaderBreaks
  <2>8. ASSUME \/ ServerTake \/ ServeEof \/ ServerBreaks \/ ServerEnds
               \/ CloseSend \/ CloseRecv \/ Stopped \/ ConnectionLost \/ UNCHANGED vars
        PROVE  UNCHANGED <<accepted, delivered>>
    BY <2>8 DEF ServerTake, ServeEof, ServerBreaks, ServerEnds, CloseSend, CloseRecv, Stopped,
       ConnectionLost, vars
  <2>. HIDE DEF acc
  <2>. QED
    BY <2>1, <2>2, <2>3, <2>4, <2>5, <2>6, <2>7, <2>8
       DEF Next, SenderStep, ServerStep, Abstract!Next
<1>. QED  BY <1>1, <1>2, DeliveryKept, PTL DEF Spec, DeliversFifo, Abstract!Spec

=============================================================================
