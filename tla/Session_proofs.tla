--------------------------- MODULE Session_proofs ---------------------------
(***************************************************************************)
(* Proofs about Session, for every number of lanes, forks, threads, chunks  *)
(* and messages, and with any number of crashes: the session is typed, and  *)
(* two neighbours are paired: they use the same stream and the same         *)
(* randomness for the same context, and no receive gets a message meant for *)
(* another one.                                                             *)
(*                                                                         *)
(* SessionPrograms_proofs is about the programs: both ends of a stream name *)
(* it alike, and what one neighbour sends in a context is, in this order,   *)
(* what the other one receives in it.                                       *)
(* SessionPool_proofs is about the Rayon pool: every chunk is at most once   *)
(* on the threads.  Here the inductive invariant ties the state to them: a  *)
(* queue holds the messages of its context from the last one received to    *)
(* the last one sent.                                                       *)
(***************************************************************************)
EXTENDS SessionPrograms_proofs, SessionPool_proofs

-----------------------------------------------------------------------------
(* The inductive invariant *)

TypeInv ==
  /\ status \in [Procs -> {"run", "leaving", "gone"}]
  /\ faults \in 0 .. FAULTS
  /\ link \in [Conns -> {"none", "dialled", "accepted", "greeted", "open"}]
  /\ dones \subseteq Conns

\* A worker that runs is in the body of its program, one that leaves in its shutdown.
PcFits(p, i, st) ==
  /\ i \in 1 .. Len(Program[p])
  /\ p \in Workers => /\ st = "run" => i <= DropAt[p]
                      /\ st = "leaving" => i > DropAt[p]
PcInv ==
  /\ pc = [p \in Procs |-> pc[p]]
  /\ \A p \in Procs : PcFits(p, pc[p], status[p])

\* The streams of the connections.
StreamInv ==
  /\ opened \in [Conns -> Nat] /\ accepted \in [Conns -> Nat]
  /\ \A c \in Conns : accepted[c] <= opened[c]
  /\ chans = [p \in Procs |-> [q \in Procs |-> chans[p][q]]]

\* The channels of a worker to a peer are the streams of their connections so far.
ChanFits(p, q, s, i, st) ==
  /\ Len(s) \in 0 .. Len(LaneSeq)
  /\ s = [n \in 1 .. Len(s) |-> StreamId(p, q, n)]
  /\ st = "run" => Len(s) = NumChans(p, q, i)
Streams(p, q, l) == IF q < p THEN opened[<<p, q, l>>] ELSE accepted[<<q, p, l>>]
ChanInv ==
  \A p \in Workers : \A q \in Workers \ {p} :
    /\ ChanFits(p, q, chans[p][q], pc[p], status[p])
    /\ \A l \in LaneSet : Streams(p, q, l) = LaneCount(Len(chans[p][q]), l)

\* The randomness of a worker, which is complete before it forks the first context.
Keys1 == {<<0, 0>>, <<1, 0>>, <<2, 0>>}
Keys2(p) == {<<p, 1>>, <<PrevId(p), 1>>} \cup IF p = 1 THEN {} ELSE {<<NextId(p), 1>>}
Ready(p, r) ==
  r.seed2 = PrevId(p) /\ r.keys1 = Keys1 /\ r.keys2 = Keys2(p) /\ r.drawn = 2 + Len(r.ctx)
Rngs ==
  [seed1 : Workers, seed2 : Workers, drawn : Nat, keys1 : SUBSET (Workers \X {0, 1}),
   keys2 : SUBSET (Workers \X {0, 1}), ctx : Seq(Nat)]
RngFits(p, r, i, st) ==
  /\ r \in Rngs /\ r.seed1 = p /\ r.keys2 \in {{}, Keys2(p)}
  /\ \A k \in 1 .. Len(r.ctx) : r.ctx[k] = k + 1
  /\ r.ctx # <<>> => Ready(p, r)
  /\ st = "run" /\ i > NewEnd[p] + 2 => r.seed2 = PrevId(p)
  /\ st = "run" /\ i > NewEnd[p] + 4 => Ready(p, r)
  /\ st = "run" /\ i <= NewEnd[p] + 4 => r.ctx = <<>>
RngInv ==
  /\ rngs = [p \in Workers |-> rngs[p]]
  /\ \A p \in Workers : RngFits(p, rngs[p], pc[p], status[p])

\* A worker has a pool at work only in a call of par_chunks.
ChunksOf(c) == NumChunks(CALLS[c].len)
PoolFits(pl, op, st) ==
  \/ pl = NoPool
  \/ /\ pl.call \in Parallel /\ st = "run" /\ op = <<"par", pl.call>>
     /\ PoolOK(ChunksOf(pl.call), CALLS[pl.call].rounds, pl)
PoolInv ==
  /\ pool = [p \in Workers |-> pool[p]]
  /\ \A p \in Workers : PoolFits(pool[p], Program[p][pc[p]], status[p])

AllMsgs == Msgs \cup {"response", "request"}
WireInv ==
  /\ wire = [x \in DOMAIN wire |-> wire[x]]
  /\ \A x \in DOMAIN wire : wire[x] \in Seq(AllMsgs) /\ Len(wire[x]) \in 1 .. CAP

\* Of the messages of a chunk: what it has sent, what it has received.
SentN(at, r) == IF at = Fin THEN r ELSE at \div 2
RecvN(at, r) == IF at = Fin THEN r ELSE IF at = 0 THEN 0 ELSE (at - 1) \div 2
InChunk(pl, k) == pl.call # 0 /\ k - 1 \in DOMAIN pl.at
ChunkSent(pl, k) == IF InChunk(pl, k) THEN SentN(pl.at[k - 1], CALLS[pl.call].rounds) ELSE 0
ChunkRecvd(pl, k) == IF InChunk(pl, k) THEN RecvN(pl.at[k - 1], CALLS[pl.call].rounds) ELSE 0
Abandoned(pl, k) == pl.failed /\ InChunk(pl, k) /\ pl.at[k - 1] = Fin

\* All messages from q to p in context k; how many q has sent, and p received, in call i.
All(q, p, k) == Hist(Emit(q, p, k), Program[q])
OutAt(q, p, k, i) == Len(HistAt(Emit(q, p, k), q, i))
InAt(q, p, k, i) == Len(HistAt(Consume(q, p, k), p, i))
OutsOf(q, p, k, i, pl) == OutAt(q, p, k, i) + IF p = NextId(q) THEN ChunkSent(pl, k) ELSE 0
InsOf(q, p, k, i, pl) == InAt(q, p, k, i) + IF p = NextId(q) THEN ChunkRecvd(pl, k) ELSE 0

\* A queue holds what is sent and not received; while its sender is lost, some of it.
Active(st, pl, k) == st = "run" /\ ~Abandoned(pl, k)
FlowFits(Q, ins, outs, all, toRuns, fromRuns) ==
  toRuns =>
    /\ ins + Len(Q) <= Len(all)
    /\ \A i \in 1 .. Len(Q) : Q[i] = all[ins + i]
    /\ fromRuns => ins + Len(Q) = outs
Flow(q, p, k) ==
  FlowFits(Queue(SKey(q, p, k)), InsOf(q, p, k, pc[p], pool[p]), OutsOf(q, p, k, pc[q], pool[q]),
           All(q, p, k), Active(status[p], pool[p], k), Active(status[q], pool[q], k))
FlowInv == \A q \in Workers : \A p \in Workers \ {q} : \A k \in Ctxs : Flow(q, p, k)

Inv ==
  /\ TypeInv /\ PcInv /\ StreamInv /\ ChanInv /\ RngInv /\ PoolInv /\ WireInv /\ FlowInv
  /\ mixed = {}

-----------------------------------------------------------------------------
(* Counting messages *)

\* Every message between two workers is of the types a channel carries.
LEMMA AllType ==
  ASSUME NEW q \in Workers, NEW p \in Workers \ {q}, NEW k \in Ctxs
  PROVE  All(q, p, k) \in Seq(Msgs) /\ Len(All(q, p, k)) \in Nat
<1>1. Emit(q, p, k) \in Traces(Ops, Msgs) BY TrafficType
<1>2. Program[q] \in Seq(Ops) BY ProgramIs
<1>3. All(q, p, k) \in Seq(Msgs) BY ONLY <1>1, <1>2, HistType DEF All
<1> QED BY <1>3

\* What a call adds to a history, in terms of its length.
LEMMA LengthStep ==
  ASSUME NEW T, NEW p \in Workers, NEW f \in Traces(Ops, T), NEW i \in 1 .. Len(Program[p])
  PROVE  /\ f[Program[p][i]] \in Seq(T) /\ Len(HistAt(f, p, i)) \in Nat
         /\ Len(HistAt(f, p, i + 1)) = Len(HistAt(f, p, i)) + Len(f[Program[p][i]])
         /\ Len(HistAt(f, p, i + 1)) <= Len(Hist(f, Program[p]))
         /\ \A x \in 1 .. Len(f[Program[p][i]]) :
               Hist(f, Program[p])[Len(HistAt(f, p, i)) + x] = f[Program[p][i]][x]
         /\ Len(HistAt(f, p, 1)) = 0
<1> DEFINE a == HistAt(f, p, i)  e == f[Program[p][i]]  b == HistAt(f, p, i + 1)  h == Hist(f, Program[p])
<1>1. /\ e \in Seq(T) /\ a \in Seq(T) /\ b \in Seq(T) /\ HistAt(f, p, 1) = <<>>
      /\ b = Cat(a, e)
  BY HistAtStep
<1> HIDE DEF a, b, e, h
<1>2. Len(b) = Len(a) + Len(e) /\ \A x \in 1 .. Len(e) : b[Len(a) + x] = e[x]
  <2>1. a \in Seq(T) /\ e \in Seq(T) BY <1>1
  <2>2. /\ Len(Cat(a, e)) = Len(a) + Len(e)
        /\ \A x \in 1 .. Len(e) : Cat(a, e)[Len(a) + x] = e[x]
    BY ONLY <2>1, CatType
  <2> QED BY ONLY <1>1, <2>2
<1>3. i + 1 \in 1 .. Len(Program[p]) + 1 BY Where
<1>4. Pre(b, h) BY <1>3, HistAtPre DEF b, h
<1>5. Len(b) <= Len(h) /\ \A x \in 1 .. Len(b) : b[x] = h[x] BY <1>4 DEF Pre
<1>6. Len(a) \in Nat /\ Len(e) \in Nat BY <1>1
<1>7. \A x \in 1 .. Len(e) : h[Len(a) + x] = e[x] BY <1>2, <1>5, <1>6
<1>8. Len(HistAt(f, p, 1)) = 0 BY <1>1
<1> QED BY <1>1, <1>2, <1>5, <1>6, <1>7, <1>8 DEF a, b, e, h

\* How a worker's next operation extends what it has emitted to a peer on a context.
LEMMA OutStep ==
  ASSUME NEW q \in Workers, NEW p \in Workers \ {q}, NEW k \in Ctxs, NEW i \in 1 .. Len(Program[q])
  PROVE  LET e == Emit(q, p, k)[Program[q][i]] IN
         /\ e \in Seq(Msgs) /\ OutAt(q, p, k, i) \in Nat /\ OutAt(q, p, k, 1) = 0
         /\ OutAt(q, p, k, i + 1) = OutAt(q, p, k, i) + Len(e)
         /\ OutAt(q, p, k, i) + Len(e) <= Len(All(q, p, k))
         /\ \A x \in 1 .. Len(e) : All(q, p, k)[OutAt(q, p, k, i) + x] = e[x]
<1>1. Emit(q, p, k) \in Traces(Ops, Msgs) BY TrafficType
<1> DEFINE f == Emit(q, p, k)
<1>2. f \in Traces(Ops, Msgs) BY <1>1
<1> HIDE DEF f
<1>3. /\ f[Program[q][i]] \in Seq(Msgs) /\ Len(HistAt(f, q, i)) \in Nat
      /\ Len(HistAt(f, q, i + 1)) = Len(HistAt(f, q, i)) + Len(f[Program[q][i]])
      /\ Len(HistAt(f, q, i + 1)) <= Len(Hist(f, Program[q]))
      /\ \A x \in 1 .. Len(f[Program[q][i]]) :
            Hist(f, Program[q])[Len(HistAt(f, q, i)) + x] = f[Program[q][i]][x]
      /\ Len(HistAt(f, q, 1)) = 0
  BY ONLY <1>2, q \in Workers, i \in 1 .. Len(Program[q]), LengthStep
<1> QED BY ONLY <1>3 DEF f, OutAt, All

\* How a worker's next operation extends what it has consumed from a peer on a context.
LEMMA InStep ==
  ASSUME NEW q \in Workers, NEW p \in Workers \ {q}, NEW k \in Ctxs, NEW i \in 1 .. Len(Program[p])
  PROVE  LET e == Consume(q, p, k)[Program[p][i]] IN
         /\ e \in Seq(Msgs) /\ InAt(q, p, k, i) \in Nat /\ InAt(q, p, k, 1) = 0
         /\ InAt(q, p, k, i + 1) = InAt(q, p, k, i) + Len(e)
         /\ InAt(q, p, k, i) + Len(e) <= Len(All(q, p, k))
         /\ \A x \in 1 .. Len(e) : All(q, p, k)[InAt(q, p, k, i) + x] = e[x]
<1>1. Consume(q, p, k) \in Traces(Ops, Msgs) BY TrafficType
<1>a. All(q, p, k) = Hist(Consume(q, p, k), Program[p]) BY MessagesAgree DEF All
<1> DEFINE f == Consume(q, p, k)
<1>2. f \in Traces(Ops, Msgs) /\ All(q, p, k) = Hist(f, Program[p]) BY <1>1, <1>a
<1>4. p \in Workers OBVIOUS
<1> HIDE DEF f
<1>3. /\ f[Program[p][i]] \in Seq(Msgs) /\ Len(HistAt(f, p, i)) \in Nat
      /\ Len(HistAt(f, p, i + 1)) = Len(HistAt(f, p, i)) + Len(f[Program[p][i]])
      /\ Len(HistAt(f, p, i + 1)) <= Len(Hist(f, Program[p]))
      /\ \A x \in 1 .. Len(f[Program[p][i]]) :
            Hist(f, Program[p])[Len(HistAt(f, p, i)) + x] = f[Program[p][i]][x]
      /\ Len(HistAt(f, p, 1)) = 0
  BY ONLY <1>2, <1>4, i \in 1 .. Len(Program[p]), LengthStep
<1> QED BY ONLY <1>2, <1>3 DEF f, InAt

\* What a call of the main thread sends or receives.
\* What each kind of call emits on a stream and consumes from it.
Carries(q, p, k, op) ==
  /\ op[1] = "prf_send" => /\ Emit(q, p, k)[op] = IF p = NextId(q) /\ k = 0 THEN <<q>> ELSE <<>>
                           /\ Consume(q, p, k)[op] = <<>>
  /\ op[1] = "bitcomp_send" =>
       /\ Emit(q, p, k)[op] = IF p = NextId(q) /\ k = 0 THEN <<BitKeys(q)>> ELSE <<>>
       /\ Consume(q, p, k)[op] = <<>>
  /\ op[1] = "send" => /\ Emit(q, p, k)[op] = IF op[2] = p /\ op[3] = k THEN <<op[4]>> ELSE <<>>
                       /\ Consume(q, p, k)[op] = <<>>
  /\ op[1] = "prf_recv" => /\ Consume(q, p, k)[op] = IF p = NextId(q) /\ k = 0 THEN <<q>> ELSE <<>>
                           /\ Emit(q, p, k)[op] = <<>>
  /\ op[1] = "bitcomp_recv" =>
       /\ Consume(q, p, k)[op] = IF p = NextId(q) /\ k = 0 THEN <<BitKeys(q)>> ELSE <<>>
       /\ Emit(q, p, k)[op] = <<>>
  /\ op[1] = "recv" => /\ Consume(q, p, k)[op] = IF op[2] = q /\ op[3] = k THEN <<op[4]>> ELSE <<>>
                       /\ Emit(q, p, k)[op] = <<>>
  /\ op[1] = "par" => /\ Emit(q, p, k)[op] = IF p = NextId(q) THEN ChunkMsgs(op[2], k) ELSE <<>>
                      /\ Consume(q, p, k)[op] = IF p = NextId(q) THEN ChunkMsgs(op[2], k) ELSE <<>>

\* What each kind of operation emits and consumes.
LEMMA OpTraffic ==
  ASSUME NEW q \in Workers, NEW p \in Workers \ {q}, NEW k \in Ctxs, NEW op \in Ops
  PROVE  Carries(q, p, k, op)
<1> HIDE DEF Ops
<1>1. CASE op[1] = "prf_send" BY <1>1 DEF Carries, Emit, Consume, Traffic
<1>2. CASE op[1] = "bitcomp_send" BY <1>2 DEF Carries, Emit, Consume, Traffic
<1>3. CASE op[1] = "send" BY <1>3 DEF Carries, Emit, Consume, Traffic
<1>4. CASE op[1] = "prf_recv" BY <1>4 DEF Carries, Emit, Consume, Traffic
<1>5. CASE op[1] = "bitcomp_recv" BY <1>5 DEF Carries, Emit, Consume, Traffic
<1>6. CASE op[1] = "recv" BY <1>6 DEF Carries, Emit, Consume, Traffic
<1>7. CASE op[1] = "par" BY <1>7 DEF Carries, Emit, Consume, Traffic
<1> QED BY <1>1, <1>2, <1>3, <1>4, <1>5, <1>6, <1>7 DEF Carries

\* In call i, p sends m to q, or receives it from q, in context k, and nothing else.
Says(p, q, k, m, i) ==
  /\ OutAt(p, q, k, i + 1) = OutAt(p, q, k, i) + 1
  /\ OutAt(p, q, k, i) + 1 <= Len(All(p, q, k))
  /\ All(p, q, k)[OutAt(p, q, k, i) + 1] = m
  /\ \A r \in Workers \ {p}, n \in Ctxs :
       /\ r # q \/ n # k => OutAt(p, r, n, i + 1) = OutAt(p, r, n, i)
       /\ InAt(r, p, n, i + 1) = InAt(r, p, n, i)
Hears(p, q, k, m, i) ==
  /\ InAt(q, p, k, i + 1) = InAt(q, p, k, i) + 1
  /\ InAt(q, p, k, i) + 1 <= Len(All(q, p, k))
  /\ All(q, p, k)[InAt(q, p, k, i) + 1] = m
  /\ \A r \in Workers \ {p}, n \in Ctxs :
       /\ r # q \/ n # k => InAt(r, p, n, i + 1) = InAt(r, p, n, i)
       /\ OutAt(p, r, n, i + 1) = OutAt(p, r, n, i)

\* An operation that emits one message counts as saying it, and nothing else.
LEMMA SaysOf ==
  ASSUME NEW p \in Workers, NEW q \in Workers \ {p}, NEW k \in Ctxs, NEW m,
         NEW i \in 1 .. Len(Program[p]),
         \A r \in Workers \ {p}, n \in Ctxs :
           /\ Emit(p, r, n)[Program[p][i]] = IF r = q /\ n = k THEN <<m>> ELSE <<>>
           /\ Consume(r, p, n)[Program[p][i]] = <<>>
  PROVE  Says(p, q, k, m, i)
<1> DEFINE e == Emit(p, q, k)[Program[p][i]]
<1>0. e = <<m>> OBVIOUS
<1>1. /\ OutAt(p, q, k, i) \in Nat
      /\ OutAt(p, q, k, i + 1) = OutAt(p, q, k, i) + Len(e)
      /\ OutAt(p, q, k, i) + Len(e) <= Len(All(p, q, k))
      /\ \A x \in 1 .. Len(e) : All(p, q, k)[OutAt(p, q, k, i) + x] = e[x]
  BY OutStep
<1> HIDE DEF e
<1>2. ASSUME NEW r \in Workers \ {p}, NEW n \in Ctxs, r # q \/ n # k
      PROVE  OutAt(p, r, n, i + 1) = OutAt(p, r, n, i)
  <2>1. Emit(p, r, n)[Program[p][i]] = <<>> BY <1>2
  <2>2. OutAt(p, r, n, i) \in Nat /\ OutAt(p, r, n, i + 1) = OutAt(p, r, n, i) + Len(<<>>)
    BY <2>1, OutStep
  <2> QED BY ONLY <2>2
<1>3. ASSUME NEW r \in Workers \ {p}, NEW n \in Ctxs
      PROVE  InAt(r, p, n, i + 1) = InAt(r, p, n, i)
  <2>1. Consume(r, p, n)[Program[p][i]] = <<>> OBVIOUS
  <2>0. p \in Workers \ {r} OBVIOUS
  <2>2. InAt(r, p, n, i) \in Nat /\ InAt(r, p, n, i + 1) = InAt(r, p, n, i) + Len(<<>>)
    BY <2>0, <2>1, InStep
  <2> QED BY ONLY <2>2
<1>4. /\ OutAt(p, q, k, i + 1) = OutAt(p, q, k, i) + 1
      /\ OutAt(p, q, k, i) + 1 <= Len(All(p, q, k))
      /\ All(p, q, k)[OutAt(p, q, k, i) + 1] = m
  BY ONLY <1>0, <1>1
<1> QED BY ONLY <1>2, <1>3, <1>4 DEF Says

\* An operation that consumes one message counts as hearing it, and nothing else.
LEMMA HearsOf ==
  ASSUME NEW p \in Workers, NEW q \in Workers \ {p}, NEW k \in Ctxs, NEW m,
         NEW i \in 1 .. Len(Program[p]),
         \A r \in Workers \ {p}, n \in Ctxs :
           /\ Consume(r, p, n)[Program[p][i]] = IF r = q /\ n = k THEN <<m>> ELSE <<>>
           /\ Emit(p, r, n)[Program[p][i]] = <<>>
  PROVE  Hears(p, q, k, m, i)
<1> DEFINE e == Consume(q, p, k)[Program[p][i]]
<1>0. e = <<m>> OBVIOUS
<1>1. /\ InAt(q, p, k, i) \in Nat
      /\ InAt(q, p, k, i + 1) = InAt(q, p, k, i) + Len(e)
      /\ InAt(q, p, k, i) + Len(e) <= Len(All(q, p, k))
      /\ \A x \in 1 .. Len(e) : All(q, p, k)[InAt(q, p, k, i) + x] = e[x]
  <2>0. p \in Workers \ {q} OBVIOUS
  <2> QED BY <2>0, InStep
<1> HIDE DEF e
<1>2. ASSUME NEW r \in Workers \ {p}, NEW n \in Ctxs, r # q \/ n # k
      PROVE  InAt(r, p, n, i + 1) = InAt(r, p, n, i)
  <2>1. Consume(r, p, n)[Program[p][i]] = <<>> BY <1>2
  <2>0. p \in Workers \ {r} OBVIOUS
  <2>2. InAt(r, p, n, i) \in Nat /\ InAt(r, p, n, i + 1) = InAt(r, p, n, i) + Len(<<>>)
    BY <2>0, <2>1, InStep
  <2> QED BY ONLY <2>2
<1>3. ASSUME NEW r \in Workers \ {p}, NEW n \in Ctxs
      PROVE  OutAt(p, r, n, i + 1) = OutAt(p, r, n, i)
  <2>1. Emit(p, r, n)[Program[p][i]] = <<>> OBVIOUS
  <2>2. OutAt(p, r, n, i) \in Nat /\ OutAt(p, r, n, i + 1) = OutAt(p, r, n, i) + Len(<<>>)
    BY <2>1, OutStep
  <2> QED BY ONLY <2>2
<1>4. /\ InAt(q, p, k, i + 1) = InAt(q, p, k, i) + 1
      /\ InAt(q, p, k, i) + 1 <= Len(All(q, p, k))
      /\ All(q, p, k)[InAt(q, p, k, i) + 1] = m
  BY ONLY <1>0, <1>1
<1> QED BY ONLY <1>2, <1>3, <1>4 DEF Hears

\* A quiet operation leaves every count of messages alone.
LEMMA QuietCount ==
  ASSUME NEW p \in Workers, NEW i \in 1 .. Len(Program[p]), Program[p][i] \in Quiet,
         NEW r \in Workers \ {p}, NEW n \in Ctxs
  PROVE  OutAt(p, r, n, i + 1) = OutAt(p, r, n, i) /\ InAt(r, p, n, i + 1) = InAt(r, p, n, i)
<1>0. p \in Workers \ {r} OBVIOUS
<1>1. Emit(p, r, n)[Program[p][i]] = <<>> BY ONLY TrafficQuiet, p \in Workers, r \in Workers \ {p}, n \in Ctxs, Program[p][i] \in Quiet
<1>2. Consume(r, p, n)[Program[p][i]] = <<>> BY ONLY <1>0, TrafficQuiet, r \in Workers, n \in Ctxs, Program[p][i] \in Quiet
<1>3. OutAt(p, r, n, i) \in Nat /\ OutAt(p, r, n, i + 1) = OutAt(p, r, n, i) + Len(<<>>) BY <1>1, OutStep
<1>4. InAt(r, p, n, i) \in Nat /\ InAt(r, p, n, i + 1) = InAt(r, p, n, i) + Len(<<>>) BY <1>0, <1>2, InStep
<1> QED BY ONLY <1>3, <1>4

-----------------------------------------------------------------------------
(* Where a process is in its program *)

ChanNames == {"open_bi", "read_id", "accept_bi"}
LoudNames == {"prf_send", "prf_recv", "bitcomp_send", "bitcomp_recv", "send", "recv", "par"}

\* The names of the operations of each part of a worker's program.
LEMMA Names ==
  ASSUME NEW p \in Workers, NEW op
  PROVE  /\ op \in NewOps(p) =>
              /\ op[1] \in {"dial", "greet", "accept", "identify", "open_coordinator"} \cup ChanNames
              /\ op[1] \in ChanNames => op \in ChanOps(p)
         /\ op \in ForkOps(p) => /\ op[1] \in {"fork_rngs"} \cup ChanNames
                                 /\ op[1] \in ChanNames => op \in ChanOps(p)
         /\ op \in WorkOps(p) => /\ op[1] \in {"recv_c", "send_c", "send", "recv", "par"}
                                 /\ op[1] \in {"send", "recv"} => op \in MsgOps(p)
                                 /\ op[1] = "par" => op \in ParOps
                                 /\ op[1] \in {"recv_c", "send_c"} => op \in StarOps
         /\ op \in ShutOps(p) => op[1] \in {"done", "wait_done"}
         /\ op \in ChanOps(p) => op[1] \in ChanNames
<1>1. op \in ChanOps(p) => op[1] \in ChanNames
  BY DEF ChanOps, ChanNames
<1>2. op \in SetupOps => op[1] \in {"dial", "greet", "accept", "identify", "open_coordinator"}
  BY DEF SetupOps
<1>3. /\ op \in StarOps => op[1] \in {"recv_c", "send_c"}
      /\ op \in MsgOps(p) => op[1] \in {"send", "recv"}
      /\ op \in ParOps => op[1] = "par"
  BY DEF StarOps, MsgOps, ParOps
<1>4. op \in ShutOps(p) => op[1] \in {"done", "wait_done"} BY DEF ShutOps
<1>5. op \in {<<"fork_rngs">>} => op[1] = "fork_rngs" OBVIOUS
<1>6. op \in NewOps(p) => op \in SetupOps \/ op \in ChanOps(p) BY DEF NewOps
<1>7. op \in ForkOps(p) => op \in {<<"fork_rngs">>} \/ op \in ChanOps(p) BY DEF ForkOps
<1>8. op \in WorkOps(p) => op \in StarOps \/ op \in MsgOps(p) \/ op \in ParOps BY DEF WorkOps
<1> QED BY ONLY <1>1, <1>2, <1>3, <1>4, <1>5, <1>6, <1>7, <1>8 DEF ChanNames

Regions(p, i, op) ==
  /\ op \in Ops
  /\ op[1] \in ChanNames => op \in ChanOps(p)
  /\ op[1] = "prf_send" => i = NewEnd[p] + 1
  /\ op[1] = "prf_recv" => i = NewEnd[p] + 2
  /\ op[1] = "bitcomp_send" => i = NewEnd[p] + 3
  /\ op[1] = "bitcomp_recv" => i = NewEnd[p] + 4
  /\ op[1] = "fork_rngs" => i > NewEnd[p] + 4
  /\ op[1] \in {"send", "recv"} => op \in MsgOps(p) /\ i > InitEnd(p)
  /\ op[1] = "par" => op \in ParOps /\ i > InitEnd(p)
  /\ op[1] = "drop" => i = DropAt[p]
  /\ i = DropAt[p] => op[1] = "drop"
  /\ i = Len(Program[p]) => op[1] = "close"
  /\ op[1] \in {"done", "wait_done"} => op \in ShutOps(p)
  /\ op[1] \notin LoudNames => op \in Quiet
  /\ i > NewEnd[p] /\ i <= NewEnd[p] + 4 => op[1] \in LoudNames
  /\ i > DropAt[p] => op[1] \in {"done", "wait_done", "close"}
  /\ op[1] = "accept" => i <= NewEnd[p]

\* The five operations of the context pool's initialisation before its forks.
LEMMA First5Is ==
  /\ First5[1] = <<"prf_send">> /\ First5[2] = <<"prf_recv">> /\ First5[3] = <<"bitcomp_send">>
  /\ First5[4] = <<"bitcomp_recv">> /\ First5[5] = <<"fork_rngs">>
BY DEF First5

\* Where each kind of operation stands in a worker's program.
LEMMA Located ==
  ASSUME NEW p \in Workers, NEW i \in 1 .. Len(Program[p])
  PROVE  Regions(p, i, Program[p][i])
<1> DEFINE op == Program[p][i]  L == Len(Program[p])
<1>1. /\ NewEnd[p] \in Nat /\ InitEnd(p) \in Nat /\ InitEnd(p) >= NewEnd[p] + 5
      /\ DropAt[p] \in Nat /\ DropAt[p] > InitEnd(p) /\ L \in Nat /\ L >= DropAt[p] + 2
      /\ i \in Nat
  <2>1. /\ Program[p] \in Seq(Ops) /\ Work(p) \in Seq(Ops) /\ NewEnd[p] \in Nat /\ InitEnd(p) \in Nat
        /\ InitEnd(p) >= NewEnd[p] + 5 /\ DropAt[p] = 1 + InitEnd(p) + Len(Work(p)) /\ DropAt[p] \in Nat
    BY ProgramIs
  <2>2. L \in Nat /\ L >= DropAt[p] + 2 BY Where
  <2>3. Len(Work(p)) \in Nat BY <2>1
  <2> QED BY <2>1, <2>2, <2>3
<1>2. /\ i <= NewEnd[p] => op \in NewOps(p)
      /\ i > NewEnd[p] /\ i <= NewEnd[p] + 5 => op = First5[i - NewEnd[p]]
      /\ i > NewEnd[p] + 5 /\ i <= InitEnd(p) => op \in ForkOps(p)
      /\ i > InitEnd(p) /\ i < DropAt[p] => op \in WorkOps(p)
      /\ i = DropAt[p] => op = <<"drop">>
      /\ i > DropAt[p] /\ i < L => op \in ShutOps(p)
      /\ i = L => op = <<"close">>
  BY Where
<1>3. op \in Ops
  <2>1. Program[p] \in Seq(Ops) BY ProgramIs
  <2> QED BY <2>1
<1>4. /\ Quiet \subseteq Ops /\ NewOps(p) \subseteq Quiet /\ ForkOps(p) \subseteq Quiet
      /\ StarOps \subseteq Quiet /\ ShutOps(p) \subseteq Quiet
      /\ <<"drop">> \in Quiet /\ <<"close">> \in Quiet
  BY QuietOps
<1>5. <<"fork_rngs">> \in Quiet BY DEF Quiet
<1>11. L = Len(Program[p]) OBVIOUS
<1> SUFFICES Regions(p, i, op) OBVIOUS
<1> HIDE DEF op, L
<1>6. CASE i <= NewEnd[p]
  <2>1. op \in NewOps(p) /\ op \in Quiet BY <1>2, <1>4, <1>6
  <2>2. /\ op[1] \in {"dial", "greet", "accept", "identify", "open_coordinator"} \cup ChanNames
        /\ op[1] \in ChanNames => op \in ChanOps(p)
    BY ONLY <2>1, Names, p \in Workers
  <2> QED BY ONLY <1>1, <1>3, <1>6, <2>1, <2>2, <1>11 DEF Regions, ChanNames, LoudNames
<1>7. CASE i > NewEnd[p] /\ i <= NewEnd[p] + 5
  <2>1. op = First5[i - NewEnd[p]] BY <1>2, <1>7
  <2>2. \/ i = NewEnd[p] + 1 /\ i - NewEnd[p] = 1
        \/ i = NewEnd[p] + 2 /\ i - NewEnd[p] = 2
        \/ i = NewEnd[p] + 3 /\ i - NewEnd[p] = 3
        \/ i = NewEnd[p] + 4 /\ i - NewEnd[p] = 4
        \/ i = NewEnd[p] + 5 /\ i - NewEnd[p] = 5
    <3> DEFINE ne == NewEnd[p]
    <3>1. ne \in Nat /\ i \in Nat /\ i > ne /\ i <= ne + 5 BY <1>1, <1>7
    <3> HIDE DEF ne
    <3>2. i = ne + 1 \/ i = ne + 2 \/ i = ne + 3 \/ i = ne + 4 \/ i = ne + 5 BY ONLY <3>1
    <3>3. i - ne = 1 \/ i - ne = 2 \/ i - ne = 3 \/ i - ne = 4 \/ i - ne = 5 BY ONLY <3>1
    <3> QED BY ONLY <3>1, <3>2, <3>3 DEF ne
  <2>3. \/ i = NewEnd[p] + 1 /\ op[1] = "prf_send"
        \/ i = NewEnd[p] + 2 /\ op[1] = "prf_recv"
        \/ i = NewEnd[p] + 3 /\ op[1] = "bitcomp_send"
        \/ i = NewEnd[p] + 4 /\ op[1] = "bitcomp_recv"
        \/ i = NewEnd[p] + 5 /\ op[1] = "fork_rngs" /\ op \in Quiet
    BY ONLY <2>1, <2>2, <1>5, First5Is
  <2>a. i < DropAt[p] /\ i < L BY ONLY <1>1, <1>7
  <2>4. CASE i = NewEnd[p] + 1 /\ op[1] = "prf_send"
    BY ONLY <1>1, <1>3, <2>a, <2>4, <1>11 DEF Regions, ChanNames, LoudNames
  <2>5. CASE i = NewEnd[p] + 2 /\ op[1] = "prf_recv"
    BY ONLY <1>1, <1>3, <2>a, <2>5, <1>11 DEF Regions, ChanNames, LoudNames
  <2>6. CASE i = NewEnd[p] + 3 /\ op[1] = "bitcomp_send"
    BY ONLY <1>1, <1>3, <2>a, <2>6, <1>11 DEF Regions, ChanNames, LoudNames
  <2>7. CASE i = NewEnd[p] + 4 /\ op[1] = "bitcomp_recv"
    BY ONLY <1>1, <1>3, <2>a, <2>7, <1>11 DEF Regions, ChanNames, LoudNames
  <2>8. CASE i = NewEnd[p] + 5 /\ op[1] = "fork_rngs" /\ op \in Quiet
    BY ONLY <1>1, <1>3, <2>a, <2>8, <1>11 DEF Regions, ChanNames, LoudNames
  <2> QED BY ONLY <2>3, <2>4, <2>5, <2>6, <2>7, <2>8
<1>8. CASE i > NewEnd[p] + 5 /\ i <= InitEnd(p)
  <2>1. op \in ForkOps(p) /\ op \in Quiet BY <1>2, <1>4, <1>8
  <2>2. /\ op[1] \in {"fork_rngs"} \cup ChanNames
        /\ op[1] \in ChanNames => op \in ChanOps(p)
    BY ONLY <2>1, Names, p \in Workers
  <2>a. i < DropAt[p] /\ i < L /\ i > NewEnd[p] + 4 BY ONLY <1>1, <1>8
  <2>3. CASE op[1] = "fork_rngs"
    BY ONLY <1>1, <1>3, <2>1, <2>a, <2>3, <1>11 DEF Regions, ChanNames, LoudNames
  <2>4. CASE op[1] \in ChanNames
    BY ONLY <1>1, <1>3, <2>1, <2>2, <2>a, <2>4, <1>11 DEF Regions, ChanNames, LoudNames
  <2> QED BY ONLY <2>2, <2>3, <2>4
<1>9. CASE i > InitEnd(p) /\ i < DropAt[p]
  <2>1. op \in WorkOps(p) BY <1>2, <1>9
  <2>2. /\ op[1] \in {"recv_c", "send_c", "send", "recv", "par"}
        /\ op[1] \in {"send", "recv"} => op \in MsgOps(p)
        /\ op[1] = "par" => op \in ParOps
        /\ op[1] \in {"recv_c", "send_c"} => op \in StarOps
    BY ONLY <2>1, Names, p \in Workers
  <2> QED BY ONLY <1>1, <1>3, <1>4, <1>9, <2>1, <2>2, <1>11 DEF Regions, ChanNames, LoudNames
<1>10. CASE i >= DropAt[p]
  <2>1. /\ op[1] \in {"drop", "done", "wait_done", "close"} /\ op \in Quiet
        /\ op[1] = "drop" <=> i = DropAt[p]
        /\ op[1] \in {"done", "wait_done"} => op \in ShutOps(p)
        /\ i = L => op[1] = "close"
    <3>1. CASE i = DropAt[p] BY <3>1, <1>1, <1>2, <1>4
    <3>2. CASE i > DropAt[p] /\ i < L
      <4>1. op \in ShutOps(p) BY <3>2, <1>2
      <4>2. op[1] \in {"done", "wait_done"} BY ONLY <4>1, Names, p \in Workers
      <4> QED BY <4>1, <4>2, <3>2, <1>1, <1>4
    <3>3. CASE i = L BY <3>3, <1>1, <1>2, <1>4
    <3> QED BY <1>1, <1>10, <3>1, <3>2, <3>3 DEF L
  <2> QED BY ONLY <1>1, <1>3, <1>10, <2>1, <1>11 DEF Regions, ChanNames, LoudNames
<1> QED BY <1>1, <1>6, <1>7, <1>8, <1>9, <1>10 DEF op

\* The calls of the coordinator.
StarCalls ==
  {<<"accept">>, <<"identify">>, <<"drop">>, <<"close">>}
    \cup ({"accept_bi", "wait_done"} \X Workers \X {0})
    \cup ({"response"} \X Workers) \cup ({"request"} \X SUBSET Workers)

\* A family of lists of one element flattens to a sequence of those elements.
LEMMA EachOne ==
  ASSUME NEW T, NEW n \in Nat, NEW g, g = [i \in 1 .. n |-> g[i]],
         \A i \in 1 .. n : \E x \in T : g[i] = <<x>>
  PROVE  FlattenSeq(g) \in Seq(T)
<1>1. ASSUME NEW i \in 1 .. n PROVE g[i] \in Seq(T)
  <2>1. PICK x \in T : g[i] = <<x>> OBVIOUS
  <2> QED BY ONLY <2>1
<1> QED BY ONLY <1>1, n \in Nat, g = [i \in 1 .. n |-> g[i]], FlattenOf

\* The coordinator's set-up is made of its own kinds of operation.
LEMMA CoordinatorNewType == CoordinatorNew \in Seq(StarCalls)
<1> DEFINE c == << <<"accept">>, <<"identify">> >>
           R == [i \in 1 .. 3 |-> c]
           A == [i \in 1 .. 3 |-> << <<"accept_bi", <<0, 1, 2>>[i], 0>> >>]
<1>1. c \in Seq(StarCalls)
  <2>1. <<"accept">> \in StarCalls /\ <<"identify">> \in StarCalls BY DEF StarCalls
  <2> QED BY ONLY <2>1
<1>2. FlattenSeq(R) \in Seq(StarCalls)
  <2> HIDE DEF c
  <2>1. R = [i \in 1 .. 3 |-> R[i]] /\ \A i \in 1 .. 3 : R[i] \in Seq(StarCalls) BY ONLY <1>1
  <2> HIDE DEF R
  <2>2. 3 \in Nat OBVIOUS
  <2> QED BY ONLY <2>1, <2>2, FlattenOf
<1>3. FlattenSeq(A) \in Seq(StarCalls)
  <2>1. \A i \in 1 .. 3 : <<0, 1, 2>>[i] \in Workers BY DEF Workers
  <2>2. \A q \in Workers : <<"accept_bi", q, 0>> \in StarCalls BY DEF StarCalls
  <2>3. A = [i \in 1 .. 3 |-> A[i]] /\ \A i \in 1 .. 3 : A[i] = << <<"accept_bi", <<0, 1, 2>>[i], 0>> >>
    BY ONLY TRUE
  <2>4. \A i \in 1 .. 3 : \E x \in StarCalls : A[i] = <<x>> BY ONLY <2>1, <2>2, <2>3
  <2> HIDE DEF A
  <2>5. 3 \in Nat OBVIOUS
  <2> QED BY ONLY <2>3, <2>4, <2>5, EachOne
<1>4. CoordinatorNew = Cat(FlattenSeq(R), FlattenSeq(A))
  <2>1. DOMAIN <<0, 1, 2>> = 1 .. 3 OBVIOUS
  <2> QED BY ONLY <2>1 DEF CoordinatorNew, Repeat, ForEach, Cat
<1> HIDE DEF R, A
<1> QED BY ONLY <1>2, <1>3, <1>4, CatType

\* The coordinator's requests and responses are made of its own kinds of operation.
LEMMA CoordinatorRunType == CoordinatorRun \in Seq(StarCalls)
<1> DEFINE w == <<0, 1, 2, 0, 1, 2, 0, 1, 2>>
           A == [i \in 1 .. 9 |-> << <<"response", w[i]>> >>]
           a == << <<"request", {0, 1, 2}>> >>
           z == << <<"request", {0}>> >>
<1>1. a \in Seq(StarCalls) /\ z \in Seq(StarCalls)
  <2>1. <<"request", {0, 1, 2}>> \in StarCalls /\ <<"request", {0}>> \in StarCalls BY DEF StarCalls, Workers
  <2> QED BY ONLY <2>1
<1>2. FlattenSeq(A) \in Seq(StarCalls)
  <2>1. \A i \in 1 .. 9 : w[i] \in Workers BY DEF Workers
  <2>2. \A q \in Workers : <<"response", q>> \in StarCalls BY DEF StarCalls
  <2> HIDE DEF w
  <2>3. A = [i \in 1 .. 9 |-> A[i]] /\ \A i \in 1 .. 9 : A[i] = << <<"response", w[i]>> >> BY ONLY TRUE
  <2>4. \A i \in 1 .. 9 : \E x \in StarCalls : A[i] = <<x>> BY ONLY <2>1, <2>2, <2>3
  <2> HIDE DEF A
  <2>5. 9 \in Nat OBVIOUS
  <2> QED BY ONLY <2>3, <2>4, <2>5, EachOne
<1>3. CoordinatorRun = Cat(Cat(a, FlattenSeq(A)), z)
  <2>1. DOMAIN w = 1 .. 9 OBVIOUS
  <2> QED BY ONLY <2>1 DEF CoordinatorRun, ForEach, Cat
<1> HIDE DEF a, z, A
<1>4. Cat(a, FlattenSeq(A)) \in Seq(StarCalls) BY ONLY <1>1, <1>2, CatType
<1> QED BY ONLY <1>1, <1>3, <1>4, CatType

\* The coordinator's shutdown ends by closing its endpoint.
LEMMA CoordinatorShutdownType ==
  \E h \in Seq(StarCalls) :
    Len(h) > 0 /\ CoordinatorShutdown = Cat(h, << <<"close">> >>)
<1> DEFINE A == [i \in 1 .. 3 |-> << <<"wait_done", <<0, 1, 2>>[i], 0>> >>]
           a == << <<"drop">> >>
           h == Cat(a, FlattenSeq(A))
<1>1. a \in Seq(StarCalls) /\ Len(a) = 1
  <2>1. <<"drop">> \in StarCalls BY DEF StarCalls
  <2> QED BY ONLY <2>1
<1>3. FlattenSeq(A) \in Seq(StarCalls)
  <2>1. \A i \in 1 .. 3 : <<0, 1, 2>>[i] \in Workers BY DEF Workers
  <2>2. \A q \in Workers : <<"wait_done", q, 0>> \in StarCalls BY DEF StarCalls
  <2>3. A = [i \in 1 .. 3 |-> A[i]] /\ \A i \in 1 .. 3 : A[i] = << <<"wait_done", <<0, 1, 2>>[i], 0>> >>
    BY ONLY TRUE
  <2>4. \A i \in 1 .. 3 : \E x \in StarCalls : A[i] = <<x>> BY ONLY <2>1, <2>2, <2>3
  <2> HIDE DEF A
  <2>5. 3 \in Nat OBVIOUS
  <2> QED BY ONLY <2>3, <2>4, <2>5, EachOne
<1>4. CoordinatorShutdown = Cat(h, << <<"close">> >>)
  <2>1. DOMAIN <<0, 1, 2>> = 1 .. 3 OBVIOUS
  <2> QED BY ONLY <2>1 DEF CoordinatorShutdown, ForEach, Cat
<1> HIDE DEF a, A
<1>5. h \in Seq(StarCalls) /\ Len(h) = Len(a) + Len(FlattenSeq(A))
  <2> DEFINE b == FlattenSeq(A)
  <2>1. a \in Seq(StarCalls) BY <1>1
  <2>2. b \in Seq(StarCalls) BY <1>3
  <2> HIDE DEF b
  <2>3. Cat(a, b) \in Seq(StarCalls) BY ONLY <2>1, <2>2, CatType
  <2>4. Len(Cat(a, b)) = Len(a) + Len(b) BY ONLY <2>1, <2>2, CatLen
  <2> QED BY ONLY <2>3, <2>4 DEF b
<1>6. Len(FlattenSeq(A)) \in Nat BY ONLY <1>3
<1>7. Len(h) > 0 BY ONLY <1>1, <1>5, <1>6
<1> HIDE DEF h
<1> QED BY ONLY <1>4, <1>5, <1>7

\* The coordinator's program: its operations, its last one, and where it drops its channels.
LEMMA CoordinatorProgram ==
  /\ Program[Coordinator] \in Seq(StarCalls) /\ Len(Program[Coordinator]) \in Nat \ {0}
  /\ Program[Coordinator][Len(Program[Coordinator])] = <<"close">>
  /\ DropAt[Coordinator] \in Nat /\ DropAt[Coordinator] + 1 <= Len(Program[Coordinator])
<1> DEFINE n == Cat(CoordinatorNew, CoordinatorRun)  z == << <<"close">> >>
<1>1. PICK h \in Seq(StarCalls) : Len(h) > 0 /\ CoordinatorShutdown = Cat(h, z)
  BY CoordinatorShutdownType
<1>2. n \in Seq(StarCalls) BY ONLY CoordinatorNewType, CoordinatorRunType, CatType
<1>3. z \in Seq(StarCalls) /\ Len(z) = 1 /\ z[1] = <<"close">>
  <2>1. <<"close">> \in StarCalls BY DEF StarCalls
  <2> QED BY ONLY <2>1
<1>4. Coordinator \in Procs BY DEF Procs
<1>5. Program[Coordinator] = Cat(n, CoordinatorShutdown)
  BY ONLY <1>4 DEF Program, Cat
<1>6. DropAt[Coordinator] = 1 + Len(n)
  BY ONLY <1>4 DEF DropAt, Cat
<1> HIDE DEF n, z
<1>7. /\ CoordinatorShutdown \in Seq(StarCalls) /\ Len(CoordinatorShutdown) = Len(h) + 1
      /\ CoordinatorShutdown[Len(h) + 1] = <<"close">>
  <2>1. /\ Cat(h, z) \in Seq(StarCalls) /\ Len(Cat(h, z)) = Len(h) + Len(z)
        /\ \A i \in 1 .. Len(z) : Cat(h, z)[Len(h) + i] = z[i]
    <3>1. z \in Seq(StarCalls) BY <1>3
    <3>2. h \in Seq(StarCalls) OBVIOUS
    <3> QED BY ONLY <3>1, <3>2, CatType
  <2> QED BY ONLY <1>1, <1>3, <2>1
<1>8. /\ Program[Coordinator] \in Seq(StarCalls)
      /\ Len(Program[Coordinator]) = Len(n) + Len(CoordinatorShutdown)
      /\ \A i \in 1 .. Len(CoordinatorShutdown) : Program[Coordinator][Len(n) + i] = CoordinatorShutdown[i]
  <2>1. /\ Cat(n, CoordinatorShutdown) \in Seq(StarCalls)
        /\ Len(Cat(n, CoordinatorShutdown)) = Len(n) + Len(CoordinatorShutdown)
        /\ \A i \in 1 .. Len(CoordinatorShutdown) :
              Cat(n, CoordinatorShutdown)[Len(n) + i] = CoordinatorShutdown[i]
    <3>1. CoordinatorShutdown \in Seq(StarCalls) BY <1>7
    <3> QED BY ONLY <1>2, <3>1, CatType
  <2> QED BY ONLY <1>5, <2>1
<1>9. Len(n) \in Nat /\ Len(h) \in Nat BY <1>2
<1>10. Program[Coordinator][Len(n) + (Len(h) + 1)] = <<"close">> BY ONLY <1>7, <1>8, <1>9
<1> QED BY ONLY <1>1, <1>6, <1>7, <1>8, <1>9, <1>10

-----------------------------------------------------------------------------
(* What a step does to the queues *)

\* A queue keeps the flow as long as both ends' counts stand, or a dropped end empties it.
LEMMA FlowKeep ==
  ASSUME NEW Q, NEW ins \in Nat, NEW outs, NEW all, NEW tr \in BOOLEAN, NEW fr \in BOOLEAN,
         FlowFits(Q, ins, outs, all, tr, fr), Len(Q) \in Nat, Len(all) \in Nat,
         NEW Q2, NEW ins2, NEW outs2, NEW tr2 \in BOOLEAN, NEW fr2 \in BOOLEAN,
         tr2 => tr /\ ins2 = ins /\ (Q2 = Q \/ (Q2 = <<>> /\ ~fr2)),
         fr2 => fr /\ outs2 = outs
  PROVE  FlowFits(Q2, ins2, outs2, all, tr2, fr2)
<1> SUFFICES ASSUME tr2
             PROVE  /\ ins2 + Len(Q2) <= Len(all)
                    /\ \A i \in 1 .. Len(Q2) : Q2[i] = all[ins2 + i]
                    /\ fr2 => ins2 + Len(Q2) = outs2
  BY DEF FlowFits
<1>1. /\ ins + Len(Q) <= Len(all)
      /\ \A i \in 1 .. Len(Q) : Q[i] = all[ins + i]
      /\ fr => ins + Len(Q) = outs
  BY DEF FlowFits
<1>2. CASE Q2 = Q BY <1>1, <1>2
<1>3. CASE Q2 = <<>> /\ ~fr2
  <2>1. Len(Q2) = 0 BY <1>3
  <2> QED BY ONLY <1>1, <1>3, <2>1, tr2, tr2 => tr /\ ins2 = ins, ins \in Nat, Len(Q) \in Nat, Len(all) \in Nat
<1> QED BY <1>2, <1>3

\* The next message of a sender may join the queue.
LEMMA FlowPut ==
  ASSUME NEW Q \in Seq(AllMsgs), NEW ins \in Nat, NEW outs \in Nat, NEW all, NEW m \in AllMsgs,
         NEW tr \in BOOLEAN, FlowFits(Q, ins, outs, all, tr, TRUE), outs + 1 <= Len(all),
         all[outs + 1] = m
  PROVE  FlowFits(Append(Q, m), ins, outs + 1, all, tr, TRUE)
<1> SUFFICES ASSUME tr
             PROVE  /\ ins + Len(Append(Q, m)) <= Len(all)
                    /\ \A i \in 1 .. Len(Append(Q, m)) : Append(Q, m)[i] = all[ins + i]
                    /\ ins + Len(Append(Q, m)) = outs + 1
  BY DEF FlowFits
<1>1. /\ \A i \in 1 .. Len(Q) : Q[i] = all[ins + i]
      /\ ins + Len(Q) = outs
  BY DEF FlowFits
<1>2. /\ Len(Append(Q, m)) = Len(Q) + 1 /\ Append(Q, m)[Len(Q) + 1] = m
      /\ \A i \in 1 .. Len(Q) : Append(Q, m)[i] = Q[i]
      /\ Len(Q) \in Nat
  OBVIOUS
<1>3. ASSUME NEW i \in 1 .. Len(Q) + 1 PROVE Append(Q, m)[i] = all[ins + i]
  <2>1. CASE i \in 1 .. Len(Q) BY ONLY <2>1, <1>1, <1>2
  <2>2. CASE i = Len(Q) + 1
    <3>1. ins + i = outs + 1 BY ONLY <2>2, <1>1, <1>2, ins \in Nat
    <3> QED BY ONLY <3>1, <2>2, <1>2, all[outs + 1] = m
  <2> QED BY <2>1, <2>2, <1>2
<1> QED BY ONLY <1>1, <1>2, <1>3, ins \in Nat, outs \in Nat, outs + 1 <= Len(all)

\* The head of a queue is the receiver's next message, and the flow stands without it.
LEMMA FlowTake ==
  ASSUME NEW Q \in Seq(AllMsgs), Q # <<>>, NEW ins \in Nat, NEW outs, NEW all,
         NEW fr \in BOOLEAN, FlowFits(Q, ins, outs, all, TRUE, fr), Len(all) \in Nat
  PROVE  /\ FlowFits(Tail(Q), ins + 1, outs, all, TRUE, fr)
         /\ Head(Q) = all[ins + 1] /\ ins + 1 <= Len(all)
<1>1. /\ ins + Len(Q) <= Len(all)
      /\ \A i \in 1 .. Len(Q) : Q[i] = all[ins + i]
      /\ fr => ins + Len(Q) = outs
  BY DEF FlowFits
<1>2. /\ Len(Q) \in Nat /\ Len(Q) >= 1 /\ Len(Tail(Q)) = Len(Q) - 1 /\ Head(Q) = Q[1]
      /\ \A i \in 1 .. Len(Q) - 1 : Tail(Q)[i] = Q[i + 1]
  OBVIOUS
<1>3. ASSUME NEW i \in 1 .. Len(Q) - 1 PROVE Tail(Q)[i] = all[ins + 1 + i]
  <2>1. i + 1 \in 1 .. Len(Q) /\ ins + (i + 1) = ins + 1 + i BY ONLY <1>2, ins \in Nat
  <2>2. Q[i + 1] = all[ins + (i + 1)] BY ONLY <1>1, <2>1
  <2> QED BY ONLY <1>2, <2>1, <2>2
<1>4. /\ ins + 1 + Len(Tail(Q)) <= Len(all)
      /\ \A i \in 1 .. Len(Tail(Q)) : Tail(Q)[i] = all[ins + 1 + i]
      /\ fr => ins + 1 + Len(Tail(Q)) = outs
      /\ Head(Q) = all[ins + 1] /\ ins + 1 <= Len(all)
  <2> DEFINE n == Len(Q)  t == Tail(Q)  l == Len(all)
  <2>1. /\ n \in Nat /\ n >= 1 /\ Len(t) = n - 1 /\ l \in Nat /\ ins + n <= l
        /\ fr => ins + n = outs
    BY <1>1, <1>2
  <2>2. \A i \in 1 .. n - 1 : t[i] = all[ins + 1 + i] BY <1>3
  <2>3. Head(Q) = all[ins + 1] BY <1>1, <1>2
  <2> HIDE DEF n, t, l
  <2>4. ins + 1 + Len(t) <= l /\ ins + 1 <= l BY ONLY <2>1, ins \in Nat
  <2>5. \A i \in 1 .. Len(t) : t[i] = all[ins + 1 + i] BY ONLY <2>1, <2>2
  <2>6. ins + 1 + Len(t) = ins + n BY ONLY <2>1, ins \in Nat
  <2>7. fr => ins + 1 + Len(t) = outs BY ONLY <2>1, <2>6
  <2> QED BY ONLY <2>3, <2>4, <2>5, <2>7 DEF n, t, l
<1> QED BY ONLY <1>4 DEF FlowFits

\* A worker's current operation, and the part of the program it stands in.
LEMMA PcAt ==
  ASSUME PcInv, NEW p \in Workers
  PROVE  /\ pc[p] \in 1 .. Len(Program[p]) /\ Regions(p, pc[p], Program[p][pc[p]])
         /\ Op(p) = Program[p][pc[p]]
         /\ status[p] = "run" => pc[p] <= DropAt[p]
         /\ status[p] = "leaving" => pc[p] > DropAt[p]
<1>1. p \in Procs BY DEF Procs
<1>2. PcFits(p, pc[p], status[p]) BY <1>1 DEF PcInv
<1>3. pc[p] \in 1 .. Len(Program[p]) BY <1>2 DEF PcFits
<1>4. Regions(p, pc[p], Program[p][pc[p]]) BY <1>3, Located
<1> QED BY <1>2, <1>3, <1>4 DEF PcFits, Op

\* A stream's queue is a sequence of messages.
LEMMA QueueType ==
  ASSUME WireInv, NEW key
  PROVE  Queue(key) \in Seq(AllMsgs) /\ Len(Queue(key)) \in Nat
<1>1. Queue(key) \in Seq(AllMsgs) BY DEF WireInv, Queue
<1> QED BY <1>1

\* Outside a parallel call no chunk has sent or received anything.
LEMMA NoPoolCounts ==
  ASSUME NEW k
  PROVE  ChunkSent(NoPool, k) = 0 /\ ChunkRecvd(NoPool, k) = 0 /\ ~Abandoned(NoPool, k)
BY DEF ChunkSent, ChunkRecvd, Abandoned, InChunk, NoPool

\* The messages a chunk has sent and received are counted by natural numbers.
LEMMA CountType ==
  ASSUME NEW pl, NEW op, NEW st, PoolFits(pl, op, st), NEW k \in Ctxs
  PROVE  ChunkSent(pl, k) \in Nat /\ ChunkRecvd(pl, k) \in Nat
<1>1. CASE pl = NoPool BY <1>1, NoPoolCounts
<1>2. CASE pl # NoPool
  <2> DEFINE n == ChunksOf(pl.call)  r == CALLS[pl.call].rounds
  <2>1. pl.call \in DOMAIN CALLS /\ PoolOK(n, r, pl)
    BY <1>2 DEF PoolFits, Parallel
  <2>2. r \in Nat BY <2>1, CallsTyped
  <2> HIDE DEF n, r
  <2>3. pl.at \in [0 .. n - 1 -> Nat \cup {Fin}] BY <2>1 DEF PoolOK, Pools
  <2>4. ASSUME k - 1 \in DOMAIN pl.at
        PROVE  SentN(pl.at[k - 1], r) \in Nat /\ RecvN(pl.at[k - 1], r) \in Nat
    <3> DEFINE a == pl.at[k - 1]
    <3>1. a \in Nat \cup {Fin} BY <2>3, <2>4
    <3> HIDE DEF a
    <3>2. a \in Nat => a \div 2 \in Nat BY Half
    <3>3. a \in Nat /\ a # 0 => (a - 1) \div 2 \in Nat
      <4>1. SUFFICES ASSUME a \in Nat, a # 0 PROVE (a - 1) \div 2 \in Nat OBVIOUS
      <4>2. a - 1 \in Nat BY <4>1
      <4> QED BY <4>2, Half
    <3>4. SentN(a, r) \in Nat /\ RecvN(a, r) \in Nat BY ONLY <2>2, <3>1, <3>2, <3>3 DEF SentN, RecvN
    <3> QED BY <3>4 DEF a
  <2> QED BY <2>4 DEF ChunkSent, ChunkRecvd, InChunk, r
<1> QED BY <1>1, <1>2

\* The counts, queues and conditions of a flow have their types.
LEMMA FlowTypes ==
  ASSUME PcInv, PoolInv, WireInv, NEW q \in Workers, NEW p \in Workers \ {q}, NEW k \in Ctxs
  PROVE  /\ InsOf(q, p, k, pc[p], pool[p]) \in Nat /\ OutsOf(q, p, k, pc[q], pool[q]) \in Nat
         /\ Queue(SKey(q, p, k)) \in Seq(AllMsgs) /\ Len(Queue(SKey(q, p, k))) \in Nat
         /\ Len(All(q, p, k)) \in Nat
         /\ Active(status[p], pool[p], k) \in BOOLEAN /\ Active(status[q], pool[q], k) \in BOOLEAN
<1>1. pc[p] \in 1 .. Len(Program[p]) /\ pc[q] \in 1 .. Len(Program[q]) BY PcAt
<1>2. InAt(q, p, k, pc[p]) \in Nat BY <1>1, InStep
<1>3. OutAt(q, p, k, pc[q]) \in Nat BY <1>1, OutStep
<1>4. PoolFits(pool[p], Program[p][pc[p]], status[p]) /\ PoolFits(pool[q], Program[q][pc[q]], status[q])
  BY DEF PoolInv
<1>5. ChunkSent(pool[q], k) \in Nat /\ ChunkRecvd(pool[p], k) \in Nat BY ONLY <1>4, CountType, k \in Ctxs
<1>6. InsOf(q, p, k, pc[p], pool[p]) \in Nat /\ OutsOf(q, p, k, pc[q], pool[q]) \in Nat
  BY ONLY <1>2, <1>3, <1>5 DEF InsOf, OutsOf
<1>7. Active(status[p], pool[p], k) \in BOOLEAN /\ Active(status[q], pool[q], k) \in BOOLEAN
  BY DEF Active
<1>8. Queue(SKey(q, p, k)) \in Seq(AllMsgs) /\ Len(Queue(SKey(q, p, k))) \in Nat
  BY ONLY QueueType, WireInv
<1>9. Len(All(q, p, k)) \in Nat BY AllType
<1> QED BY ONLY <1>6, <1>7, <1>8, <1>9

\* A step leaves alone what q has sent to p in context k, or what p has received from q.
OutSteady(q, p, k) ==
  Active(status[q], pool[q], k)' =>
    /\ Active(status[q], pool[q], k)
    /\ OutsOf(q, p, k, pc[q], pool[q])' = OutsOf(q, p, k, pc[q], pool[q])
InSteady(q, p, k) ==
  Active(status[p], pool[p], k)' =>
    /\ Active(status[p], pool[p], k)
    /\ InsOf(q, p, k, pc[p], pool[p])' = InsOf(q, p, k, pc[p], pool[p])
QueueKept(q, p, k) ==
  \/ Queue(SKey(q, p, k))' = Queue(SKey(q, p, k))
  \/ Queue(SKey(q, p, k))' = <<>> /\ (status'[q] # "run" \/ status'[p] # "run")

\* A step that leaves both ends' counts and the queue alone leaves the flow alone.
LEMMA FlowSteady ==
  ASSUME PcInv, PoolInv, WireInv, NEW q \in Workers, NEW p \in Workers \ {q}, NEW k \in Ctxs,
         Flow(q, p, k), OutSteady(q, p, k), InSteady(q, p, k), QueueKept(q, p, k)
  PROVE  Flow(q, p, k)'
<1> DEFINE Q == Queue(SKey(q, p, k))  ins == InsOf(q, p, k, pc[p], pool[p])
           outs == OutsOf(q, p, k, pc[q], pool[q])  all == All(q, p, k)
           tr == Active(status[p], pool[p], k)  fr == Active(status[q], pool[q], k)
           Q2 == Queue(SKey(q, p, k))'  ins2 == InsOf(q, p, k, pc[p], pool[p])'
           outs2 == OutsOf(q, p, k, pc[q], pool[q])'
           tr2 == Active(status[p], pool[p], k)'  fr2 == Active(status[q], pool[q], k)'
<1>1. /\ ins \in Nat /\ Len(Q) \in Nat /\ Len(all) \in Nat /\ tr \in BOOLEAN /\ fr \in BOOLEAN
  BY FlowTypes
<1>2. tr2 \in BOOLEAN /\ fr2 \in BOOLEAN BY DEF Active
<1>3. FlowFits(Q, ins, outs, all, tr, fr) BY DEF Flow
<1>4. tr2 => tr /\ ins2 = ins BY DEF InSteady
<1>5. fr2 => fr /\ outs2 = outs BY DEF OutSteady
<1>6. tr2 => Q2 = Q \/ (Q2 = <<>> /\ ~fr2) BY DEF QueueKept, Active
<1>7. FlowFits(Q2, ins2, outs2, all, tr2, fr2) = Flow(q, p, k)' BY DEF Flow
<1> HIDE DEF Q, ins, outs, all, tr, fr, Q2, ins2, outs2, tr2, fr2
<1>8. tr2 => tr /\ ins2 = ins /\ (Q2 = Q \/ (Q2 = <<>> /\ ~fr2)) BY ONLY <1>4, <1>6
<1>9. FlowFits(Q2, ins2, outs2, all, tr2, fr2) BY ONLY <1>1, <1>2, <1>3, <1>5, <1>8, FlowKeep
<1> QED BY <1>7, <1>9

\* A worker leaves, does nothing, or takes a call that is none of its peers' business.
Calm(a) ==
  \/ status'[a] # "run" /\ pool'[a] = NoPool
  \/ status'[a] = status[a] /\ pc'[a] = pc[a] /\ pool'[a] = pool[a]
  \/ /\ status[a] = "run" /\ status'[a] = "run" /\ pc'[a] = pc[a] + 1
     /\ pool[a] = NoPool /\ pool'[a] = NoPool
     /\ Op(a)[1] \notin LoudNames

\* A worker that stops, stands still or takes a quiet step moves none of its counts.
LEMMA CalmSteady ==
  ASSUME PcInv, NEW a \in Workers, Calm(a), NEW b \in Workers \ {a}, NEW k \in Ctxs
  PROVE  OutSteady(a, b, k) /\ InSteady(b, a, k)
<1>1. CASE status'[a] # "run" BY <1>1 DEF OutSteady, InSteady, Active
<1>2. CASE status'[a] = status[a] /\ pc'[a] = pc[a] /\ pool'[a] = pool[a]
  BY <1>2 DEF OutSteady, InSteady
<1>3. CASE /\ status[a] = "run" /\ status'[a] = "run" /\ pc'[a] = pc[a] + 1
           /\ pool'[a] = pool[a] /\ Op(a)[1] \notin LoudNames
  <2>1. pc[a] \in 1 .. Len(Program[a]) /\ Program[a][pc[a]] \in Quiet BY <1>3, PcAt DEF Regions
  <2>2. OutAt(a, b, k, pc'[a]) = OutAt(a, b, k, pc[a]) /\ InAt(b, a, k, pc'[a]) = InAt(b, a, k, pc[a])
    BY <2>1, <1>3, QuietCount
  <2> QED BY <1>3, <2>2 DEF OutSteady, InSteady, Active, OutsOf, InsOf
<1> QED BY <1>1, <1>2, <1>3 DEF Calm

PeersKept ==
  \A a \in Workers : \A b \in Workers \ {a} :
    /\ chans'[a][b] = chans[a][b]
    /\ \A l \in LaneSet : Streams(a, b, l)' = Streams(a, b, l)

\* Channels fit the programs still when neither the channels nor the streams move.
LEMMA ChanKept ==
  ASSUME ChanInv, PeersKept,
         \A a \in Workers : \A b \in Workers \ {a} :
           status'[a] = "run" => status[a] = "run" /\ NumChans(a, b, pc'[a]) = NumChans(a, b, pc[a])
  PROVE  ChanInv'
<1> SUFFICES ASSUME NEW p \in Workers, NEW q \in Workers \ {p}
             PROVE  /\ ChanFits(p, q, chans'[p][q], pc'[p], status'[p])
                    /\ \A l \in LaneSet : Streams(p, q, l)' = LaneCount(Len(chans'[p][q]), l)
  BY DEF ChanInv
<1>1. /\ ChanFits(p, q, chans[p][q], pc[p], status[p])
      /\ \A l \in LaneSet : Streams(p, q, l) = LaneCount(Len(chans[p][q]), l)
  BY DEF ChanInv
<1>2. /\ chans'[p][q] = chans[p][q]
      /\ \A l \in LaneSet : Streams(p, q, l)' = Streams(p, q, l)
  BY DEF PeersKept
<1>3. status'[p] = "run" => status[p] = "run" /\ NumChans(p, q, pc'[p]) = NumChans(p, q, pc[p])
  OBVIOUS
<1> QED BY ONLY <1>1, <1>2, <1>3 DEF ChanFits

\* Except for prf_recv and bitcomp_recv, an operation asks nothing new of the generators.
LEMMA RngStep ==
  ASSUME NEW p \in Workers, NEW r, NEW i \in 1 .. Len(Program[p]), NEW st, RngFits(p, r, i, st),
         i # NewEnd[p] + 2, i # NewEnd[p] + 4
  PROVE  RngFits(p, r, i + 1, st)
<1>1. NewEnd[p] \in Nat /\ i \in Nat BY ProgramIs, Where
<1>2. (i + 1 > NewEnd[p] + 2 => i > NewEnd[p] + 2) /\ (i + 1 > NewEnd[p] + 4 => i > NewEnd[p] + 4)
      /\ (i + 1 <= NewEnd[p] + 4 => i <= NewEnd[p] + 4)
  BY <1>1
<1> QED BY ONLY <1>2, RngFits(p, r, i, st) DEF RngFits

\* A step that opens and accepts no stream between workers keeps the channels' invariant.
LEMMA CalmChan ==
  ASSUME PcInv, ChanInv, PeersKept,
         \A a \in Workers : Calm(a) /\ (pc'[a] # pc[a] => Op(a)[1] \notin {"open_bi", "accept_bi"})
  PROVE  ChanInv'
<1>1. ASSUME NEW a \in Workers, NEW b \in Workers \ {a}, status'[a] = "run"
      PROVE  status[a] = "run" /\ NumChans(a, b, pc'[a]) = NumChans(a, b, pc[a])
  <2>1. CASE status'[a] = status[a] /\ pc'[a] = pc[a] BY <2>1, <1>1
  <2>2. CASE status[a] = "run" /\ pc'[a] = pc[a] + 1
    <3>0. pc[a] \in 1 .. Len(Program[a]) BY PcAt
    <3>1. pc'[a] # pc[a] BY <2>2, <3>0
    <3>2. Program[a][pc[a]][1] \notin {"open_bi", "accept_bi"} BY <3>1, PcAt
    <3>3. NumChans(a, b, pc[a] + 1) = NumChans(a, b, pc[a])
      BY ONLY <3>0, <3>2, NumChansStep, a \in Workers, b \in Workers \ {a}
    <3> QED BY <2>2, <3>3
  <2> QED BY <1>1, <2>1, <2>2 DEF Calm
<1> QED BY ONLY <1>1, ChanKept, ChanInv, PeersKept

\* A step that leaves the generators alone keeps their invariant.
LEMMA CalmRng ==
  ASSUME PcInv, RngInv, \A a \in Workers : Calm(a), rngs' = rngs
  PROVE  RngInv'
<1>1. ASSUME NEW a \in Workers PROVE RngFits(a, rngs[a], pc'[a], status'[a])
  <2>0. RngFits(a, rngs[a], pc[a], status[a]) BY DEF RngInv
  <2>1. CASE status'[a] = status[a] /\ pc'[a] = pc[a] BY <2>0, <2>1
  <2>2. CASE status[a] = status'[a] /\ pc'[a] = pc[a] + 1 /\ Op(a)[1] \notin LoudNames
    <3>1. /\ pc[a] \in 1 .. Len(Program[a])
          /\ pc[a] > NewEnd[a] /\ pc[a] <= NewEnd[a] + 4 => Op(a)[1] \in LoudNames
      BY PcAt DEF Regions
    <3>2. NewEnd[a] \in Nat BY ProgramIs
    <3>3. pc[a] # NewEnd[a] + 2 /\ pc[a] # NewEnd[a] + 4
      BY ONLY <2>2, <3>1, <3>2
    <3>4. RngFits(a, rngs[a], pc[a] + 1, status[a])
      BY ONLY <2>0, <3>1, <3>3, RngStep, a \in Workers
    <3> QED BY <2>2, <3>4
  <2>3. CASE status'[a] # "run" BY <2>0, <2>3 DEF RngFits
  <2> QED BY <2>1, <2>2, <2>3 DEF Calm
<1>2. rngs' = [a \in Workers |-> rngs'[a]] BY DEF RngInv
<1> QED BY <1>1, <1>2 DEF RngInv

\* A step of calm workers keeps every flow and the pools.
LEMMA CalmFlow ==
  ASSUME PcInv, PoolInv, WireInv, FlowInv, \A a \in Workers : Calm(a),
         pool' = [a \in Workers |-> pool'[a]],
         \A q \in Workers : \A p \in Workers \ {q} : \A k \in Ctxs : QueueKept(q, p, k)
  PROVE  PoolInv' /\ FlowInv'
<1>1. PoolInv'
  <2>1. ASSUME NEW a \in Workers PROVE PoolFits(pool'[a], Program[a][pc'[a]], status'[a])
    <3>0. PoolFits(pool[a], Program[a][pc[a]], status[a]) BY DEF PoolInv
    <3>1. CASE pool'[a] = NoPool BY <3>1 DEF PoolFits
    <3>2. CASE status'[a] = status[a] /\ pc'[a] = pc[a] /\ pool'[a] = pool[a] BY <3>0, <3>2
    <3> QED BY <3>1, <3>2 DEF Calm
  <2> QED BY <2>1 DEF PoolInv
<1>2. FlowInv'
  <2>1. ASSUME NEW q \in Workers, NEW p \in Workers \ {q}, NEW k \in Ctxs PROVE Flow(q, p, k)'
    <3>1. OutSteady(q, p, k) BY CalmSteady
    <3>0. q \in Workers \ {p} /\ p \in Workers OBVIOUS
    <3>2. InSteady(q, p, k) BY <3>0, CalmSteady
    <3>3. QueueKept(q, p, k) OBVIOUS
    <3>4. Flow(q, p, k) BY DEF FlowInv
    <3> QED BY ONLY <3>1, <3>2, <3>3, <3>4, FlowSteady, PcInv, PoolInv, WireInv,
                    q \in Workers, p \in Workers \ {q}, k \in Ctxs
  <2> QED BY <2>1 DEF FlowInv
<1> QED BY <1>1, <1>2

-----------------------------------------------------------------------------
(* The position in the program *)

Moves(p) ==
  /\ status[p] # "gone" /\ Op(p)[1] \notin {"drop", "close"}
  /\ Advance(p) /\ UNCHANGED status

\* Every program ends with close, and a worker's drop stands where DropAt says.
LEMMA LastCall ==
  ASSUME PcInv, NEW p \in Procs
  PROVE  /\ pc[p] \in 1 .. Len(Program[p]) /\ Len(Program[p]) \in Nat
         /\ Op(p)[1] # "close" => pc[p] < Len(Program[p])
         /\ p \in Workers => (pc[p] = DropAt[p] <=> Op(p)[1] = "drop")
         /\ DropAt[p] \in Nat /\ DropAt[p] + 1 <= Len(Program[p])
<1>1. pc[p] \in 1 .. Len(Program[p]) BY DEF PcInv, PcFits
<1>2. CASE p \in Workers
  <2>1. Regions(p, pc[p], Op(p)) BY <1>2, PcAt
  <2>2. Len(Program[p]) \in Nat /\ Len(Program[p]) >= DropAt[p] + 2 BY <1>2, Where
  <2>3. DropAt[p] \in Nat BY <1>2, ProgramIs
  <2>4. /\ pc[p] = DropAt[p] <=> Op(p)[1] = "drop"
        /\ pc[p] = Len(Program[p]) => Op(p)[1] = "close"
    BY <2>1 DEF Regions
  <2> QED BY <1>1, <2>2, <2>3, <2>4
<1>3. CASE p = Coordinator
  <2>1. Coordinator \notin Workers BY DEF Coordinator, Workers
  <2>2. Op(p)[1] # "close" => pc[p] # Len(Program[p])
    <3>1. SUFFICES ASSUME pc[p] = Len(Program[p]) PROVE Op(p)[1] = "close" OBVIOUS
    <3>2. Op(p) = <<"close">> BY <3>1, <1>3, CoordinatorProgram DEF Op
    <3> QED BY <3>2
  <2>3. Len(Program[p]) \in Nat /\ DropAt[p] \in Nat /\ DropAt[p] + 1 <= Len(Program[p])
    BY <1>3, CoordinatorProgram
  <2> QED BY <1>1, <1>3, <2>1, <2>2, <2>3
<1> QED BY <1>2, <1>3 DEF Procs

\* A step of the main thread advances one program counter within its program.
LEMMA MovesPc ==
  ASSUME PcInv, NEW p \in Procs, Moves(p)
  PROVE  /\ PcInv' /\ pc'[p] = pc[p] + 1
         /\ \A r \in Procs \ {p} : pc'[r] = pc[r]
<1>1. /\ pc' = [pc EXCEPT ![p] = pc[p] + 1] /\ pc = [r \in Procs |-> pc[r]]
      /\ status' = status
  BY DEF Moves, Advance, PcInv
<1>2. pc' = [r \in Procs |-> IF r = p THEN pc[p] + 1 ELSE pc[r]] BY ONLY <1>1
<1>3. /\ pc'[p] = pc[p] + 1 /\ \A r \in Procs \ {p} : pc'[r] = pc[r]
      /\ pc' = [r \in Procs |-> pc'[r]]
  BY ONLY <1>2, p \in Procs
<1>4. PcFits(p, pc[p] + 1, status[p])
  <2>1. /\ pc[p] \in 1 .. Len(Program[p]) /\ Len(Program[p]) \in Nat
        /\ pc[p] < Len(Program[p])
        /\ p \in Workers => pc[p] # DropAt[p]
        /\ DropAt[p] \in Nat
    BY LastCall DEF Moves
  <2>2. p \in Workers => /\ status[p] = "run" => pc[p] <= DropAt[p]
                         /\ status[p] = "leaving" => pc[p] > DropAt[p]
    BY DEF PcInv, PcFits
  <2> QED BY ONLY <2>1, <2>2 DEF PcFits
<1>5. \A r \in Procs : PcFits(r, pc'[r], status'[r])
  <2>1. \A r \in Procs : PcFits(r, pc[r], status[r]) BY DEF PcInv
  <2> QED BY ONLY <1>1, <1>3, <1>4, <2>1
<1> QED BY <1>3, <1>5 DEF PcInv

\* A process stops: its call fails, it drops the network, or it dies.
Stops(p, i, st) ==
  /\ st \in {"leaving", "gone"} /\ PcFits(p, i, st)
  /\ status' = [status EXCEPT ![p] = st] /\ pc' = [pc EXCEPT ![p] = i]

\* A process that stops keeps the program counters' invariant.
LEMMA StopsPc ==
  ASSUME TypeInv, PcInv, NEW p \in Procs, NEW i, NEW st, Stops(p, i, st)
  PROVE  /\ PcInv' /\ status' \in [Procs -> {"run", "leaving", "gone"}] /\ status'[p] # "run"
         /\ \A r \in Procs \ {p} : pc'[r] = pc[r] /\ status'[r] = status[r]
<1>1. /\ status' = [status EXCEPT ![p] = st] /\ pc' = [pc EXCEPT ![p] = i]
      /\ pc = [r \in Procs |-> pc[r]] /\ st \in {"leaving", "gone"} /\ PcFits(p, i, st)
      /\ status \in [Procs -> {"run", "leaving", "gone"}]
      /\ \A r \in Procs : PcFits(r, pc[r], status[r])
  BY DEF Stops, PcInv, TypeInv
<1>2. /\ status' \in [Procs -> {"run", "leaving", "gone"}] /\ status'[p] = st
      /\ \A r \in Procs \ {p} : status'[r] = status[r]
  BY ONLY <1>1, p \in Procs
<1>3. pc' = [r \in Procs |-> IF r = p THEN i ELSE pc[r]] BY ONLY <1>1
<1>4. pc'[p] = i /\ pc' = [r \in Procs |-> pc'[r]] /\ \A r \in Procs \ {p} : pc'[r] = pc[r]
  BY ONLY <1>3, p \in Procs
<1>5. \A r \in Procs : PcFits(r, pc'[r], status'[r]) BY ONLY <1>1, <1>2, <1>4
<1>6. status'[p] # "run" BY ONLY <1>1, <1>2
<1> QED BY <1>2, <1>4, <1>5, <1>6 DEF PcInv

\* Leaving on an error jumps past the drop of the network, to shutdown.
LEMMA LeaveStops ==
  ASSUME PcInv, NEW p \in Procs, Leave(p)
  PROVE  \E i, st : Stops(p, i, st)
<1>0. pc = [r \in Procs |-> pc[r]] BY DEF PcInv
<1>1. CASE pc[p] <= NewEnd[p]
  <2>1. status' = [status EXCEPT ![p] = "gone"] /\ pc' = [pc EXCEPT ![p] = pc[p]]
    BY <1>1 DEF Leave
  <2>2. PcFits(p, pc[p], "gone") BY DEF PcInv, PcFits
  <2>3. Stops(p, pc[p], "gone") BY <2>1, <2>2 DEF Stops
  <2> QED BY <2>3
<1>2. CASE ~(pc[p] <= NewEnd[p])
  <2>1. status' = [status EXCEPT ![p] = "leaving"] /\ pc' = [pc EXCEPT ![p] = DropAt[p] + 1]
    BY <1>2 DEF Leave
  <2>2. DropAt[p] \in Nat /\ Len(Program[p]) \in Nat /\ DropAt[p] + 1 <= Len(Program[p]) BY LastCall
  <2>3. PcFits(p, DropAt[p] + 1, "leaving") BY ONLY <2>2 DEF PcFits
  <2>4. Stops(p, DropAt[p] + 1, "leaving") BY <2>1, <2>3 DEF Stops
  <2> QED BY <2>4
<1> QED BY <1>1, <1>2

-----------------------------------------------------------------------------
(* The wire *)

\* Writing one queue changes no other.
LEMMA WithQueueIs ==
  ASSUME WireInv, NEW key, NEW queue \in Seq(AllMsgs), Len(queue) <= CAP,
         wire' = WithQueue(wire, key, queue)
  PROVE  WireInv' /\ Queue(key)' = queue /\ \A x : x # key => Queue(x)' = Queue(x)
<1> DEFINE D == (DOMAIN wire \ {key}) \cup (IF queue = <<>> THEN {} ELSE {key})
<1>1. wire' = [x \in D |-> IF x = key THEN queue ELSE wire[x]] BY DEF WithQueue
<1>2. key \in D <=> queue # <<>> OBVIOUS
<1>3. \A x : x # key => (x \in D <=> x \in DOMAIN wire) OBVIOUS
<1>0. CAP \in Nat BY ParametersTyped
<1> HIDE DEF D
<1>4. DOMAIN wire' = D /\ wire' = [x \in DOMAIN wire' |-> wire'[x]] BY ONLY <1>1
<1>5. \A x \in D : wire'[x] = IF x = key THEN queue ELSE wire[x] BY ONLY <1>1
<1>6. ASSUME NEW x \in D PROVE wire'[x] \in Seq(AllMsgs) /\ Len(wire'[x]) \in 1 .. CAP
  <2>1. CASE x = key
    <3>1. queue # <<>> /\ wire'[x] = queue BY <2>1, <1>2, <1>5, <1>6
    <3>2. Len(queue) \in Nat /\ Len(queue) # 0 BY <3>1
    <3> QED BY <3>1, <3>2, <1>0
  <2>2. CASE x # key
    <3>1. x \in DOMAIN wire /\ wire'[x] = wire[x] BY <2>2, <1>3, <1>5, <1>6
    <3> QED BY <3>1 DEF WireInv
  <2> QED BY <2>1, <2>2
<1>7. WireInv' BY <1>4, <1>6 DEF WireInv
<1>8. Queue(key)' = queue
  <2>1. CASE queue = <<>> BY <2>1, <1>2, <1>4 DEF Queue
  <2>2. CASE queue # <<>> BY <2>2, <1>2, <1>4, <1>5 DEF Queue
  <2> QED BY <2>1, <2>2
<1>9. ASSUME NEW x, x # key PROVE Queue(x)' = Queue(x)
  BY <1>9, <1>3, <1>4, <1>5 DEF Queue
<1> QED BY <1>7, <1>8, <1>9

\* Putting a message on a stream appends it to that queue alone.
LEMMA PutIs ==
  ASSUME WireInv, NEW key, NEW m \in AllMsgs, Len(Queue(key)) < CAP, wire' = Put(wire, key, m)
  PROVE  /\ WireInv' /\ Queue(key)' = Append(Queue(key), m)
         /\ \A x : x # key => Queue(x)' = Queue(x)
<1> DEFINE queue == Append(Queue(key), m)
<1>1. wire' = WithQueue(wire, key, queue) BY DEF Put, Queue
<1>2. Queue(key) \in Seq(AllMsgs) /\ Len(Queue(key)) \in Nat BY QueueType
<1>3. CAP \in Nat BY ParametersTyped
<1>4. queue \in Seq(AllMsgs) /\ Len(queue) = Len(Queue(key)) + 1 BY ONLY <1>2, m \in AllMsgs
<1>5. Len(queue) <= CAP BY ONLY <1>2, <1>3, <1>4, Len(Queue(key)) < CAP
<1> HIDE DEF queue
<1>6. WireInv' /\ Queue(key)' = queue /\ \A x : x # key => Queue(x)' = Queue(x)
  BY ONLY <1>1, <1>4, <1>5, WireInv, WithQueueIs
<1> QED BY ONLY <1>6 DEF queue

\* Taking a message off a stream removes that queue's head alone.
LEMMA TakeIs ==
  ASSUME WireInv, NEW key, Queue(key) # <<>>, wire' = Take(wire, key)
  PROVE  /\ WireInv' /\ Queue(key)' = Tail(Queue(key)) /\ wire[key] = Queue(key)
         /\ \A x : x # key => Queue(x)' = Queue(x)
<1> DEFINE queue == Tail(Queue(key))
<1>0. key \in DOMAIN wire /\ wire[key] = Queue(key) BY DEF Queue
<1>1. wire' = WithQueue(wire, key, queue) BY <1>0 DEF Take
<1>2. Queue(key) \in Seq(AllMsgs) BY QueueType
<1>3. Len(Queue(key)) \in 1 .. CAP /\ CAP \in Nat BY <1>0, ParametersTyped DEF WireInv
<1>4. queue \in Seq(AllMsgs) /\ Len(queue) = Len(Queue(key)) - 1 BY ONLY <1>2, Queue(key) # <<>>
<1>5. Len(queue) <= CAP BY ONLY <1>3, <1>4
<1> HIDE DEF queue
<1>6. WireInv' /\ Queue(key)' = queue /\ \A x : x # key => Queue(x)' = Queue(x)
  BY ONLY <1>1, <1>4, <1>5, WireInv, WithQueueIs
<1> QED BY ONLY <1>0, <1>6 DEF queue

\* A send appends to the queue while the receiver runs, and is dropped when it does not.
LEMMA SentIs ==
  ASSUME WireInv, NEW q, NEW key, NEW m \in AllMsgs, CanSend(q, key), wire' = Sent(wire, q, key, m)
  PROVE  /\ WireInv' /\ \A x : x # key => Queue(x)' = Queue(x)
         /\ Queue(key)' = IF status[q] = "run" THEN Append(Queue(key), m) ELSE Queue(key)
<1>1. CASE status[q] = "run"
  <2>1. Len(Queue(key)) < CAP /\ wire' = Put(wire, key, m) BY <1>1 DEF CanSend, Sent
  <2>2. /\ WireInv' /\ Queue(key)' = Append(Queue(key), m)
        /\ \A x : x # key => Queue(x)' = Queue(x)
    BY ONLY <2>1, PutIs, WireInv, m \in AllMsgs
  <2> QED BY <1>1, <2>2
<1>2. CASE status[q] # "run"
  <2>1. wire' = wire BY <1>2 DEF Sent
  <2>2. WireInv' BY <2>1 DEF WireInv
  <2>3. \A x : Queue(x)' = Queue(x) BY <2>1 DEF Queue
  <2> QED BY <1>2, <2>2, <2>3
<1> QED BY <1>1, <1>2

\* An untouched wire keeps every queue.
LEMMA SameWire ==
  ASSUME WireInv, wire' = wire
  PROVE  WireInv' /\ \A x : Queue(x)' = Queue(x)
BY DEF WireInv, Queue

\* The stream of a worker and the coordinator is none of two workers'.
LEMMA StarApart ==
  ASSUME NEW q \in Workers, NEW p \in Workers \ {q}, NEW k \in Ctxs
  PROVE  /\ \A r, from : SKey(q, p, k) # StarKey(r, from)
         /\ SKey(q, p, k)[1][1][1] \in {p, q} /\ SKey(q, p, k)[1][1][2] \in {p, q}
         /\ SKey(q, p, k)[1][1][1] # SKey(q, p, k)[1][1][2]
<1>1. Slot(k) \in 1 .. Len(LaneSeq) BY SlotBound
<1>2. StreamId(q, p, Slot(k))[1] = IF p < q THEN <<q, p, LaneSeq[Slot(k)]>> ELSE <<p, q, LaneSeq[Slot(k)]>>
  BY <1>1, StreamIdOne
<1>3. SKey(q, p, k)[1][1] = IF p < q THEN <<q, p, LaneSeq[Slot(k)]>> ELSE <<p, q, LaneSeq[Slot(k)]>>
  BY ONLY <1>2 DEF SKey
<1>4. ASSUME NEW r, NEW from PROVE StarKey(r, from)[1][1][2] = Coordinator
  BY DEF StarKey
<1>5. /\ SKey(q, p, k)[1][1][1] \in {p, q} /\ SKey(q, p, k)[1][1][2] \in {p, q}
      /\ SKey(q, p, k)[1][1][1] # SKey(q, p, k)[1][1][2]
  BY <1>3
<1>6. Coordinator \notin {p, q} BY DEF Coordinator, Workers
<1> QED BY ONLY <1>4, <1>5, <1>6

-----------------------------------------------------------------------------
(* Steps that are no business of the peers *)

\* A worker has a pool of chunks only in a parallel call.
LEMMA NoPoolUnlessPar ==
  ASSUME PcInv, PoolInv, NEW p \in Workers, Op(p)[1] # "par" \/ status[p] # "run"
  PROVE  pool[p] = NoPool
<1>1. PoolFits(pool[p], Op(p), status[p]) BY PcAt DEF PoolInv
<1>2. ASSUME Op(p) = <<"par", pool[p].call>> PROVE Op(p)[1] = "par" BY <1>2
<1> QED BY ONLY <1>1, <1>2, Op(p)[1] # "par" \/ status[p] # "run" DEF PoolFits

\* A step that touches no stream and no channel keeps what is said of them.
LEMMA SameStreams ==
  ASSUME StreamInv, UNCHANGED <<opened, accepted, chans>>
  PROVE  StreamInv' /\ PeersKept
BY DEF StreamInv, PeersKept, Streams

\* A quiet step of one process keeps the invariant.
LEMMA Walk ==
  ASSUME Inv, NEW p \in Procs, Moves(p), UNCHANGED <<rngs, mixed, pool>>,
         p \in Workers => Op(p)[1] \notin LoudNames \cup {"open_bi", "accept_bi", "fork_rngs"},
         TypeInv', StreamInv', PeersKept, WireInv',
         \A x \in Workers : \A y \in Workers \ {x} : \A k \in Ctxs :
           Queue(SKey(x, y, k))' = Queue(SKey(x, y, k))
  PROVE  Inv'
<1>1. PcInv' /\ pc'[p] = pc[p] + 1 /\ (\A r \in Procs \ {p} : pc'[r] = pc[r]) BY MovesPc DEF Inv
<1>2. ASSUME NEW a \in Workers PROVE Calm(a)
  <2>1. CASE a # p
    <3>1. a \in Procs BY DEF Procs
    <3> QED BY <1>1, <2>1, <3>1 DEF Calm, Moves
  <2>2. CASE a = p
    <3>1. Op(a)[1] \notin LoudNames \cup {"open_bi", "accept_bi", "fork_rngs"} BY <2>2
    <3>2. pool[a] = NoPool BY <3>1, NoPoolUnlessPar DEF Inv, LoudNames
    <3>3. pool'[a] = NoPool BY <3>2
    <3> QED BY <1>1, <2>2, <3>1, <3>2, <3>3 DEF Calm, Moves
  <2> QED BY <2>1, <2>2
<1>3. pool' = [a \in Workers |-> pool'[a]] BY DEF Inv, PoolInv
<1>4. \A x \in Workers : \A y \in Workers \ {x} : \A k \in Ctxs : QueueKept(x, y, k) BY DEF QueueKept
<1>5. PoolInv' /\ FlowInv' BY <1>2, <1>3, <1>4, CalmFlow DEF Inv
<1>6. RngInv' BY <1>2, CalmRng DEF Inv
<1>7. ASSUME NEW a \in Workers, pc'[a] # pc[a] PROVE Op(a)[1] \notin {"open_bi", "accept_bi"}
  <2>1. a = p BY <1>1, <1>7 DEF Procs
  <2> QED BY <2>1
<1>8. ChanInv' BY <1>2, <1>7, CalmChan DEF Inv
<1> QED BY <1>1, <1>5, <1>6, <1>8 DEF Inv

\* A process that stops keeps the invariant, whatever its channels lose with it.
LEMMA Halt ==
  ASSUME Inv, NEW p \in Procs, NEW i, NEW st, Stops(p, i, st),
         UNCHANGED <<link, dones, rngs, mixed, opened, accepted, chans>>, faults' \in 0 .. FAULTS,
         pool' = [a \in Workers |-> IF a = p THEN NoPool ELSE pool[a]],
         WireInv',
         \A x \in Workers : \A y \in Workers \ {x} : \A k \in Ctxs : QueueKept(x, y, k)
  PROVE  Inv'
<1>1. /\ PcInv' /\ status' \in [Procs -> {"run", "leaving", "gone"}] /\ status'[p] # "run"
      /\ \A r \in Procs \ {p} : pc'[r] = pc[r] /\ status'[r] = status[r]
  BY StopsPc DEF Inv
<1>2. ASSUME NEW a \in Workers PROVE Calm(a)
  <2>0. a \in Procs BY DEF Procs
  <2> QED BY <1>1, <2>0 DEF Calm
<1>3. pool' = [a \in Workers |-> pool'[a]] OBVIOUS
<1>4. StreamInv' /\ PeersKept BY SameStreams DEF Inv
<1>5. PoolInv' /\ FlowInv' BY <1>2, <1>3, CalmFlow DEF Inv
<1>7. RngInv' BY <1>2, CalmRng DEF Inv
<1>8. ChanInv'
  <2>1. ASSUME NEW a \in Workers, NEW b \in Workers \ {a}, status'[a] = "run"
        PROVE  status[a] = "run" /\ NumChans(a, b, pc'[a]) = NumChans(a, b, pc[a])
    <3>0. a \in Procs \ {p} BY <1>1, <2>1 DEF Procs
    <3> QED BY <1>1, <2>1, <3>0
  <2> QED BY <1>4, <2>1, ChanKept DEF Inv
<1>6. TypeInv' BY <1>1 DEF Inv, TypeInv
<1> QED BY <1>1, <1>4, <1>5, <1>6, <1>7, <1>8 DEF Inv

Harmless == {"dial", "greet", "accept", "identify", "read_id", "open_coordinator", "send_c", "recv_c",
             "done", "wait_done", "request", "response"}

\* A step of one of the quiet kinds moves the main thread on.
LEMMA MovesOn ==
  ASSUME NEW p, NEW name \in Harmless \cup {"accept_bi"}, At(p, name), Advance(p), UNCHANGED status
  PROVE  /\ Moves(p)
         /\ name # "accept_bi" => Op(p)[1] \notin LoudNames \cup {"open_bi", "accept_bi", "fork_rngs"}
BY DEF At, Moves, LoudNames, Harmless

\* A quiet step that touches neither streams nor wire keeps the invariant.
LEMMA WalkSame ==
  ASSUME Inv, NEW p \in Procs, NEW name \in Harmless, At(p, name), Advance(p),
         UNCHANGED <<status, rngs, mixed, pool, opened, accepted, chans, wire>>, TypeInv'
  PROVE  Inv'
<1>1. Moves(p) /\ Op(p)[1] \notin LoudNames \cup {"open_bi", "accept_bi", "fork_rngs"}
  BY MovesOn DEF Harmless
<1>2. StreamInv' /\ PeersKept BY SameStreams DEF Inv
<1>3. WireInv' /\ \A x : Queue(x)' = Queue(x) BY SameWire DEF Inv
<1> QED BY <1>1, <1>2, <1>3, Walk

\* Setting up the connections, and the handshake of the shutdown.
LEMMA LinkSteps ==
  ASSUME Inv, NEW p \in Procs,
         Dial(p) \/ Greet(p) \/ Accept(p) \/ Identify(p) \/ ReadId(p) \/ WaitDone(p)
  PROVE  Inv'
<1> DEFINE S == {"none", "dialled", "accepted", "greeted", "open"}
<1>0. TypeInv BY DEF Inv
<1>1. CASE Dial(p)
  <2>1. TypeInv' BY <1>0, <1>1 DEF TypeInv, Dial
  <2>2. "dial" \in Harmless BY DEF Harmless
  <2> QED BY <1>1, <2>1, <2>2, WalkSame DEF Dial
<1>2. CASE Greet(p)
  <2>1. TypeInv' BY <1>0, <1>2 DEF TypeInv, Greet
  <2>2. "greet" \in Harmless BY DEF Harmless
  <2> QED BY <1>2, <2>1, <2>2, WalkSame DEF Greet
<1>3. CASE Accept(p)
  <2>0. PICK c \in Conns : link' = [link EXCEPT ![c] = "accepted"] BY <1>3 DEF Accept
  <2>1. TypeInv' BY <1>0, <1>3, <2>0 DEF TypeInv, Accept
  <2>2. "accept" \in Harmless BY DEF Harmless
  <2> QED BY <1>3, <2>1, <2>2, WalkSame DEF Accept
<1>4. CASE Identify(p)
  <2>1. TypeInv' BY <1>0, <1>4 DEF TypeInv, Identify
  <2>2. "identify" \in Harmless BY DEF Harmless
  <2> QED BY <1>4, <2>1, <2>2, WalkSame DEF Identify
<1>5. CASE ReadId(p)
  <2>1. TypeInv' BY <1>0, <1>5 DEF TypeInv, ReadId
  <2>2. "read_id" \in Harmless BY DEF Harmless
  <2> QED BY <1>5, <2>1, <2>2, WalkSame DEF ReadId
<1>6. CASE WaitDone(p)
  <2>1. TypeInv' BY <1>0, <1>6 DEF TypeInv, WaitDone
  <2>2. "wait_done" \in Harmless BY DEF Harmless
  <2> QED BY <1>6, <2>1, <2>2, WalkSame DEF WaitDone
<1> QED BY <1>1, <1>2, <1>3, <1>4, <1>5, <1>6

\* finish_stream's done byte keeps the invariant.
LEMMA DoneStep ==
  ASSUME Inv, NEW p \in Workers, Done(p)
  PROVE  Inv'
<1>1. Op(p) \in ShutOps(p)
  <2>1. Regions(p, pc[p], Op(p)) BY PcAt DEF Inv
  <2> QED BY <2>1 DEF Done, At, Regions
<1>2. Conn(p, Op(p)[2], Op(p)[3]) \in Conns
  <2>1. CASE Op(p) \in {"done", "wait_done"} \X (Workers \ {p}) \X LaneSet
    <3>1. Op(p)[2] \in Workers \ {p} /\ Op(p)[3] \in LaneSet BY <2>1
    <3> QED BY <3>1, ConnIs
  <2>2. CASE Op(p) = <<"done", Coordinator, 0>>
    <3>1. Op(p)[2] = Coordinator /\ Op(p)[3] = 0 BY <2>2
    <3> QED BY <3>1, ConnCoordinator
  <2> QED BY <1>1, <2>1, <2>2 DEF ShutOps
<1>3. TypeInv' BY <1>2 DEF Inv, TypeInv, Done
<1>4. "done" \in Harmless /\ p \in Procs BY DEF Harmless, Procs
<1> QED BY <1>3, <1>4, WalkSame DEF Done

\* A quiet step that writes only the star's queues keeps the invariant.
LEMMA WalkWire ==
  ASSUME Inv, NEW p \in Procs, NEW name \in Harmless, At(p, name), Advance(p),
         UNCHANGED <<status, faults, link, dones, rngs, mixed, pool, opened, accepted, chans>>, WireInv',
         \A x \in Workers : \A y \in Workers \ {x} : \A k \in Ctxs :
           Queue(SKey(x, y, k))' = Queue(SKey(x, y, k))
  PROVE  Inv'
<1>1. Moves(p) /\ Op(p)[1] \notin LoudNames \cup {"open_bi", "accept_bi", "fork_rngs"}
  BY MovesOn DEF Harmless
<1>2. StreamInv' /\ PeersKept BY SameStreams DEF Inv
<1>3. TypeInv' BY DEF Inv, TypeInv
<1> QED BY <1>1, <1>2, <1>3, Walk

\* The messages of the coordinator and a worker.
LEMMA StarSteps ==
  ASSUME Inv, NEW p \in Workers, SendC(p) \/ RecvC(p)
  PROVE  Inv'
<1>0. p \in Procs /\ WireInv /\ "response" \in AllMsgs BY DEF Procs, Inv, AllMsgs
<1>1. CASE SendC(p)
  <2>1. /\ CanSend(Coordinator, StarKey(p, p))
        /\ wire' = Sent(wire, Coordinator, StarKey(p, p), "response")
    BY <1>1 DEF SendC
  <2>2. WireInv' /\ \A x : x # StarKey(p, p) => Queue(x)' = Queue(x)
    BY ONLY <1>0, <2>1, SentIs
  <2>3. \A x \in Workers : \A y \in Workers \ {x} : \A k \in Ctxs :
           Queue(SKey(x, y, k))' = Queue(SKey(x, y, k))
    BY <2>2, StarApart
  <2>4. "send_c" \in Harmless BY DEF Harmless
  <2> QED BY <1>0, <1>1, <2>2, <2>3, <2>4, WalkWire DEF SendC
<1>2. CASE RecvC(p)
  <2>1. Queue(StarKey(p, Coordinator)) # <<>> /\ wire' = Take(wire, StarKey(p, Coordinator))
    BY <1>2 DEF RecvC
  <2>2. WireInv' /\ \A x : x # StarKey(p, Coordinator) => Queue(x)' = Queue(x)
    BY ONLY <1>0, <2>1, TakeIs
  <2>3. \A x \in Workers : \A y \in Workers \ {x} : \A k \in Ctxs :
           Queue(SKey(x, y, k))' = Queue(SKey(x, y, k))
    BY <2>2, StarApart
  <2>4. "recv_c" \in Harmless BY DEF Harmless
  <2> QED BY <1>0, <1>2, <2>2, <2>3, <2>4, WalkWire DEF RecvC
<1> QED BY <1>1, <1>2

\* The coordinator's reception of a response keeps the invariant.
LEMMA ResponseStep ==
  ASSUME Inv, Response
  PROVE  Inv'
<1> DEFINE q == Op(Coordinator)[2]
<1>0. Coordinator \in Procs /\ WireInv BY DEF Procs, Inv
<1>1. Queue(StarKey(q, q)) # <<>> /\ wire' = Take(wire, StarKey(q, q)) BY DEF Response
<1>2. WireInv' /\ \A x : x # StarKey(q, q) => Queue(x)' = Queue(x) BY ONLY <1>0, <1>1, TakeIs
<1>3. \A x \in Workers : \A y \in Workers \ {x} : \A k \in Ctxs :
         Queue(SKey(x, y, k))' = Queue(SKey(x, y, k))
  BY <1>2, StarApart
<1>4. "response" \in Harmless BY DEF Harmless
<1> QED BY <1>0, <1>2, <1>3, <1>4, WalkWire DEF Response

\* The coordinator's broadcast of a request keeps the invariant.
LEMMA RequestStep ==
  ASSUME Inv, Request
  PROVE  Inv'
<1> DEFINE p == Coordinator
           keys == {StarKey(q, p) : q \in {q \in Op(p)[2] : status[q] = "run"}}
<1>0. Coordinator \in Procs /\ WireInv /\ "request" \in AllMsgs BY DEF Procs, Inv, AllMsgs
<1>1. /\ \A q \in Op(p)[2] : CanSend(q, StarKey(q, p))
      /\ wire' = [key \in DOMAIN wire \cup keys |->
                     IF key \in keys THEN Append(Queue(key), "request") ELSE wire[key]]
  BY DEF Request
<1>2. \A key \in keys : Len(Queue(key)) < CAP /\ \E q : key = StarKey(q, p)
  BY <1>1 DEF CanSend
<1>a. CAP \in Nat BY ParametersTyped
<1> HIDE DEF keys
<1>3. WireInv'
  <2>1. DOMAIN wire' = DOMAIN wire \cup keys /\ wire' = [x \in DOMAIN wire' |-> wire'[x]] BY ONLY <1>1
  <2>2. ASSUME NEW x \in DOMAIN wire \cup keys PROVE wire'[x] \in Seq(AllMsgs) /\ Len(wire'[x]) \in 1 .. CAP
    <3>1. CASE x \in keys
      <4>1. wire'[x] = Append(Queue(x), "request") /\ Len(Queue(x)) < CAP BY <3>1, <1>1, <1>2
      <4>2. Queue(x) \in Seq(AllMsgs) /\ Len(Queue(x)) \in Nat BY ONLY QueueType, <1>0
      <4>3. /\ Append(Queue(x), "request") \in Seq(AllMsgs)
            /\ Len(Append(Queue(x), "request")) = Len(Queue(x)) + 1
        BY ONLY <1>0, <4>2
      <4> QED BY ONLY <1>a, <4>1, <4>2, <4>3
    <3>2. CASE x \notin keys
      <4>1. x \in DOMAIN wire /\ wire'[x] = wire[x] BY <3>2, <1>1, <2>2
      <4> QED BY <1>0, <4>1 DEF WireInv
    <3> QED BY <3>1, <3>2
  <2> QED BY <2>1, <2>2 DEF WireInv
<1>4. ASSUME NEW x \in Workers, NEW y \in Workers \ {x}, NEW k \in Ctxs
      PROVE  Queue(SKey(x, y, k))' = Queue(SKey(x, y, k))
  <2> DEFINE key == SKey(x, y, k)
  <2>1. key \notin keys BY <1>2, StarApart
  <2> HIDE DEF key
  <2>2. Queue(key)' = Queue(key) BY ONLY <2>1, <1>1 DEF Queue
  <2> QED BY <2>2 DEF key
<1>5. "request" \in Harmless BY DEF Harmless
<1> QED BY <1>0, <1>3, <1>4, <1>5, WalkWire DEF Request

\* An update of one list of channels.
Table(f) == f = [x \in Procs |-> [y \in Procs |-> f[x][y]]]
Updated(f, p, q, v, g) == g = [f EXCEPT ![p][q] = v]

\* Writing one entry of a table of channels changes no other.
LEMMA TableUpdate ==
  ASSUME NEW f, Table(f), NEW p \in Procs, NEW q \in Procs, NEW v, NEW g, Updated(f, p, q, v, g)
  PROVE  /\ Table(g) /\ g[p][q] = v
         /\ \A x, y \in Procs : x # p \/ y # q => g[x][y] = f[x][y]
<1> DEFINE h == [f[p] EXCEPT ![q] = v]
<1>1. DOMAIN f = Procs /\ \A x \in Procs : f[x] = [y \in Procs |-> f[x][y]] BY DEF Table
<1>2. DOMAIN h = Procs /\ h[q] = v /\ (\A y \in Procs : y # q => h[y] = f[p][y]) /\ h = [y \in Procs |-> h[y]]
  BY <1>1
<1>3. g = [f EXCEPT ![p] = h] BY DEF Updated
<1> HIDE DEF h
<1>4. g = [x \in Procs |-> IF x = p THEN h ELSE f[x]] BY ONLY <1>1, <1>3
<1>5. \A x \in Procs : g[x] = IF x = p THEN h ELSE f[x] BY ONLY <1>4
<1>6. \A x \in Procs : g[x] = [y \in Procs |-> g[x][y]] BY ONLY <1>1, <1>2, <1>5
<1>7. g = [x \in Procs |-> g[x]] BY ONLY <1>4, <1>5
<1>8. g = [x \in Procs |-> [y \in Procs |-> g[x][y]]] BY ONLY <1>6, <1>7
<1>9. g[p][q] = v /\ \A x, y \in Procs : x # p \/ y # q => g[x][y] = f[x][y]
  BY ONLY <1>2, <1>5, p \in Procs
<1> QED BY <1>8, <1>9 DEF Table

\* Opening the stream to the coordinator keeps the invariant.
LEMMA OpenCoordinatorStep ==
  ASSUME Inv, NEW p \in Workers, OpenCoordinator(p)
  PROVE  Inv'
<1> DEFINE c == <<p, Coordinator, 0>>
<1>0. p \in Procs /\ "open_coordinator" \in Harmless BY DEF Procs, Harmless
<1>1. Moves(p) /\ Op(p)[1] \notin LoudNames \cup {"open_bi", "accept_bi", "fork_rngs"}
  BY <1>0, MovesOn DEF OpenCoordinator, Harmless
<1>2. opened' = [opened EXCEPT ![c] = opened[c] + 1] /\ accepted' = accepted
  BY DEF OpenCoordinator
<1>b. chans' = [chans EXCEPT ![p][Coordinator] = Append(chans[p][Coordinator], <<c, opened[c] + 1>>)]
  BY DEF OpenCoordinator
<1>3. /\ opened \in [Conns -> Nat] /\ accepted \in [Conns -> Nat]
      /\ \A d \in Conns : accepted[d] <= opened[d]
  BY DEF Inv, StreamInv
<1>c. Table(chans) BY DEF Inv, StreamInv, Table
<1>d. c \in Conns BY ConnCoordinator
<1>a. Coordinator \notin Workers BY DEF Coordinator, Workers
<1>4. StreamInv' /\ PeersKept
  <2>1. /\ opened' \in [Conns -> Nat] /\ accepted' \in [Conns -> Nat]
        /\ \A d \in Conns : accepted'[d] <= opened'[d]
    <3> HIDE DEF c
    <3>1. opened' \in [Conns -> Nat] /\ \A d \in Conns : opened[d] <= opened'[d] BY ONLY <1>2, <1>3, <1>d
    <3>2. \A d \in Conns : accepted[d] \in Nat /\ opened[d] \in Nat /\ opened'[d] \in Nat BY ONLY <3>1, <1>3
    <3> QED BY ONLY <1>2, <1>3, <3>1, <3>2
  <2>2. Table(chans') /\ \A x, y \in Procs : x # p \/ y # Coordinator => chans'[x][y] = chans[x][y]
    <3> DEFINE v == Append(chans[p][Coordinator], <<c, opened[c] + 1>>)
    <3>1. Updated(chans, p, Coordinator, v, chans') BY <1>b DEF Updated
    <3>2. Coordinator \in Procs /\ p \in Procs BY DEF Procs
    <3> HIDE DEF v
    <3> QED BY ONLY <1>c, <3>1, <3>2, TableUpdate
  <2>3. ASSUME NEW a \in Workers, NEW b \in Workers \ {a} PROVE chans'[a][b] = chans[a][b]
    <3>1. b # Coordinator /\ a \in Procs /\ b \in Procs BY <1>a DEF Procs
    <3> QED BY ONLY <2>2, <3>1
  <2>4. ASSUME NEW a \in Workers, NEW b \in Workers \ {a}, NEW l \in LaneSet
        PROVE  Streams(a, b, l)' = Streams(a, b, l)
    <3>1. <<a, b, l>> # c BY <1>a
    <3> HIDE DEF c
    <3>2. opened'[<<a, b, l>>] = opened[<<a, b, l>>] BY ONLY <1>2, <1>3, <3>1
    <3> QED BY ONLY <1>2, <3>2 DEF Streams
  <2> QED BY <2>1, <2>2, <2>3, <2>4 DEF StreamInv, PeersKept, Table
<1>5. TypeInv' BY DEF Inv, TypeInv, OpenCoordinator
<1>6. UNCHANGED <<rngs, mixed, pool, wire>> BY DEF OpenCoordinator
<1>7. WireInv' /\ \A x : Queue(x)' = Queue(x) BY <1>6, SameWire DEF Inv
<1> QED BY <1>0, <1>1, <1>4, <1>5, <1>6, <1>7, Walk

\* A stream more, opened by the client or accepted by the server.
OneMore(c) ==
  \/ opened' = [opened EXCEPT ![c] = opened[c] + 1] /\ accepted' = accepted
  \/ /\ accepted[c] < opened[c] /\ opened' = opened
     /\ accepted' = [accepted EXCEPT ![c] = accepted[c] + 1]

\* One stream more on one connection and one entry more in one channel list.
LEMMA StreamsTyped ==
  ASSUME StreamInv, NEW p \in Procs, NEW q \in Procs, NEW c \in Conns, NEW v,
         Updated(chans, p, q, v, chans'), OneMore(c)
  PROVE  /\ StreamInv' /\ chans'[p][q] = v
         /\ \A x, y \in Procs : x # p \/ y # q => chans'[x][y] = chans[x][y]
         /\ \A d \in Conns \ {c} : opened'[d] = opened[d] /\ accepted'[d] = accepted[d]
<1>1. /\ opened \in [Conns -> Nat] /\ accepted \in [Conns -> Nat]
      /\ \A d \in Conns : accepted[d] <= opened[d]
  BY DEF StreamInv
<1>2. Table(chans) /\ Updated(chans, p, q, v, chans') BY DEF Table, StreamInv
<1>3. /\ Table(chans') /\ chans'[p][q] = v
      /\ \A x, y \in Procs : x # p \/ y # q => chans'[x][y] = chans[x][y]
  BY ONLY <1>2, p \in Procs, q \in Procs, TableUpdate
<1>4. /\ opened' \in [Conns -> Nat] /\ accepted' \in [Conns -> Nat]
      /\ \A d \in Conns : accepted'[d] <= opened'[d]
      /\ \A d \in Conns \ {c} : opened'[d] = opened[d] /\ accepted'[d] = accepted[d]
  <2>1. CASE opened' = [opened EXCEPT ![c] = opened[c] + 1] /\ accepted' = accepted
    <3>1. opened' \in [Conns -> Nat] /\ opened'[c] = opened[c] + 1 /\ \A d \in Conns \ {c} : opened'[d] = opened[d]
      BY ONLY <1>1, <2>1, c \in Conns
    <3>2. opened[c] \in Nat /\ accepted[c] \in Nat BY ONLY <1>1, c \in Conns
    <3>3. accepted'[c] <= opened'[c] BY ONLY <1>1, <2>1, <3>1, <3>2, c \in Conns
    <3>4. \A d \in Conns \ {c} : accepted'[d] <= opened'[d] BY ONLY <1>1, <2>1, <3>1
    <3> QED BY ONLY <1>1, <2>1, <3>1, <3>3, <3>4
  <2>2. CASE /\ accepted[c] < opened[c] /\ opened' = opened
             /\ accepted' = [accepted EXCEPT ![c] = accepted[c] + 1]
    <3>1. /\ accepted' \in [Conns -> Nat] /\ accepted'[c] = accepted[c] + 1
          /\ \A d \in Conns \ {c} : accepted'[d] = accepted[d]
      BY ONLY <1>1, <2>2, c \in Conns
    <3>2. opened[c] \in Nat /\ accepted[c] \in Nat BY ONLY <1>1, c \in Conns
    <3>3. accepted'[c] <= opened'[c] BY ONLY <2>2, <3>1, <3>2
    <3>4. \A d \in Conns \ {c} : accepted'[d] <= opened'[d] BY ONLY <1>1, <2>2, <3>1
    <3> QED BY ONLY <1>1, <2>2, <3>1, <3>3, <3>4
  <2> QED BY <2>1, <2>2 DEF OneMore
<1> QED BY <1>3, <1>4 DEF StreamInv, Table

\* The coordinator's acceptance of a worker's stream keeps the invariant.
LEMMA CoordinatorAcceptBi ==
  ASSUME Inv, AcceptBi(Coordinator)
  PROVE  Inv'
<1> DEFINE p == Coordinator  q == Op(Coordinator)[2]  c == <<q, Coordinator, 0>>
<1>0. p \in Procs /\ p \notin Workers BY DEF Procs, Coordinator, Workers
<1>1. q \in Workers /\ Op(p)[3] = 0
  <2>1. pc[p] \in 1 .. Len(Program[p]) BY <1>0 DEF Inv, PcInv, PcFits
  <2>2. Op(p) \in StarCalls
    <3>1. Program[p] \in Seq(StarCalls) BY CoordinatorProgram
    <3> QED BY <2>1, <3>1 DEF Op
  <2>3. Op(p)[1] = "accept_bi" BY DEF AcceptBi, At
  <2>4. Op(p) \in {"accept_bi", "wait_done"} \X Workers \X {0}
    BY ONLY <2>2, <2>3 DEF StarCalls
  <2> QED BY ONLY <2>4
<1>2. Conn(p, q, 0) = c /\ c \in Conns BY <1>1, ConnCoordinator
<1>3. /\ accepted[c] < opened[c] /\ opened' = opened
      /\ accepted' = [accepted EXCEPT ![c] = accepted[c] + 1]
      /\ chans' = [chans EXCEPT ![p][q] = Append(chans[p][q], <<c, accepted[c] + 1>>)]
  BY <1>1, <1>2 DEF AcceptBi
<1>4. Moves(p)
  <2>1. At(p, "accept_bi") /\ Advance(p) /\ UNCHANGED status BY DEF AcceptBi
  <2> QED BY <2>1, MovesOn
<1>5. /\ StreamInv'
      /\ \A x, y \in Procs : x # p \/ y # q => chans'[x][y] = chans[x][y]
      /\ \A d \in Conns \ {c} : opened'[d] = opened[d] /\ accepted'[d] = accepted[d]
  <2> DEFINE v == Append(chans[p][q], <<c, accepted[c] + 1>>)
  <2>1. StreamInv /\ q \in Procs BY <1>1 DEF Inv, Procs
  <2>2. Updated(chans, p, q, v, chans') BY <1>3 DEF Updated
  <2>3. OneMore(c) BY <1>3 DEF OneMore
  <2> HIDE DEF v, p, q, c
  <2> QED BY ONLY <1>0, <1>2, <2>1, <2>2, <2>3, StreamsTyped
<1>6. PeersKept
  <2>1. ASSUME NEW a \in Workers, NEW b \in Workers \ {a} PROVE chans'[a][b] = chans[a][b]
    <3>1. a # p /\ a \in Procs /\ b \in Procs BY <1>0 DEF Procs
    <3> QED BY ONLY <1>5, <3>1
  <2>2. ASSUME NEW a \in Workers, NEW b \in Workers \ {a}, NEW l \in LaneSet
        PROVE  Streams(a, b, l)' = Streams(a, b, l)
    <3>1. <<a, b, l>> # c /\ <<b, a, l>> # c BY <1>0
    <3>2. CASE b < a
      <4>1. <<a, b, l>> \in Conns \ {c}
        BY <3>1, <3>2 DEF Conns, LaneSet
      <4> QED BY ONLY <1>5, <4>1, <3>2 DEF Streams
    <3>3. CASE ~(b < a)
      <4>1. a < b BY <3>3 DEF Workers
      <4>2. <<b, a, l>> \in Conns \ {c}
        BY <3>1, <4>1 DEF Conns, LaneSet
      <4> QED BY ONLY <1>5, <4>2, <3>3 DEF Streams
    <3> QED BY <3>2, <3>3
  <2> QED BY <2>1, <2>2 DEF PeersKept
<1>7. TypeInv' /\ UNCHANGED <<rngs, mixed, pool, wire>> BY DEF Inv, TypeInv, AcceptBi
<1>8. WireInv' /\ \A x : Queue(x)' = Queue(x) BY <1>7, SameWire DEF Inv
<1> HIDE DEF p
<1> QED BY ONLY <1>0, <1>4, <1>5, <1>6, <1>7, <1>8, Inv, Walk

-----------------------------------------------------------------------------
(* A channel of two workers *)

\* Past set-up errors, a worker at an operation before its shutdown is running.
LEMMA RunsBody ==
  ASSUME PcInv, TypeInv, NEW p \in Workers, status[p] # "gone", Op(p)[1] \notin {"done", "wait_done", "close"}
  PROVE  /\ status[p] = "run" /\ pc[p] \in 1 .. Len(Program[p]) /\ Regions(p, pc[p], Op(p))
         /\ Op(p) = Program[p][pc[p]]
<1>1. p \in Procs BY DEF Procs
<1>2. status[p] \in {"run", "leaving", "gone"} BY <1>1 DEF TypeInv
<1>3. /\ pc[p] \in 1 .. Len(Program[p]) /\ Regions(p, pc[p], Op(p)) /\ Op(p) = Program[p][pc[p]]
      /\ status[p] = "leaving" => pc[p] > DropAt[p]
  BY PcAt
<1> QED BY <1>2, <1>3 DEF Regions

\* The stream a worker opens or accepts next is the one its program and its peer's number alike.
LEMMA NextStream ==
  ASSUME NEW p \in Workers, NEW q \in Workers \ {p}, NEW s, NEW i \in 1 .. Len(Program[p]), NEW l,
         ChanFits(p, q, s, i, "run"), Program[p][i][1] \in {"open_bi", "accept_bi"},
         Program[p][i][2] = q, Program[p][i][3] = l
  PROVE  /\ ChanFits(p, q, Append(s, <<Conn(p, q, l), LaneCount(Len(s), l) + 1>>), i + 1, "run")
         /\ Len(Append(s, <<Conn(p, q, l), LaneCount(Len(s), l) + 1>>)) = Len(s) + 1 /\ Len(s) \in Nat
         /\ LaneCount(Len(s) + 1, l) = LaneCount(Len(s), l) + 1
         /\ \A m \in LaneSet \ {l} : LaneCount(Len(s) + 1, m) = LaneCount(Len(s), m)
<1> DEFINE n == Len(s)  x == <<Conn(p, q, l), LaneCount(n, l) + 1>>
<1>1. /\ n \in 0 .. Len(LaneSeq) /\ s = [m \in 1 .. n |-> StreamId(p, q, m)]
      /\ n = NumChans(p, q, i)
  BY DEF ChanFits
<1>2. NumChans(p, q, i + 1) = n + 1 /\ n + 1 <= Len(LaneSeq) /\ LaneSeq[n + 1] = l
  BY <1>1, NumChansStep
<1>3. Len(LaneSeq) \in Nat
  <2>1. LaneSeq \in Seq(LaneSet) BY LaneSeqLength
  <2> QED BY <2>1
<1>4. n \in Nat BY <1>1, <1>3
<1>5. /\ LaneCount(n + 1, l) = LaneCount(n, l) + 1
      /\ \A m \in LaneSet \ {l} : LaneCount(n + 1, m) = LaneCount(n, m)
  BY <1>2, <1>4, LaneCountStep
<1>6. x = StreamId(p, q, n + 1) BY <1>2, <1>5 DEF StreamId
<1>7. Append(s, x) = [m \in 1 .. n + 1 |-> StreamId(p, q, m)] /\ Len(Append(s, x)) = n + 1
  <2> DEFINE g(m) == StreamId(p, q, m)
  <2>1. s = [m \in 1 .. n |-> g(m)] /\ x = g(n + 1) BY <1>1, <1>6
  <2> HIDE DEF g, n, x
  <2> DEFINE T == {g(m) : m \in 1 .. n + 1}
  <2>2. s \in Seq(T) /\ Len(s) = n BY ONLY <2>1, <1>4
  <2>3. x \in T BY ONLY <2>1, <1>4
  <2> HIDE DEF T
  <2>4. /\ Append(s, x) \in Seq(T) /\ Len(Append(s, x)) = Len(s) + 1
        /\ \A m \in 1 .. Len(s) : Append(s, x)[m] = s[m]
        /\ Append(s, x)[Len(s) + 1] = x
    BY ONLY <2>2, <2>3
  <2>5. ASSUME NEW m \in 1 .. n + 1 PROVE Append(s, x)[m] = g(m)
    <3>1. CASE m \in 1 .. n BY ONLY <3>1, <2>1, <2>2, <2>4
    <3>2. CASE m = n + 1 BY ONLY <3>2, <2>1, <2>2, <2>4
    <3>3. m \in 1 .. n \/ m = n + 1 BY ONLY m \in 1 .. n + 1, <1>4
    <3> QED BY ONLY <3>1, <3>2, <3>3
  <2>7. Append(s, x) = [m \in 1 .. n + 1 |-> Append(s, x)[m]]
    <3> DEFINE t == Append(s, x)
    <3>1. t \in Seq(T) /\ Len(t) = n + 1 BY <2>2, <2>4
    <3> HIDE DEF t
    <3>2. t = [m \in 1 .. Len(t) |-> t[m]] BY ONLY <3>1
    <3> QED BY ONLY <3>1, <3>2 DEF t
  <2>8. Append(s, x) = [m \in 1 .. n + 1 |-> g(m)] BY ONLY <2>5, <2>7
  <2> QED BY <2>2, <2>4, <2>8 DEF g
<1>8. ChanFits(p, q, Append(s, x), i + 1, "run")
  <2> HIDE DEF x, n
  <2> QED BY ONLY <1>2, <1>3, <1>4, <1>7 DEF ChanFits
<1> QED BY <1>4, <1>5, <1>7, <1>8

\* What opening and accepting a stream between workers have in common.
LEMMA ChannelCall ==
  ASSUME Inv, NEW p \in Workers, OpenBi(p) \/ AcceptBi(p)
  PROVE  /\ status[p] = "run" /\ Moves(p) /\ Op(p)[1] \in {"open_bi", "accept_bi"}
         /\ Op(p)[2] \in Workers \ {p} /\ Op(p)[3] \in LaneSet
         /\ OpenBi(p) => Op(p)[2] < p
         /\ AcceptBi(p) => ~(Op(p)[2] < p)
         /\ UNCHANGED <<status, faults, link, dones, wire, rngs, mixed, pool>>
<1>1. status[p] # "gone" /\ Op(p)[1] \in {"open_bi", "accept_bi"} BY DEF OpenBi, AcceptBi, At
<1>2. status[p] = "run" /\ Regions(p, pc[p], Op(p)) BY <1>1, RunsBody DEF Inv
<1>3. Op(p) \in ChanOps(p) BY <1>1, <1>2 DEF Regions, ChanNames
<1>4. UNCHANGED <<status, faults, link, dones, wire, rngs, mixed, pool>> /\ Advance(p)
  BY DEF OpenBi, AcceptBi
<1>5. Moves(p) BY <1>1, <1>4 DEF Moves
<1>6. OpenBi(p) => Op(p)[1] = "open_bi" BY DEF OpenBi, At
<1>7. AcceptBi(p) => Op(p)[1] = "accept_bi" BY DEF AcceptBi, At
<1>8. CASE Op(p) \in {"open_bi", "read_id"} \X {q \in Workers : q < p} \X LaneSet
  <2>1. Op(p)[1] \in {"open_bi", "read_id"} /\ Op(p)[2] \in {q \in Workers : q < p} /\ Op(p)[3] \in LaneSet
    BY <1>8
  <2>2. Op(p)[2] \in Workers /\ Op(p)[2] < p BY <2>1
  <2>3. Op(p)[2] # p BY <2>2 DEF Workers
  <2> QED BY <1>1, <1>2, <1>4, <1>5, <1>7, <2>1, <2>2, <2>3
<1>9. CASE Op(p) \in {"accept_bi"} \X {q \in Workers : q > p} \X LaneSet
  <2>1. Op(p)[1] = "accept_bi" /\ Op(p)[2] \in {q \in Workers : q > p} /\ Op(p)[3] \in LaneSet
    BY <1>9
  <2>2. Op(p)[2] \in Workers /\ Op(p)[2] > p BY <2>1
  <2>3. Op(p)[2] # p /\ ~(Op(p)[2] < p) BY <2>2 DEF Workers
  <2> QED BY <1>1, <1>2, <1>4, <1>5, <1>6, <2>1, <2>2, <2>3
<1> QED BY <1>3, <1>8, <1>9 DEF ChanOps

\* Opening and accepting a stream between workers keep the invariant.
LEMMA ChannelStep ==
  ASSUME Inv, NEW p \in Workers, OpenBi(p) \/ AcceptBi(p)
  PROVE  Inv'
<1>b. PICK q \in Workers \ {p}, l \in LaneSet : q = Op(p)[2] /\ l = Op(p)[3] BY ChannelCall
<1>1. /\ status[p] = "run" /\ Moves(p) /\ Op(p)[1] \in {"open_bi", "accept_bi"}
      /\ OpenBi(p) => q < p
      /\ AcceptBi(p) => ~(q < p)
      /\ UNCHANGED <<status, faults, link, dones, wire, rngs, mixed, pool>>
  BY <1>b, ChannelCall
<1> DEFINE c == Conn(p, q, l)  s == chans[p][q]  v == Append(s, <<c, Streams(p, q, l) + 1>>)
<1>2. /\ c = IF q < p THEN <<p, q, l>> ELSE <<q, p, l>>
      /\ c \in Conns /\ p \in Procs /\ q \in Procs
  BY <1>1, ConnIs DEF Procs
<1>3. /\ Updated(chans, p, q, v, chans') /\ OneMore(c)
      /\ opened' = IF q < p THEN [opened EXCEPT ![c] = opened[c] + 1] ELSE opened
      /\ accepted' = IF q < p THEN accepted ELSE [accepted EXCEPT ![c] = accepted[c] + 1]
  <2>1. CASE OpenBi(p)
    <3>1. q < p /\ Streams(p, q, l) = opened[c] BY <2>1, <1>1, <1>2 DEF Streams
    <3>2. /\ opened' = [opened EXCEPT ![c] = opened[c] + 1] /\ accepted' = accepted
          /\ chans' = [chans EXCEPT ![p][q] = Append(chans[p][q], <<c, opened[c] + 1>>)]
      BY <1>b, <2>1 DEF OpenBi
    <3> QED BY <3>1, <3>2 DEF Updated, OneMore
  <2>2. CASE AcceptBi(p)
    <3>1. ~(q < p) /\ Streams(p, q, l) = accepted[c] BY <2>2, <1>1, <1>2 DEF Streams
    <3>2. /\ accepted' = [accepted EXCEPT ![c] = accepted[c] + 1] /\ opened' = opened /\ accepted[c] < opened[c]
          /\ chans' = [chans EXCEPT ![p][q] = Append(chans[p][q], <<c, accepted[c] + 1>>)]
      BY <1>b, <2>2 DEF AcceptBi
    <3> QED BY <3>1, <3>2 DEF Updated, OneMore
  <2> QED BY <2>1, <2>2
<1>0. TypeInv /\ PcInv /\ StreamInv /\ ChanInv /\ RngInv /\ PoolInv /\ WireInv /\ FlowInv /\ mixed = {} BY DEF Inv
<1>4. /\ PcInv' /\ pc'[p] = pc[p] + 1
      /\ \A r \in Procs \ {p} : pc'[r] = pc[r]
  BY ONLY <1>0, <1>1, <1>2, MovesPc
<1>a. pc[p] \in 1 .. Len(Program[p]) /\ Op(p) = Program[p][pc[p]] BY <1>0, PcAt
<1> HIDE DEF v, c
<1>5. /\ StreamInv' /\ chans'[p][q] = v
      /\ \A x, y \in Procs : x # p \/ y # q => chans'[x][y] = chans[x][y]
      /\ \A d \in Conns \ {c} : opened'[d] = opened[d] /\ accepted'[d] = accepted[d]
  <2> QED BY ONLY <1>0, <1>2, <1>3, StreamsTyped
<1>6. /\ opened \in [Conns -> Nat] /\ accepted \in [Conns -> Nat] BY <1>0 DEF StreamInv
<1>7. Streams(p, q, l)' = Streams(p, q, l) + 1
  <2>1. CASE q < p
    <3>1. opened'[c] = opened[c] + 1 BY ONLY <1>2, <1>3, <1>6, <2>1
    <3> QED BY ONLY <1>2, <2>1, <3>1 DEF Streams
  <2>2. CASE ~(q < p)
    <3>1. accepted'[c] = accepted[c] + 1 BY ONLY <1>2, <1>3, <1>6, <2>2
    <3> QED BY ONLY <1>2, <2>2, <3>1 DEF Streams
  <2> QED BY <2>1, <2>2
<1>8. ASSUME NEW a \in Workers, NEW b \in Workers \ {a}, NEW m \in LaneSet, a # p \/ b # q \/ m # l
      PROVE  Streams(a, b, m)' = Streams(a, b, m)
  <2>1. CASE b < a
    <3>1. <<a, b, m>> \in Conns BY <2>1 DEF Conns, LaneSet
    <3>2. CASE q < p
      <4>1. <<a, b, m>> # c BY <1>2, <1>8, <3>2
      <4> QED BY ONLY <1>5, <2>1, <3>1, <4>1 DEF Streams
    <3>3. CASE ~(q < p) BY ONLY <1>3, <2>1, <3>3 DEF Streams
    <3> QED BY <3>2, <3>3
  <2>2. CASE ~(b < a)
    <3>0. a < b BY <2>2 DEF Workers
    <3>1. <<b, a, m>> \in Conns BY <3>0 DEF Conns, LaneSet
    <3>2. CASE ~(q < p)
      <4>1. <<b, a, m>> # c BY <1>2, <1>8, <3>2
      <4> QED BY ONLY <1>5, <2>2, <3>1, <4>1 DEF Streams
    <3>3. CASE q < p BY ONLY <1>3, <2>2, <3>3 DEF Streams
    <3> QED BY <3>2, <3>3
  <2> QED BY <2>1, <2>2
<1>9. ChanInv'
  <2>1. ASSUME NEW a \in Workers, NEW b \in Workers \ {a}
        PROVE  /\ ChanFits(a, b, chans'[a][b], pc'[a], status'[a])
               /\ \A m \in LaneSet : Streams(a, b, m)' = LaneCount(Len(chans'[a][b]), m)
    <3>0. /\ ChanFits(a, b, chans[a][b], pc[a], status[a])
          /\ \A m \in LaneSet : Streams(a, b, m) = LaneCount(Len(chans[a][b]), m)
      BY <1>0 DEF ChanInv
    <3>a. a \in Procs /\ b \in Procs BY DEF Procs
    <3>1. CASE a # p
      <4>1. chans'[a][b] = chans[a][b] /\ pc'[a] = pc[a] /\ status'[a] = status[a] BY <1>1, <1>4, <1>5, <3>a, <3>1
      <4>2. \A m \in LaneSet : Streams(a, b, m)' = Streams(a, b, m) BY <1>8, <3>1
      <4> QED BY ONLY <3>0, <4>1, <4>2
    <3>2. CASE a = p /\ b # q
      <4>1. chans'[a][b] = chans[a][b] /\ pc'[a] = pc[a] + 1 /\ status'[a] = status[a] BY <1>1, <1>4, <1>5, <3>a, <3>2
      <4>2. \A m \in LaneSet : Streams(a, b, m)' = Streams(a, b, m) BY <1>8, <3>2
      <4>3. Program[a][pc[a]][2] # b BY <1>a, <1>b, <3>2
      <4>4. NumChans(a, b, pc[a] + 1) = NumChans(a, b, pc[a])
        BY ONLY <1>a, <3>2, <4>3, NumChansStep, a \in Workers, b \in Workers \ {a}
      <4> QED BY ONLY <3>0, <4>1, <4>2, <4>4 DEF ChanFits
    <3>3. CASE a = p /\ b = q
      <4>1. ChanFits(p, q, s, pc[p], "run") /\ Streams(p, q, l) = LaneCount(Len(s), l) BY <1>1, <3>0, <3>3
      <4>2. v = Append(s, <<Conn(p, q, l), LaneCount(Len(s), l) + 1>>) BY <4>1 DEF v, c
      <4>3. /\ Program[p][pc[p]][1] \in {"open_bi", "accept_bi"}
            /\ Program[p][pc[p]][2] = q /\ Program[p][pc[p]][3] = l
        BY <1>1, <1>a, <1>b
      <4>b. \A m \in LaneSet : Streams(p, q, m) = LaneCount(Len(s), m) BY <3>0, <3>3
      <4> HIDE DEF s
      <4>4. /\ ChanFits(p, q, v, pc[p] + 1, "run") /\ Len(v) = Len(s) + 1
            /\ LaneCount(Len(s) + 1, l) = LaneCount(Len(s), l) + 1
            /\ \A m \in LaneSet \ {l} : LaneCount(Len(s) + 1, m) = LaneCount(Len(s), m)
        BY ONLY <4>1, <4>2, <4>3, <1>a, p \in Workers, q \in Workers \ {p}, NextStream
      <4>5. ChanFits(a, b, chans'[a][b], pc'[a], status'[a]) BY <4>4, <1>1, <1>4, <1>5, <3>3
      <4>6. Len(chans'[a][b]) = Len(s) + 1 BY <4>4, <1>5, <3>3
      <4>7. ASSUME NEW m \in LaneSet PROVE Streams(p, q, m)' = LaneCount(Len(s) + 1, m)
        <5>1. CASE m = l BY ONLY <5>1, <1>7, <4>1, <4>4
        <5>2. CASE m # l
          <6>1. Streams(p, q, m)' = Streams(p, q, m) BY <1>1, <1>8, <5>2
          <6> QED BY ONLY <4>b, <6>1, <5>2, <4>4, m \in LaneSet
        <5> QED BY <5>1, <5>2
      <4> QED BY <3>3, <4>5, <4>6, <4>7
    <3> QED BY <3>1, <3>2, <3>3
  <2> QED BY <2>1 DEF ChanInv
<1>10. ASSUME NEW a \in Workers PROVE Calm(a)
  <2>1. a \in Procs BY DEF Procs
  <2>2. CASE a # p BY <1>1, <1>4, <2>1, <2>2 DEF Calm
  <2>3. CASE a = p
    <3>1. Op(a)[1] \notin LoudNames BY <1>1, <2>3 DEF LoudNames
    <3>2. pool[a] = NoPool BY <1>0, <3>1, NoPoolUnlessPar DEF LoudNames
    <3> QED BY <1>1, <1>4, <2>3, <3>1, <3>2 DEF Calm
  <2> QED BY <2>2, <2>3
<1>11. RngInv' BY <1>0, <1>1, <1>10, CalmRng
<1>12. WireInv' /\ \A x : Queue(x)' = Queue(x) BY <1>0, <1>1, SameWire
<1>13. PoolInv' /\ FlowInv'
  <2>1. pool' = [a \in Workers |-> pool'[a]] BY <1>0, <1>1 DEF PoolInv
  <2>2. \A x \in Workers : \A y \in Workers \ {x} : \A k \in Ctxs : QueueKept(x, y, k)
    BY <1>12 DEF QueueKept
  <2> QED BY <1>0, <1>10, <2>1, <2>2, CalmFlow
<1>14. TypeInv' /\ mixed' = {} BY <1>0, <1>1 DEF TypeInv
<1> QED BY <1>4, <1>5, <1>9, <1>11, <1>12, <1>13, <1>14 DEF Inv

-----------------------------------------------------------------------------
(* A process stops *)

\* A process outside a parallel call has no pool to lose.
LEMMA PoolWithout ==
  ASSUME PcInv, PoolInv, NEW p \in Procs, p \in Workers => Op(p)[1] # "par" \/ status[p] # "run",
         UNCHANGED pool
  PROVE  pool' = [a \in Workers |-> IF a = p THEN NoPool ELSE pool[a]]
<1>1. p \in Workers => pool[p] = NoPool BY NoPoolUnlessPar
<1>2. pool = [a \in Workers |-> pool[a]] BY DEF PoolInv
<1>3. pool' = [a \in Workers |-> pool[a]] BY ONLY <1>2, UNCHANGED pool
<1>4. \A a \in Workers : pool[a] = IF a = p THEN NoPool ELSE pool[a] BY ONLY <1>1
<1> QED BY ONLY <1>3, <1>4

\* Leaving on an error keeps the invariant.
LEMMA LeaveStep ==
  ASSUME Inv, NEW p \in Procs, Leave(p), UNCHANGED <<link, dones, rngs, mixed, opened, accepted, chans, wire>>,
         faults' \in 0 .. FAULTS,
         pool' = [a \in Workers |-> IF a = p THEN NoPool ELSE pool[a]]
  PROVE  Inv'
<1>1. PICK i, st : Stops(p, i, st) BY LeaveStops DEF Inv
<1>2. WireInv' /\ \A x : Queue(x)' = Queue(x) BY SameWire DEF Inv
<1>3. \A x \in Workers : \A y \in Workers \ {x} : \A k \in Ctxs : QueueKept(x, y, k)
  BY <1>2 DEF QueueKept
<1> QED BY <1>1, <1>2, <1>3, Halt

\* A process that disappears, its streams with it, keeps the invariant.
LEMMA GoneStep ==
  ASSUME Inv, NEW p \in Procs, Gone(p), UNCHANGED <<pc, link, dones, rngs, mixed, opened, accepted, chans>>,
         faults' \in 0 .. FAULTS
  PROVE  Inv'
<1>0. pc = [r \in Procs |-> pc[r]] /\ PcFits(p, pc[p], status[p]) BY DEF Inv, PcInv
<1>1. Stops(p, pc[p], "gone")
  <2>1. PcFits(p, pc[p], "gone") BY <1>0 DEF PcFits
  <2>2. pc' = [pc EXCEPT ![p] = pc[p]] BY <1>0
  <2>3. status' = [status EXCEPT ![p] = "gone"] BY DEF Gone
  <2> QED BY <2>1, <2>2, <2>3 DEF Stops
<1>2. pool' = [a \in Workers |-> IF a = p THEN NoPool ELSE pool[a]]
  <2>1. pool = [a \in Workers |-> pool[a]] BY DEF Inv, PoolInv
  <2>2. CASE p \in Workers
    <3>1. pool' = [pool EXCEPT ![p] = NoPool] BY <2>2 DEF Gone
    <3> QED BY ONLY <2>1, <3>1
  <2>3. CASE p \notin Workers
    <3>1. pool' = pool BY <2>3 DEF Gone
    <3> QED BY ONLY <2>1, <2>3, <3>1
  <2> QED BY <2>2, <2>3
<1> DEFINE K == {key \in DOMAIN wire : p \notin {key[1][1][1], key[1][1][2]}}
<1>3. wire' = [key \in K |-> wire[key]] BY DEF Gone
<1>4. WireInv'
  <2>1. \A x \in DOMAIN wire : wire[x] \in Seq(AllMsgs) /\ Len(wire[x]) \in 1 .. CAP BY DEF Inv, WireInv
  <2>2. K \subseteq DOMAIN wire OBVIOUS
  <2> HIDE DEF K
  <2>3. DOMAIN wire' = K /\ wire' = [x \in DOMAIN wire' |-> wire'[x]] /\ \A x \in K : wire'[x] = wire[x]
    BY ONLY <1>3
  <2>4. \A x \in DOMAIN wire' : wire'[x] \in Seq(AllMsgs) /\ Len(wire'[x]) \in 1 .. CAP
    BY ONLY <2>1, <2>2, <2>3
  <2> QED BY ONLY <2>3, <2>4 DEF WireInv
<1>5. ASSUME NEW x \in Workers, NEW y \in Workers \ {x}, NEW k \in Ctxs PROVE QueueKept(x, y, k)
  <2> DEFINE key == SKey(x, y, k)
  <2>1. key[1][1][1] \in {y, x} /\ key[1][1][2] \in {y, x} /\ key[1][1][1] # key[1][1][2] BY StarApart
  <2>2. status'[p] = "gone"
    <3>1. status \in [Procs -> {"run", "leaving", "gone"}] BY DEF Inv, TypeInv
    <3>2. status' = [status EXCEPT ![p] = "gone"] BY DEF Gone
    <3> QED BY ONLY <3>1, <3>2, p \in Procs
  <2>3. key \in K <=> key \in DOMAIN wire /\ p # x /\ p # y BY <2>1
  <2> HIDE DEF key, K
  <2>4. CASE p \in {x, y}
    <3>1. Queue(key)' = <<>> BY <1>3, <2>3, <2>4 DEF Queue
    <3>2. status'[x] # "run" \/ status'[y] # "run" BY <2>2, <2>4
    <3> QED BY <3>1, <3>2 DEF QueueKept, key
  <2>5. CASE p \notin {x, y}
    <3>1. Queue(key)' = Queue(key) BY <1>3, <2>3, <2>5 DEF Queue
    <3> QED BY <3>1 DEF QueueKept, key
  <2> QED BY <2>4, <2>5
<1> QED BY <1>1, <1>2, <1>4, <1>5, Halt

\* Every way a process ends (drop, close, failure, crash, timeout) keeps the invariant.
LEMMA StopSteps ==
  ASSUME Inv, NEW p \in Procs, DropNetwork(p) \/ Close(p) \/ Fail(p) \/ Crash(p) \/ Timeout(p)
  PROVE  Inv'
<1>0. /\ TypeInv /\ PcInv /\ PoolInv /\ WireInv /\ faults \in 0 .. FAULTS /\ FAULTS \in Nat
  BY ParametersTyped DEF Inv, TypeInv
<1>1. CASE DropNetwork(p)
  <2>1. /\ status' = [status EXCEPT ![p] = "leaving"] /\ pc' = [pc EXCEPT ![p] = pc[p] + 1]
        /\ Op(p)[1] = "drop"
        /\ UNCHANGED <<faults, link, accepting, opened, accepted, chans, dones, wire, rngs, mixed, pool>>
    BY <1>1 DEF DropNetwork, At, Advance
  <2>2. PcFits(p, pc[p] + 1, "leaving")
    <3>1. /\ pc[p] \in 1 .. Len(Program[p]) /\ Len(Program[p]) \in Nat
          /\ pc[p] < Len(Program[p]) /\ (p \in Workers => pc[p] = DropAt[p]) /\ DropAt[p] \in Nat
      BY <1>0, <2>1, LastCall
    <3> QED BY ONLY <3>1 DEF PcFits
  <2>3. Stops(p, pc[p] + 1, "leaving") BY <2>1, <2>2 DEF Stops
  <2>4. pool' = [a \in Workers |-> IF a = p THEN NoPool ELSE pool[a]] BY <1>0, <2>1, PoolWithout
  <2>5. WireInv' /\ \A x : Queue(x)' = Queue(x) BY <1>0, <2>1, SameWire
  <2>6. \A x \in Workers : \A y \in Workers \ {x} : \A k \in Ctxs : QueueKept(x, y, k)
    BY <2>5 DEF QueueKept
  <2> QED BY <1>0, <2>1, <2>3, <2>4, <2>5, <2>6, Halt
<1>2. CASE Close(p) BY <1>0, <1>2, GoneStep DEF Close
<1>3. CASE Crash(p)
  <2>1. faults' \in 0 .. FAULTS BY <1>0, <1>3 DEF Crash
  <2> QED BY <1>3, <2>1, GoneStep DEF Crash
<1>4. CASE Fail(p)
  <2>1. Op(p)[1] # "par"
    <3>1. Broken(p) BY <1>4 DEF Fail
    <3> SUFFICES ASSUME Op(p)[1] = "par" PROVE FALSE OBVIOUS
    <3> QED BY <3>1 DEF Broken
  <2>2. /\ UNCHANGED <<faults, link, accepting, opened, accepted, chans, dones, wire, rngs, mixed, pool>>
        /\ Leave(p)
    BY <1>4 DEF Fail
  <2>3. pool' = [a \in Workers |-> IF a = p THEN NoPool ELSE pool[a]] BY <1>0, <2>1, <2>2, PoolWithout
  <2> QED BY <1>0, <2>2, <2>3, LeaveStep
<1>5. CASE Timeout(p)
  <2>1. Op(p)[1] # "par" BY <1>5 DEF Timeout, At
  <2>2. /\ UNCHANGED <<link, accepting, opened, accepted, chans, dones, wire, rngs, mixed, pool>>
        /\ Leave(p)
    BY <1>5 DEF Timeout
  <2>3. pool' = [a \in Workers |-> IF a = p THEN NoPool ELSE pool[a]] BY <1>0, <2>1, <2>2, PoolWithout
  <2>4. faults' \in 0 .. FAULTS BY <1>0, <1>5 DEF Timeout
  <2> QED BY <2>2, <2>3, <2>4, LeaveStep
<1> QED BY <1>1, <1>2, <1>3, <1>4, <1>5

-----------------------------------------------------------------------------
(* Messages of the main thread *)

\* A running worker addresses the stream that its peer uses for the same context.
LEMMA KeyIs ==
  ASSUME PcInv, ChanInv, NEW p \in Workers, NEW q \in Workers \ {p}, NEW k \in Ctxs, status[p] = "run",
         pc[p] > InitEnd(p) \/ (k \in {0, -1} /\ pc[p] > NewEnd[p])
  PROVE  Key(p, q, k, p) = SKey(p, q, k) /\ Key(p, q, k, q) = SKey(q, p, k)
<1>1. pc[p] \in 1 .. Len(Program[p]) BY PcAt
<1>2. Slot(k) \in 1 .. Len(LaneSeq) /\ (k \in {0, -1} => Slot(k) <= 2) BY SlotBound
<1>3. Slot(k) <= NumChans(p, q, pc[p])
  <2>1. /\ NumChans(p, q, pc[p]) \in Nat
        /\ pc[p] > NewEnd[p] => NumChans(p, q, pc[p]) >= 2
        /\ pc[p] > InitEnd(p) => NumChans(p, q, pc[p]) = Len(LaneSeq)
    BY <1>1, NumChansFacts
  <2>2. Len(LaneSeq) \in Nat BY LaneSeqLength
  <2> QED BY ONLY <2>1, <2>2, <1>2, pc[p] > InitEnd(p) \/ (k \in {0, -1} /\ pc[p] > NewEnd[p])
<1>4. ChanFits(p, q, chans[p][q], pc[p], "run") BY DEF ChanInv
<1>5. /\ Len(chans[p][q]) = NumChans(p, q, pc[p])
      /\ chans[p][q] = [n \in 1 .. Len(chans[p][q]) |-> StreamId(p, q, n)]
  BY <1>4 DEF ChanFits
<1>6. NumChans(p, q, pc[p]) \in Nat BY <1>1, NumChansFacts
<1>7. chans[p][q][Slot(k)] = StreamId(p, q, Slot(k)) BY ONLY <1>2, <1>3, <1>5, <1>6
<1>8. StreamId(p, q, Slot(k)) = StreamId(q, p, Slot(k)) BY <1>2, StreamIdOne
<1> QED BY <1>7, <1>8 DEF Key, SKey

Still(a) == status'[a] = status[a] /\ pc'[a] = pc[a] /\ pool'[a] = pool[a]

\* What a step of the main thread of p that sets up no channel leaves in place.
LEMMA MainStep ==
  ASSUME Inv, NEW p \in Workers, status[p] = "run", Moves(p),
         Op(p)[1] \notin {"par", "open_bi", "accept_bi"},
         UNCHANGED <<faults, link, opened, accepted, chans, dones, pool>>
  PROVE  /\ TypeInv' /\ PcInv' /\ StreamInv' /\ ChanInv' /\ PoolInv'
         /\ pc'[p] = pc[p] + 1 /\ status'[p] = "run" /\ pool[p] = NoPool /\ pool'[p] = NoPool
         /\ \A a \in Workers \ {p} : Still(a)
<1>0. /\ TypeInv /\ PcInv /\ StreamInv /\ ChanInv /\ PoolInv /\ p \in Procs /\ UNCHANGED status
  BY DEF Inv, Procs, Moves
<1>1. /\ PcInv' /\ pc'[p] = pc[p] + 1
      /\ \A r \in Procs \ {p} : pc'[r] = pc[r]
  BY ONLY <1>0, Moves(p), MovesPc
<1>2. pool[p] = NoPool /\ pool'[p] = NoPool BY <1>0, NoPoolUnlessPar
<1>3. \A a \in Workers \ {p} : Still(a) BY <1>0, <1>1 DEF Still, Procs
<1>4. pc[p] \in 1 .. Len(Program[p]) /\ Op(p) = Program[p][pc[p]] BY <1>0, PcAt
<1>5. StreamInv' /\ PeersKept BY <1>0, SameStreams
<1>6. ASSUME NEW a \in Workers, NEW b \in Workers \ {a}, status'[a] = "run"
      PROVE  status[a] = "run" /\ NumChans(a, b, pc'[a]) = NumChans(a, b, pc[a])
  <2>1. status[a] = "run" BY <1>0, <1>6
  <2>2. CASE a # p BY <2>1, <2>2, <1>3 DEF Still
  <2>3. CASE a = p
    <3>1. NumChans(p, b, pc[p] + 1) = NumChans(p, b, pc[p])
      BY <1>4, <2>3, NumChansStep
    <3> QED BY <1>1, <2>1, <2>3, <3>1
  <2> QED BY <2>2, <2>3
<1>7. ChanInv' BY <1>0, <1>5, <1>6, ChanKept
<1>8. PoolInv'
  <2>1. pool = [a \in Workers |-> pool[a]] /\ \A a \in Workers : PoolFits(pool[a], Program[a][pc[a]], status[a])
    BY <1>0 DEF PoolInv
  <2>2. ASSUME NEW a \in Workers PROVE PoolFits(pool'[a], Program[a][pc'[a]], status'[a])
    <3>1. CASE a # p BY ONLY <2>1, <3>1, <1>3, a \in Workers DEF Still
    <3>2. CASE a = p BY <3>2, <1>2 DEF PoolFits
    <3> QED BY <3>1, <3>2
  <2>3. pool' = [a \in Workers |-> pool'[a]] BY ONLY <2>1, UNCHANGED pool
  <2> QED BY <2>2, <2>3 DEF PoolInv
<1>9. TypeInv' BY <1>0 DEF TypeInv
<1> QED BY <1>0, <1>1, <1>2, <1>3, <1>5, <1>7, <1>8, <1>9

\* A worker that stands still moves none of its counts.
LEMMA StillSteady ==
  ASSUME PcInv, NEW a \in Workers, Still(a), NEW b \in Workers \ {a}, NEW k \in Ctxs
  PROVE  OutSteady(a, b, k) /\ InSteady(b, a, k)
BY CalmSteady DEF Still, Calm

\* A step that moves no count of the program moves none of the flow.
LEMMA CountsSteady ==
  ASSUME NEW p \in Workers, NEW r \in Workers \ {p}, NEW n \in Ctxs,
         status'[p] = status[p], pool'[p] = pool[p]
  PROVE  /\ OutAt(p, r, n, pc'[p]) = OutAt(p, r, n, pc[p]) => OutSteady(p, r, n)
         /\ InAt(r, p, n, pc'[p]) = InAt(r, p, n, pc[p]) => InSteady(r, p, n)
BY DEF OutSteady, InSteady, OutsOf, InsOf

\* A message from p to q on context k: the other streams and the other workers' counts stay.
LEMMA OthersFlow ==
  ASSUME PcInv, PoolInv, WireInv, FlowInv, NEW p \in Workers,
         \A a \in Workers \ {p} : Still(a),
         NEW x \in Workers, NEW y \in Workers \ {x}, NEW k \in Ctxs,
         x = p => OutSteady(x, y, k), y = p => InSteady(x, y, k),
         Queue(SKey(x, y, k))' = Queue(SKey(x, y, k))
  PROVE  Flow(x, y, k)'
<1>1. OutSteady(x, y, k) BY StillSteady
<1>2. InSteady(x, y, k)
  <2>1. CASE y = p BY <2>1
  <2>2. CASE y # p
    <3>1. y \in Workers /\ x \in Workers \ {y} /\ Still(y) BY <2>2
    <3> QED BY ONLY <3>1, StillSteady, PcInv, k \in Ctxs
  <2> QED BY <2>1, <2>2
<1>3. QueueKept(x, y, k) BY DEF QueueKept
<1>4. Flow(x, y, k) BY DEF FlowInv
<1> QED BY <1>1, <1>2, <1>3, <1>4, FlowSteady

\* Nothing else of p's counts moves when it sends on context k to q.
OnlyOut(p, q, k) ==
  \A r \in Workers \ {p}, n \in Ctxs : (r # q \/ n # k => OutSteady(p, r, n)) /\ InSteady(r, p, n)
OnlyIn(p, q, k) ==
  \A r \in Workers \ {p}, n \in Ctxs : (r # q \/ n # k => InSteady(r, p, n)) /\ OutSteady(p, r, n)
NextOut(p, q, k, m) ==
  LET n == OutsOf(p, q, k, pc[p], pool[p]) IN
  /\ OutsOf(p, q, k, pc[p], pool[p])' = n + 1 /\ n + 1 <= Len(All(p, q, k)) /\ All(p, q, k)[n + 1] = m
NextIn(q, p, k, m) ==
  LET n == InsOf(q, p, k, pc[p], pool[p]) IN
  /\ InsOf(q, p, k, pc[p], pool[p])' = n + 1 /\ All(q, p, k)[n + 1] = m

\* The send of a worker's next message on a context keeps every queue and flow.
LEMMA PutFlow ==
  ASSUME PcInv, PoolInv, WireInv, FlowInv, NEW p \in Workers, NEW q \in Workers \ {p}, NEW k \in Ctxs,
         NEW m \in AllMsgs, \A a \in Workers \ {p} : Still(a),
         Active(status[p], pool[p], k), Active(status[p], pool[p], k)',
         NextOut(p, q, k, m), OnlyOut(p, q, k),
         CanSend(q, SKey(p, q, k)), wire' = Sent(wire, q, SKey(p, q, k), m)
  PROVE  WireInv' /\ FlowInv'
<1> DEFINE key == SKey(p, q, k)
<1>1. /\ WireInv' /\ \A x : x # key => Queue(x)' = Queue(x)
      /\ Queue(key)' = IF status[q] = "run" THEN Append(Queue(key), m) ELSE Queue(key)
  BY SentIs
<1>2. ASSUME NEW x \in Workers, NEW y \in Workers \ {x}, NEW n \in Ctxs, x # p \/ y # q \/ n # k
      PROVE  Flow(x, y, n)'
  <2>1. Queue(SKey(x, y, n))' = Queue(SKey(x, y, n)) BY <1>1, <1>2, SKeyInjective
  <2>2. x = p => OutSteady(x, y, n) BY <1>2 DEF OnlyOut
  <2>3. y = p => InSteady(x, y, n) BY <1>2 DEF OnlyOut
  <2> QED BY <2>1, <2>2, <2>3, OthersFlow
<1>3. Flow(p, q, k)'
  <2>0. /\ InsOf(p, q, k, pc[q], pool[q]) \in Nat /\ OutsOf(p, q, k, pc[p], pool[p]) \in Nat
        /\ Queue(key) \in Seq(AllMsgs) /\ Active(status[q], pool[q], k) \in BOOLEAN
    BY FlowTypes
  <2>1. Still(q) OBVIOUS
  <2>2. /\ InsOf(p, q, k, pc[q], pool[q])' = InsOf(p, q, k, pc[q], pool[q])
        /\ Active(status[q], pool[q], k)' = Active(status[q], pool[q], k)
    BY <2>1 DEF Still, InsOf, Active
  <2>3. FlowFits(Queue(key), InsOf(p, q, k, pc[q], pool[q]), OutsOf(p, q, k, pc[p], pool[p]),
                 All(p, q, k), Active(status[q], pool[q], k), TRUE)
    BY DEF FlowInv, Flow
  <2>4. CASE status[q] = "run"
    <3>1. Queue(key)' = Append(Queue(key), m) BY <1>1, <2>4
    <3> HIDE DEF key
    <3>2. FlowFits(Append(Queue(key), m), InsOf(p, q, k, pc[q], pool[q]),
                   OutsOf(p, q, k, pc[p], pool[p]) + 1, All(p, q, k), Active(status[q], pool[q], k), TRUE)
      BY ONLY <2>0, <2>3, NextOut(p, q, k, m), m \in AllMsgs, FlowPut DEF NextOut
    <3>3. OutsOf(p, q, k, pc[p], pool[p])' = OutsOf(p, q, k, pc[p], pool[p]) + 1 BY DEF NextOut
    <3>4. Active(status[p], pool[p], k)' = TRUE BY DEF Active
    <3> QED BY ONLY <2>2, <3>1, <3>2, <3>3, <3>4 DEF Flow, key
  <2>5. CASE status[q] # "run"
    <3>1. Active(status[q], pool[q], k)' = FALSE BY <2>2, <2>5 DEF Active
    <3> QED BY ONLY <3>1 DEF Flow, FlowFits
  <2> QED BY <2>4, <2>5
<1> QED BY <1>1, <1>2, <1>3 DEF FlowInv

\* The receipt of a worker's next message on a context keeps them, and gives that message.
LEMMA TakeFlow ==
  ASSUME PcInv, PoolInv, WireInv, FlowInv, NEW p \in Workers, NEW q \in Workers \ {p}, NEW k \in Ctxs,
         NEW m, \A a \in Workers \ {p} : Still(a),
         Active(status[p], pool[p], k), NextIn(q, p, k, m), OnlyIn(p, q, k),
         Queue(SKey(q, p, k)) # <<>>, wire' = Take(wire, SKey(q, p, k))
  PROVE  WireInv' /\ FlowInv' /\ Head(wire[SKey(q, p, k)]) = m
<1> DEFINE key == SKey(q, p, k)
<1>1. /\ WireInv' /\ \A x : x # key => Queue(x)' = Queue(x)
      /\ Queue(key)' = Tail(Queue(key)) /\ wire[key] = Queue(key)
  BY TakeIs
<1>2. ASSUME NEW x \in Workers, NEW y \in Workers \ {x}, NEW n \in Ctxs, x # q \/ y # p \/ n # k
      PROVE  Flow(x, y, n)'
  <2>1. Queue(SKey(x, y, n))' = Queue(SKey(x, y, n)) BY <1>1, <1>2, SKeyInjective
  <2>2. x = p => OutSteady(x, y, n) BY <1>2 DEF OnlyIn
  <2>3. y = p => InSteady(x, y, n) BY <1>2 DEF OnlyIn
  <2> QED BY <2>1, <2>2, <2>3, OthersFlow
<1>3. Flow(q, p, k)' /\ Head(Queue(key)) = m
  <2>0. /\ InsOf(q, p, k, pc[p], pool[p]) \in Nat /\ Len(All(q, p, k)) \in Nat
        /\ Queue(key) \in Seq(AllMsgs) /\ Active(status[q], pool[q], k) \in BOOLEAN
    BY FlowTypes
  <2>1. Still(q) OBVIOUS
  <2>2. /\ OutsOf(q, p, k, pc[q], pool[q])' = OutsOf(q, p, k, pc[q], pool[q])
        /\ Active(status[q], pool[q], k)' = Active(status[q], pool[q], k)
    BY <2>1 DEF Still, OutsOf, Active
  <2>3. FlowFits(Queue(key), InsOf(q, p, k, pc[p], pool[p]), OutsOf(q, p, k, pc[q], pool[q]),
                 All(q, p, k), TRUE, Active(status[q], pool[q], k))
    BY DEF FlowInv, Flow
  <2> HIDE DEF key
  <2>4. /\ FlowFits(Tail(Queue(key)), InsOf(q, p, k, pc[p], pool[p]) + 1, OutsOf(q, p, k, pc[q], pool[q]),
                 All(q, p, k), TRUE, Active(status[q], pool[q], k))
        /\ Head(Queue(key)) = All(q, p, k)[InsOf(q, p, k, pc[p], pool[p]) + 1]
    <3>1. Queue(key) # <<>> BY DEF key
    <3> QED BY ONLY <2>0, <2>3, <3>1, FlowTake
  <2>5. InsOf(q, p, k, pc[p], pool[p])' = InsOf(q, p, k, pc[p], pool[p]) + 1 BY DEF NextIn
  <2>6. Head(Queue(key)) = m BY ONLY <2>4, NextIn(q, p, k, m) DEF NextIn
  <2>7. CASE Active(status[p], pool[p], k)'
    <3>1. Active(status[p], pool[p], k)' = TRUE BY <2>7 DEF Active
    <3>2. Queue(key)' = Tail(Queue(key)) BY <1>1 DEF key
    <3> QED BY ONLY <2>2, <2>4, <2>5, <2>6, <3>1, <3>2 DEF Flow, key
  <2>8. CASE ~Active(status[p], pool[p], k)'
    <3>1. Active(status[p], pool[p], k)' = FALSE BY <2>8 DEF Active
    <3> QED BY ONLY <2>6, <3>1 DEF Flow, FlowFits
  <2> QED BY <2>7, <2>8
<1> QED BY <1>1, <1>2, <1>3 DEF FlowInv

MainNames == {"prf_send", "prf_recv", "bitcomp_send", "bitcomp_recv", "send", "recv"}

\* Where a send or receive of the main thread stands in the program.
LEMMA MainAt ==
  ASSUME Inv, NEW p \in Workers, status[p] # "gone", Op(p)[1] \in MainNames, Advance(p), UNCHANGED status
  PROVE  /\ status[p] = "run" /\ Moves(p) /\ pc[p] \in 1 .. Len(Program[p]) /\ Op(p) = Program[p][pc[p]]
         /\ Op(p)[1] \notin {"par", "open_bi", "accept_bi"} /\ pc[p] > NewEnd[p] /\ NewEnd[p] \in Nat
         /\ Op(p)[1] = "prf_send" => pc[p] = NewEnd[p] + 1
         /\ Op(p)[1] = "prf_recv" => pc[p] = NewEnd[p] + 2
         /\ Op(p)[1] = "bitcomp_send" => pc[p] = NewEnd[p] + 3
         /\ Op(p)[1] = "bitcomp_recv" => pc[p] = NewEnd[p] + 4
         /\ Op(p)[1] \in {"send", "recv"} => pc[p] > NewEnd[p] + 4 /\ Op(p) \in MsgOps(p)
         /\ Op(p) \in Ops
<1>1. Op(p)[1] \notin {"done", "wait_done", "close", "drop", "par", "open_bi", "accept_bi"} BY DEF MainNames
<1>2. /\ status[p] = "run" /\ pc[p] \in 1 .. Len(Program[p]) /\ Regions(p, pc[p], Op(p))
      /\ Op(p) = Program[p][pc[p]]
  BY <1>1, RunsBody DEF Inv
<1>3. NewEnd[p] \in Nat /\ InitEnd(p) \in Nat /\ InitEnd(p) >= NewEnd[p] + 5 BY ProgramIs
<1>4. Moves(p) BY <1>1 DEF Moves
<1>5. Op(p)[1] \in {"send", "recv"} => pc[p] > NewEnd[p] + 4 /\ Op(p) \in MsgOps(p)
  <2>1. Op(p)[1] \in {"send", "recv"} => pc[p] > InitEnd(p) /\ Op(p) \in MsgOps(p) BY <1>2 DEF Regions
  <2> QED BY <1>2, <1>3, <2>1
<1>6. /\ Op(p)[1] = "prf_send" => pc[p] = NewEnd[p] + 1
      /\ Op(p)[1] = "prf_recv" => pc[p] = NewEnd[p] + 2
      /\ Op(p)[1] = "bitcomp_send" => pc[p] = NewEnd[p] + 3
      /\ Op(p)[1] = "bitcomp_recv" => pc[p] = NewEnd[p] + 4
      /\ Op(p) \in Ops
  BY <1>2 DEF Regions
<1>7. pc[p] > NewEnd[p] BY <1>2, <1>3, <1>5, <1>6 DEF MainNames
<1> QED BY <1>1, <1>2, <1>3, <1>4, <1>5, <1>6, <1>7

\* A send of the main thread keeps the invariant.
LEMMA SayStep ==
  ASSUME Inv, NEW p \in Workers, NEW q \in Workers \ {p}, NEW k \in {0, -1}, NEW m \in AllMsgs,
         status[p] # "gone", Op(p)[1] \in {"prf_send", "bitcomp_send", "send"}, Advance(p),
         UNCHANGED <<status, faults, link, opened, accepted, chans, dones, rngs, mixed, pool>>,
         Says(p, q, k, m, pc[p]),
         CanSend(q, Key(p, q, k, p)), wire' = Sent(wire, q, Key(p, q, k, p), m)
  PROVE  Inv'
<1>0. /\ TypeInv /\ PcInv /\ StreamInv /\ ChanInv /\ RngInv /\ PoolInv /\ WireInv /\ FlowInv /\ mixed = {}
      /\ k \in Ctxs
  BY DEF Inv, Ctxs
<1>1. /\ status[p] = "run" /\ Moves(p) /\ pc[p] \in 1 .. Len(Program[p])
      /\ Op(p)[1] \notin {"par", "open_bi", "accept_bi"} /\ pc[p] > NewEnd[p] /\ NewEnd[p] \in Nat
      /\ pc[p] # NewEnd[p] + 2 /\ pc[p] # NewEnd[p] + 4
  <2>1. Op(p)[1] \in MainNames BY DEF MainNames
  <2> QED BY <2>1, MainAt
<1>2. Key(p, q, k, p) = SKey(p, q, k) BY <1>0, <1>1, KeyIs
<1>3. /\ TypeInv' /\ PcInv' /\ StreamInv' /\ ChanInv' /\ PoolInv'
      /\ pc'[p] = pc[p] + 1 /\ status'[p] = "run" /\ pool[p] = NoPool /\ pool'[p] = NoPool
      /\ \A a \in Workers \ {p} : Still(a)
  BY <1>1, MainStep
<1>4. Active(status[p], pool[p], k) /\ Active(status[p], pool[p], k)' BY <1>1, <1>3, NoPoolCounts DEF Active
<1>5. NextOut(p, q, k, m)
  <2>1. ChunkSent(pool[p], k) = 0 /\ ChunkSent(pool[p], k)' = 0 BY <1>3, NoPoolCounts
  <2>2. OutAt(p, q, k, pc[p]) \in Nat BY <1>0, <1>1, OutStep
  <2>3. OutsOf(p, q, k, pc[p], pool[p]) = OutAt(p, q, k, pc[p]) BY <2>1, <2>2 DEF OutsOf
  <2>4. OutsOf(p, q, k, pc[p], pool[p])' = OutAt(p, q, k, pc[p]) + 1 BY <1>3, <2>1, <2>2 DEF OutsOf, Says
  <2> QED BY <2>3, <2>4 DEF NextOut, Says
<1>6. OnlyOut(p, q, k)
  <2>1. ASSUME NEW r \in Workers \ {p}, NEW n \in Ctxs
        PROVE  (r # q \/ n # k => OutSteady(p, r, n)) /\ InSteady(r, p, n)
    <3>1. r # q \/ n # k => OutAt(p, r, n, pc'[p]) = OutAt(p, r, n, pc[p]) BY <1>3 DEF Says
    <3>2. InAt(r, p, n, pc'[p]) = InAt(r, p, n, pc[p]) BY <1>3 DEF Says
    <3> QED BY <1>1, <1>3, <3>1, <3>2, CountsSteady
  <2> QED BY <2>1 DEF OnlyOut
<1>7. WireInv' /\ FlowInv'
  <2>1. CanSend(q, SKey(p, q, k)) /\ wire' = Sent(wire, q, SKey(p, q, k), m) BY <1>2
  <2> QED BY ONLY <1>0, <1>3, <1>4, <1>5, <1>6, <2>1, m \in AllMsgs, p \in Workers, q \in Workers \ {p}, PutFlow
<1>8. RngInv'
  <2>1. ASSUME NEW a \in Workers PROVE RngFits(a, rngs[a], pc'[a], status'[a])
    <3>1. RngFits(a, rngs[a], pc[a], status[a]) BY <1>0 DEF RngInv
    <3>2. CASE a # p BY <1>3, <3>1, <3>2 DEF Still
    <3>3. CASE a = p BY <1>1, <1>3, <3>1, <3>3, RngStep
    <3> QED BY <3>2, <3>3
  <2> QED BY <1>0, <2>1 DEF RngInv
<1> QED BY <1>0, <1>3, <1>7, <1>8 DEF Inv

\* The message a receive of the main thread takes is the one it waits for.
LEMMA HearStep ==
  ASSUME Inv, NEW p \in Workers, NEW q \in Workers \ {p}, NEW k \in {0, -1}, NEW m,
         status[p] # "gone", Op(p)[1] \in {"prf_recv", "bitcomp_recv", "recv"}, Advance(p),
         UNCHANGED <<status, faults, link, opened, accepted, chans, dones, pool>>,
         Hears(p, q, k, m, pc[p]),
         Queue(Key(p, q, k, q)) # <<>>, wire' = Take(wire, Key(p, q, k, q))
  PROVE  /\ Head(wire[Key(p, q, k, q)]) = m
         /\ RngInv' /\ mixed' = {} => Inv'
         /\ pc'[p] = pc[p] + 1 /\ \A a \in Workers \ {p} : Still(a)
<1>0. /\ TypeInv /\ PcInv /\ StreamInv /\ ChanInv /\ RngInv /\ PoolInv /\ WireInv /\ FlowInv /\ mixed = {}
      /\ k \in Ctxs
  BY DEF Inv, Ctxs
<1>1. /\ status[p] = "run" /\ Moves(p) /\ pc[p] \in 1 .. Len(Program[p])
      /\ Op(p)[1] \notin {"par", "open_bi", "accept_bi"} /\ pc[p] > NewEnd[p] /\ NewEnd[p] \in Nat
  <2>1. Op(p)[1] \in MainNames BY DEF MainNames
  <2> QED BY <2>1, MainAt
<1>2. Key(p, q, k, q) = SKey(q, p, k) BY <1>0, <1>1, KeyIs
<1>3. /\ TypeInv' /\ PcInv' /\ StreamInv' /\ ChanInv' /\ PoolInv'
      /\ pc'[p] = pc[p] + 1 /\ status'[p] = "run" /\ pool[p] = NoPool /\ pool'[p] = NoPool
      /\ \A a \in Workers \ {p} : Still(a)
  BY <1>1, MainStep
<1>4. Active(status[p], pool[p], k) BY <1>1, <1>3, NoPoolCounts DEF Active
<1>5. NextIn(q, p, k, m)
  <2>1. ChunkRecvd(pool[p], k) = 0 /\ ChunkRecvd(pool[p], k)' = 0 BY <1>3, NoPoolCounts
  <2>2. InAt(q, p, k, pc[p]) \in Nat BY <1>0, <1>1, InStep
  <2>3. InsOf(q, p, k, pc[p], pool[p]) = InAt(q, p, k, pc[p]) BY <2>1, <2>2 DEF InsOf
  <2>4. InsOf(q, p, k, pc[p], pool[p])' = InAt(q, p, k, pc[p]) + 1 BY <1>3, <2>1, <2>2 DEF InsOf, Hears
  <2> QED BY <2>3, <2>4 DEF NextIn, Hears
<1>6. OnlyIn(p, q, k)
  <2>1. ASSUME NEW r \in Workers \ {p}, NEW n \in Ctxs
        PROVE  (r # q \/ n # k => InSteady(r, p, n)) /\ OutSteady(p, r, n)
    <3>1. r # q \/ n # k => InAt(r, p, n, pc'[p]) = InAt(r, p, n, pc[p]) BY <1>3 DEF Hears
    <3>2. OutAt(p, r, n, pc'[p]) = OutAt(p, r, n, pc[p]) BY <1>3 DEF Hears
    <3> QED BY <1>1, <1>3, <3>1, <3>2, CountsSteady
  <2> QED BY <2>1 DEF OnlyIn
<1>7. WireInv' /\ FlowInv' /\ Head(wire[SKey(q, p, k)]) = m
  <2>1. Queue(SKey(q, p, k)) # <<>> /\ wire' = Take(wire, SKey(q, p, k)) BY <1>2
  <2> QED BY ONLY <1>0, <1>3, <1>4, <1>5, <1>6, <2>1, p \in Workers, q \in Workers \ {p}, TakeFlow
<1> QED BY <1>0, <1>2, <1>3, <1>7 DEF Inv

\* setup_prf's, setup_bitcomp's and the protocols' sends keep the invariant.
LEMMA SendSteps ==
  ASSUME Inv, NEW p \in Workers, PrfSend(p) \/ BitcompSend(p) \/ Send(p)
  PROVE  Inv'
<1>0. /\ status[p] # "gone" /\ Op(p)[1] \in {"prf_send", "bitcomp_send", "send"} /\ Advance(p)
      /\ UNCHANGED <<status, faults, link, opened, accepted, chans, dones, rngs, mixed, pool>>
      /\ PrfSend(p) => Op(p)[1] = "prf_send"
      /\ BitcompSend(p) => Op(p)[1] = "bitcomp_send"
      /\ Send(p) => Op(p)[1] = "send"
  BY DEF PrfSend, BitcompSend, Send, At, MainSend
<1>1. /\ status[p] = "run" /\ pc[p] \in 1 .. Len(Program[p]) /\ Op(p) = Program[p][pc[p]]
      /\ NewEnd[p] \in Nat /\ Op(p) \in Ops
      /\ Op(p)[1] = "bitcomp_send" => pc[p] = NewEnd[p] + 3
      /\ Op(p)[1] \in {"send", "recv"} => Op(p) \in MsgOps(p)
  <2>1. Op(p)[1] \in MainNames BY <1>0 DEF MainNames
  <2> QED BY <1>0, <2>1, MainAt
<1>2. RngFits(p, rngs[p], pc[p], status[p]) BY DEF Inv, RngInv
<1>3. NextId(p) \in Workers \ {p} /\ 0 \in Ctxs /\ -1 \in Ctxs BY Neighbours DEF Ctxs
<1>4. CASE PrfSend(p)
  <2>1. Says(p, NextId(p), 0, p, pc[p])
    <3>1. ASSUME NEW r \in Workers \ {p}, NEW n \in Ctxs
          PROVE  /\ Emit(p, r, n)[Program[p][pc[p]]] = IF r = NextId(p) /\ n = 0 THEN <<p>> ELSE <<>>
                 /\ Consume(r, p, n)[Program[p][pc[p]]] = <<>>
      <4>1. Carries(p, r, n, Op(p)) /\ Carries(r, p, n, Op(p)) BY <1>1, OpTraffic
      <4> QED BY ONLY <1>0, <1>1, <1>4, <4>1 DEF Carries
    <3> QED BY <1>1, <1>3, <3>1, SaysOf
  <2>2. rngs[p].seed1 = p BY <1>2 DEF RngFits
  <2>3. /\ CanSend(NextId(p), Key(p, NextId(p), 0, p))
        /\ wire' = Sent(wire, NextId(p), Key(p, NextId(p), 0, p), p)
    BY <1>4, <2>2 DEF PrfSend, MainSend
  <2>4. p \in AllMsgs /\ 0 \in {0, -1} BY DEF AllMsgs, Msgs
  <2> QED BY <1>0, <1>3, <2>1, <2>3, <2>4, SayStep
<1>5. CASE BitcompSend(p)
  <2>1. Says(p, NextId(p), 0, BitKeys(p), pc[p])
    <3>1. ASSUME NEW r \in Workers \ {p}, NEW n \in Ctxs
          PROVE  /\ Emit(p, r, n)[Program[p][pc[p]]] = IF r = NextId(p) /\ n = 0 THEN <<BitKeys(p)>> ELSE <<>>
                 /\ Consume(r, p, n)[Program[p][pc[p]]] = <<>>
      <4>1. Carries(p, r, n, Op(p)) /\ Carries(r, p, n, Op(p)) BY <1>1, OpTraffic
      <4> QED BY ONLY <1>0, <1>1, <1>5, <4>1 DEF Carries
    <3> QED BY <1>1, <1>3, <3>1, SaysOf
  <2>2. rngs[p].seed2 = PrevId(p) BY <1>0, <1>1, <1>2, <1>5 DEF RngFits
  <2>3. /\ CanSend(NextId(p), Key(p, NextId(p), 0, p))
        /\ wire' = Sent(wire, NextId(p), Key(p, NextId(p), 0, p), BitKeys(p))
    BY <1>5, <2>2 DEF BitcompSend, MainSend, BitKeys
  <2>4. BitKeys(p) \in AllMsgs /\ 0 \in {0, -1} BY DEF AllMsgs, Msgs
  <2> QED BY <1>0, <1>3, <2>1, <2>3, <2>4, SayStep
<1>6. CASE Send(p)
  <2>0. Op(p) \in MsgOps(p) /\ Op(p)[1] = "send" BY <1>0, <1>1, <1>6
  <2>a. PICK q \in Workers \ {p}, k \in {0, -1}, m \in Tags : Op(p)[2] = q /\ Op(p)[3] = k /\ Op(p)[4] = m
    BY <2>0 DEF MsgOps
  <2>b. k \in Ctxs BY <1>3
  <2>1. Says(p, q, k, m, pc[p])
    <3>1. ASSUME NEW r \in Workers \ {p}, NEW n \in Ctxs
          PROVE  /\ Emit(p, r, n)[Program[p][pc[p]]] = IF r = q /\ n = k THEN <<m>> ELSE <<>>
                 /\ Consume(r, p, n)[Program[p][pc[p]]] = <<>>
      <4>1. Carries(p, r, n, Op(p)) /\ Carries(r, p, n, Op(p)) BY <1>1, OpTraffic
      <4> QED BY ONLY <2>0, <2>a, <1>1, <4>1 DEF Carries
    <3> QED BY <1>1, <2>b, <3>1, SaysOf
  <2>3. CanSend(q, Key(p, q, k, p)) /\ wire' = Sent(wire, q, Key(p, q, k, p), m)
    BY <1>6, <2>a DEF Send
  <2>4. m \in AllMsgs BY DEF AllMsgs, Msgs
  <2> QED BY <1>0, <2>1, <2>3, <2>4, SayStep
<1> QED BY <1>4, <1>5, <1>6

\* A worker that updates its own generators keeps their invariant if the new ones fit.
LEMMA RngUpdate ==
  ASSUME RngInv, NEW p \in Workers, NEW r, rngs' = [rngs EXCEPT ![p] = r],
         RngFits(p, r, pc'[p], status'[p]), \A a \in Workers \ {p} : Still(a)
  PROVE  RngInv'
<1>1. rngs = [a \in Workers |-> rngs[a]] /\ \A a \in Workers : RngFits(a, rngs[a], pc[a], status[a]) BY DEF RngInv
<1>2. rngs' = [a \in Workers |-> IF a = p THEN r ELSE rngs[a]] BY ONLY <1>1, rngs' = [rngs EXCEPT ![p] = r]
<1>3. rngs' = [a \in Workers |-> rngs'[a]] /\ rngs'[p] = r /\ \A a \in Workers \ {p} : rngs'[a] = rngs[a] BY ONLY <1>2, p \in Workers
<1>4. ASSUME NEW a \in Workers PROVE RngFits(a, rngs'[a], pc'[a], status'[a])
  <2>1. CASE a = p BY <2>1, <1>3
  <2>2. CASE a # p BY <2>2, <1>1, <1>3 DEF Still
  <2> QED BY <2>1, <2>2
<1> QED BY <1>3, <1>4 DEF RngInv

\* setup_prf's receive installs the seed of the previous worker.
LEMMA PrfRecvStep ==
  ASSUME Inv, NEW p \in Workers, PrfRecv(p)
  PROVE  Inv'
<1> DEFINE q == PrevId(p)
<1>0. /\ status[p] # "gone" /\ Op(p)[1] = "prf_recv" /\ Advance(p)
      /\ UNCHANGED <<status, faults, link, opened, accepted, chans, dones, mixed, pool>>
      /\ Queue(Key(p, q, 0, q)) # <<>> /\ wire' = Take(wire, Key(p, q, 0, q))
  BY DEF PrfRecv, At, MainRecv
<1>1. /\ status[p] = "run" /\ pc[p] \in 1 .. Len(Program[p]) /\ Op(p) = Program[p][pc[p]]
      /\ NewEnd[p] \in Nat /\ Op(p) \in Ops /\ pc[p] = NewEnd[p] + 2
  <2>1. Op(p)[1] \in MainNames BY <1>0 DEF MainNames
  <2> QED BY <1>0, <2>1, MainAt
<1>2. /\ q \in Workers \ {p} /\ 0 \in Ctxs /\ 0 \in {0, -1}
      /\ \A r \in Workers : p = NextId(r) <=> r = q
  BY Neighbours DEF Ctxs
<1> HIDE DEF q
<1>3. Hears(p, q, 0, q, pc[p])
  <2>1. ASSUME NEW r \in Workers \ {p}, NEW n \in Ctxs
        PROVE  /\ Consume(r, p, n)[Program[p][pc[p]]] = IF r = q /\ n = 0 THEN <<q>> ELSE <<>>
               /\ Emit(p, r, n)[Program[p][pc[p]]] = <<>>
    <3>1. p \in Workers \ {r} /\ r \in Workers OBVIOUS
    <3>4. Carries(p, r, n, Op(p)) /\ Carries(r, p, n, Op(p)) BY <1>1, <3>1, OpTraffic
    <3>2. Consume(r, p, n)[Op(p)] = IF p = NextId(r) /\ n = 0 THEN <<r>> ELSE <<>>
      BY ONLY <1>0, <3>4 DEF Carries
    <3>3. Emit(p, r, n)[Op(p)] = <<>> BY ONLY <1>0, <3>4 DEF Carries
    <3> QED BY <1>1, <1>2, <3>2, <3>3
  <2> QED BY <1>1, <1>2, <2>1, HearsOf
<1>4. /\ Head(wire[Key(p, q, 0, q)]) = q
      /\ RngInv' /\ mixed' = {} => Inv'
      /\ pc'[p] = pc[p] + 1 /\ \A a \in Workers \ {p} : Still(a)
  BY <1>0, <1>2, <1>3, HearStep
<1> DEFINE r == rngs[p]  r2 == [r EXCEPT !.seed2 = q]
<1>5. rngs' = [rngs EXCEPT ![p] = r2] BY <1>4 DEF PrfRecv, Incoming, q
<1>6. RngFits(p, r2, pc[p] + 1, "run")
  <2>1. RngFits(p, r, pc[p], "run") BY <1>1 DEF Inv, RngInv
  <2>2. r \in Rngs /\ r.seed1 = p /\ r.ctx = <<>> /\ r.keys2 \in {{}, Keys2(p)} BY <1>1, <2>1 DEF RngFits
  <2> HIDE DEF r
  <2>3. r2 \in Rngs /\ r2.seed1 = p /\ r2.ctx = <<>> /\ r2.seed2 = PrevId(p) /\ r2.keys2 = r.keys2
    BY <1>2, <2>2 DEF Rngs, q
  <2> HIDE DEF r2
  <2> QED BY <1>1, <2>2, <2>3 DEF RngFits
<1>7. RngInv'
  <2>1. RngInv BY DEF Inv
  <2>2. RngFits(p, r2, pc'[p], status'[p]) BY <1>0, <1>1, <1>4, <1>6
  <2> QED BY ONLY <1>4, <1>5, <2>1, <2>2, p \in Workers, RngUpdate
<1>8. mixed' = {} BY <1>0 DEF Inv
<1> QED BY <1>4, <1>7, <1>8

\* The keys of the third worker complete those of a worker.
LEMMA KeysComplete ==
  ASSUME NEW p \in Workers, NEW b, b = BitKeys(PrevId(p))
  PROVE  /\ {<<p, 0>>, <<PrevId(p), 0>>} \cup {b[0]} = Keys1
         /\ {<<p, 1>>, <<PrevId(p), 1>>} \cup (IF p = 1 THEN {} ELSE {b[1]}) = Keys2(p)
<1>1. CASE p = 0
  <2>1. PrevId(p) = 2 /\ NextId(p) = 1 /\ PrevId(2) = 1 BY <1>1 DEF PrevId, NextId
  <2>2. b = [n \in 0 .. 1 |-> <<1, n>>] BY <2>1 DEF BitKeys
  <2>3. b[0] = <<1, 0>> /\ b[1] = <<1, 1>> BY <2>2
  <2> QED BY <1>1, <2>1, <2>3 DEF Keys1, Keys2
<1>2. CASE p = 1
  <2>1. PrevId(p) = 0 /\ PrevId(0) = 2 BY <1>2 DEF PrevId
  <2>2. b = [n \in 0 .. 0 |-> <<2, n>>] BY <2>1 DEF BitKeys
  <2>3. b[0] = <<2, 0>> BY <2>2
  <2> QED BY <1>2, <2>1, <2>3 DEF Keys1, Keys2
<1>3. CASE p = 2
  <2>1. PrevId(p) = 1 /\ NextId(p) = 0 /\ PrevId(1) = 0 BY <1>3 DEF PrevId, NextId
  <2>2. b = [n \in 0 .. 1 |-> <<0, n>>] BY <2>1 DEF BitKeys
  <2>3. b[0] = <<0, 0>> /\ b[1] = <<0, 1>> BY <2>2
  <2> QED BY <1>3, <2>1, <2>3 DEF Keys1, Keys2
<1> QED BY <1>1, <1>2, <1>3 DEF Workers

\* setup_bitcomp's receive completes both key sets.
LEMMA BitcompRecvStep ==
  ASSUME Inv, NEW p \in Workers, BitcompRecv(p)
  PROVE  Inv'
<1> DEFINE q == PrevId(p)
<1>0. /\ status[p] # "gone" /\ Op(p)[1] = "bitcomp_recv" /\ Advance(p)
      /\ UNCHANGED <<status, faults, link, opened, accepted, chans, dones, mixed, pool>>
      /\ Queue(Key(p, q, 0, q)) # <<>> /\ wire' = Take(wire, Key(p, q, 0, q))
  BY DEF BitcompRecv, At, MainRecv
<1>1. /\ status[p] = "run" /\ pc[p] \in 1 .. Len(Program[p]) /\ Op(p) = Program[p][pc[p]]
      /\ NewEnd[p] \in Nat /\ Op(p) \in Ops /\ pc[p] = NewEnd[p] + 4
  <2>1. Op(p)[1] \in MainNames BY <1>0 DEF MainNames
  <2> QED BY <1>0, <2>1, MainAt
<1>2. /\ q \in Workers \ {p} /\ 0 \in Ctxs /\ 0 \in {0, -1}
      /\ \A r \in Workers : p = NextId(r) <=> r = q
  BY Neighbours DEF Ctxs
<1> HIDE DEF q
<1>3. Hears(p, q, 0, BitKeys(q), pc[p])
  <2>1. ASSUME NEW r \in Workers \ {p}, NEW n \in Ctxs
        PROVE  /\ Consume(r, p, n)[Program[p][pc[p]]] = IF r = q /\ n = 0 THEN <<BitKeys(q)>> ELSE <<>>
               /\ Emit(p, r, n)[Program[p][pc[p]]] = <<>>
    <3>1. p \in Workers \ {r} /\ r \in Workers OBVIOUS
    <3>4. Carries(p, r, n, Op(p)) /\ Carries(r, p, n, Op(p)) BY <1>1, <3>1, OpTraffic
    <3>2. Consume(r, p, n)[Op(p)] = IF p = NextId(r) /\ n = 0 THEN <<BitKeys(r)>> ELSE <<>>
      BY ONLY <1>0, <3>4 DEF Carries
    <3>3. Emit(p, r, n)[Op(p)] = <<>> BY ONLY <1>0, <3>4 DEF Carries
    <3> QED BY <1>1, <1>2, <3>2, <3>3
  <2> QED BY <1>1, <1>2, <2>1, HearsOf
<1>4. /\ Head(wire[Key(p, q, 0, q)]) = BitKeys(q)
      /\ RngInv' /\ mixed' = {} => Inv'
      /\ pc'[p] = pc[p] + 1 /\ \A a \in Workers \ {p} : Still(a)
  BY <1>0, <1>2, <1>3, HearStep
<1> DEFINE r == rngs[p]  r2 == [r EXCEPT !.keys1 = Keys1, !.keys2 = Keys2(p), !.drawn = 2]
<1>a. RngFits(p, r, pc[p], "run") /\ rngs = [a \in Workers |-> rngs[a]] BY <1>1 DEF Inv, RngInv
<1>b. r \in Rngs /\ r.seed1 = p /\ r.ctx = <<>> /\ r.seed2 = q BY <1>1, <1>a DEF RngFits, q
<1>5. rngs' = [rngs EXCEPT ![p] = r2]
  <2> DEFINE own(n) == {<<rngs[p].seed1, n>>, <<rngs[p].seed2, n>>}
             b == Incoming(p, PrevId(p))
             k1 == own(0) \cup {b[0]}
             k2 == own(1) \cup (IF p = 1 THEN {} ELSE {b[1]})
  <2>1. rngs' = [rngs EXCEPT ![p].keys1 = k1, ![p].keys2 = k2, ![p].drawn = 2]
    BY DEF BitcompRecv
  <2>2. b = BitKeys(PrevId(p)) BY <1>4 DEF Incoming, q
  <2>3. k1 = Keys1 /\ k2 = Keys2(p)
    <3>1. own(0) = {<<p, 0>>, <<PrevId(p), 0>>} /\ own(1) = {<<p, 1>>, <<PrevId(p), 1>>} BY <1>b DEF q
    <3> HIDE DEF b, own
    <3> QED BY <2>2, <3>1, KeysComplete
  <2> HIDE DEF k1, k2
  <2> QED BY ONLY <1>a, <2>1, <2>3, p \in Workers
<1>6. RngFits(p, r2, pc[p] + 1, "run")
  <2> HIDE DEF r
  <2>1. Keys1 \in SUBSET (Workers \X {0, 1}) BY DEF Keys1, Workers
  <2>2. Keys2(p) \in SUBSET (Workers \X {0, 1}) BY <1>2, Neighbours DEF Keys2, q
  <2>3. /\ r2 \in Rngs /\ r2.seed1 = p /\ r2.ctx = <<>> /\ r2.seed2 = PrevId(p)
        /\ r2.keys1 = Keys1 /\ r2.keys2 = Keys2(p) /\ r2.drawn = 2
    <3> HIDE DEF Keys1, Keys2
    <3> QED BY ONLY <1>b, <2>1, <2>2 DEF Rngs, q
  <2> HIDE DEF r2
  <2>4. Ready(p, r2)
    <3>1. Len(<<>>) = 0 OBVIOUS
    <3> QED BY <2>3, <3>1 DEF Ready
  <2> QED BY <1>1, <2>3, <2>4 DEF RngFits
<1>7. RngInv'
  <2>1. RngInv BY DEF Inv
  <2>2. RngFits(p, r2, pc'[p], status'[p]) BY <1>0, <1>1, <1>4, <1>6
  <2> QED BY ONLY <1>4, <1>5, <2>1, <2>2, p \in Workers, RngUpdate
<1>8. mixed' = {} BY <1>0 DEF Inv
<1> QED BY <1>4, <1>7, <1>8

\* A receive of the main thread keeps the invariant: the message is the expected one.
LEMMA RecvStep ==
  ASSUME Inv, NEW p \in Workers, Recv(p)
  PROVE  Inv'
<1>0. /\ status[p] # "gone" /\ Op(p)[1] = "recv" /\ Advance(p)
      /\ UNCHANGED <<status, faults, link, opened, accepted, chans, dones, rngs, pool>>
  BY DEF Recv, At
<1>1. /\ status[p] = "run" /\ pc[p] \in 1 .. Len(Program[p]) /\ Op(p) = Program[p][pc[p]]
      /\ NewEnd[p] \in Nat /\ Op(p) \in Ops /\ Op(p) \in MsgOps(p) /\ pc[p] > NewEnd[p] + 4
  <2>1. Op(p)[1] \in MainNames BY <1>0 DEF MainNames
  <2> QED BY <1>0, <2>1, MainAt
<1>2. PICK q \in Workers \ {p}, k \in {0, -1}, m \in Tags : Op(p)[2] = q /\ Op(p)[3] = k /\ Op(p)[4] = m
  BY <1>1 DEF MsgOps
<1>a. k \in Ctxs BY DEF Ctxs
<1>3. Hears(p, q, k, m, pc[p])
  <2>1. ASSUME NEW r \in Workers \ {p}, NEW n \in Ctxs
        PROVE  /\ Consume(r, p, n)[Program[p][pc[p]]] = IF r = q /\ n = k THEN <<m>> ELSE <<>>
               /\ Emit(p, r, n)[Program[p][pc[p]]] = <<>>
    <3>1. p \in Workers \ {r} /\ r \in Workers OBVIOUS
    <3>4. Carries(p, r, n, Op(p)) /\ Carries(r, p, n, Op(p)) BY <1>1, <3>1, OpTraffic
    <3> QED BY ONLY <1>0, <1>1, <1>2, <3>4 DEF Carries
  <2> QED BY <1>1, <1>a, <2>1, HearsOf
<1>4. /\ Queue(Key(p, q, k, q)) # <<>> /\ wire' = Take(wire, Key(p, q, k, q))
      /\ mixed' = Mixing(m, Head(wire[Key(p, q, k, q)]))
  BY <1>2 DEF Recv
<1>5. /\ Head(wire[Key(p, q, k, q)]) = m
      /\ RngInv' /\ mixed' = {} => Inv'
      /\ pc'[p] = pc[p] + 1 /\ \A a \in Workers \ {p} : Still(a)
  BY <1>0, <1>3, <1>4, HearStep
<1>6. mixed' = {} BY <1>4, <1>5 DEF Mixing, Inv
<1>7. RngInv'
  <2>1. ASSUME NEW a \in Workers PROVE RngFits(a, rngs[a], pc'[a], status'[a])
    <3>1. RngFits(a, rngs[a], pc[a], status[a]) BY DEF Inv, RngInv
    <3>2. CASE a # p BY <1>5, <3>1, <3>2 DEF Still
    <3>3. CASE a = p BY <1>0, <1>1, <1>5, <3>1, <3>3, RngStep
    <3> QED BY <3>2, <3>3
  <2> QED BY <1>0, <2>1 DEF RngInv, Inv
<1> QED BY <1>5, <1>6, <1>7

\* Rep3State's fork draws the next pair of seeds, and keeps the invariant.
LEMMA ForkRngsStep ==
  ASSUME Inv, NEW p \in Workers, ForkRngs(p)
  PROVE  Inv'
<1>0. /\ TypeInv /\ PcInv /\ StreamInv /\ ChanInv /\ RngInv /\ PoolInv /\ WireInv /\ FlowInv /\ mixed = {}
      /\ p \in Procs
  BY DEF Inv, Procs
<1>1. /\ status[p] # "gone" /\ Op(p)[1] = "fork_rngs" /\ Advance(p)
      /\ UNCHANGED <<status, faults, link, opened, accepted, chans, dones, wire, mixed, pool>>
  BY DEF ForkRngs, At
<1>2. /\ status[p] = "run" /\ pc[p] > NewEnd[p] + 4 /\ pc[p] \in Nat /\ NewEnd[p] \in Nat
  <2>1. status[p] = "run" /\ Regions(p, pc[p], Op(p)) /\ pc[p] \in 1 .. Len(Program[p]) BY <1>0, <1>1, RunsBody
  <2> QED BY <1>1, <2>1, ProgramIs DEF Regions
<1>3. Moves(p) BY <1>1 DEF Moves
<1>4. /\ TypeInv' /\ PcInv' /\ StreamInv' /\ ChanInv' /\ PoolInv'
      /\ pc'[p] = pc[p] + 1 /\ status'[p] = "run" /\ pool[p] = NoPool /\ pool'[p] = NoPool
      /\ \A a \in Workers \ {p} : Still(a)
  <2>1. Op(p)[1] \notin {"par", "open_bi", "accept_bi"} BY <1>1
  <2> QED BY <1>1, <1>2, <1>3, <2>1, MainStep
<1>5. ASSUME NEW a \in Workers PROVE Calm(a)
  <2>1. CASE a # p BY <1>4, <2>1 DEF Calm, Still
  <2>2. CASE a = p
    <3>1. Op(a)[1] \notin LoudNames BY <1>1, <2>2 DEF LoudNames
    <3> QED BY <1>2, <1>4, <2>2, <3>1 DEF Calm
  <2> QED BY <2>1, <2>2
<1>6. WireInv' /\ \A x : Queue(x)' = Queue(x) BY <1>0, <1>1, SameWire
<1>7. FlowInv'
  <2>1. pool' = [a \in Workers |-> pool'[a]] BY <1>0, <1>1 DEF PoolInv
  <2>2. \A x \in Workers : \A y \in Workers \ {x} : \A k \in Ctxs : QueueKept(x, y, k)
    BY <1>6 DEF QueueKept
  <2> QED BY <1>0, <1>5, <2>1, <2>2, CalmFlow
<1> DEFINE r == rngs[p]  c2 == Append(r.ctx, r.drawn)  r2 == [r EXCEPT !.ctx = c2, !.drawn = r.drawn + 1]
<1>a. RngFits(p, r, pc[p], "run") /\ rngs = [a \in Workers |-> rngs[a]] BY <1>0, <1>2 DEF RngInv
<1>8. rngs' = [rngs EXCEPT ![p] = r2]
  <2>1. rngs' = [rngs EXCEPT ![p].ctx = Append(@, rngs[p].drawn), ![p].drawn = @ + 1] BY DEF ForkRngs
  <2> QED BY ONLY <1>a, <2>1, p \in Workers
<1>9. RngFits(p, r2, pc[p] + 1, "run")
  <2>1. /\ r \in Rngs /\ r.seed1 = p /\ Ready(p, r) /\ r.seed2 = PrevId(p)
        /\ \A k \in 1 .. Len(r.ctx) : r.ctx[k] = k + 1
    BY <1>2, <1>a DEF RngFits, Ready
  <2> HIDE DEF r
  <2>2. r.ctx \in Seq(Nat) /\ r.drawn \in Nat /\ Len(r.ctx) \in Nat BY <2>1 DEF Rngs
  <2>3. r.drawn = 2 + Len(r.ctx) BY <2>1 DEF Ready
  <2>4. /\ c2 \in Seq(Nat) /\ Len(c2) = Len(r.ctx) + 1 /\ c2[Len(r.ctx) + 1] = r.drawn
        /\ \A k \in 1 .. Len(r.ctx) : c2[k] = r.ctx[k]
    BY ONLY <2>2
  <2> HIDE DEF c2
  <2>5. /\ r2 \in Rngs /\ r2.seed1 = p /\ r2.ctx = c2 /\ r2.seed2 = r.seed2 /\ r2.keys1 = r.keys1
        /\ r2.keys2 = r.keys2 /\ r2.drawn = r.drawn + 1
    <3>1. r \in Rngs /\ r.drawn + 1 \in Nat /\ c2 \in Seq(Nat) /\ r.seed1 = p BY <2>1, <2>2, <2>4
    <3> QED BY ONLY <3>1 DEF Rngs
  <2> HIDE DEF r2
  <2>6. Ready(p, r2)
    <3>1. r2.drawn = 2 + Len(r2.ctx) BY ONLY <2>2, <2>3, <2>4, <2>5
    <3> QED BY <2>1, <2>5, <3>1 DEF Ready
  <2>7. \A k \in 1 .. Len(r2.ctx) : r2.ctx[k] = k + 1
    <3>1. SUFFICES ASSUME NEW k \in 1 .. Len(r.ctx) + 1 PROVE c2[k] = k + 1 BY <2>4, <2>5
    <3>2. CASE k \in 1 .. Len(r.ctx) BY <2>1, <2>4, <3>2
    <3>3. CASE k = Len(r.ctx) + 1 BY <2>2, <2>3, <2>4, <3>3
    <3> QED BY <2>2, <3>2, <3>3
  <2>8. r2.keys2 = Keys2(p) BY <2>6 DEF Ready
  <2> QED BY <1>2, <2>1, <2>5, <2>6, <2>7, <2>8 DEF RngFits
<1>10. RngInv'
  <2>2. RngFits(p, r2, pc'[p], status'[p]) BY <1>4, <1>9
  <2> QED BY ONLY <1>0, <1>4, <1>8, <2>2, p \in Workers, RngUpdate
<1>11. mixed' = {} BY <1>0, <1>1
<1> QED BY <1>4, <1>6, <1>7, <1>10, <1>11 DEF Inv

-----------------------------------------------------------------------------
(* The steps of a Rayon pool *)

\* What the invariant says of a worker in a parallel call.
LEMMA PoolIn ==
  ASSUME Inv, NEW p \in Workers, NEW pl, pl = pool[p], pl # NoPool
  PROVE  /\ pl.call \in Parallel /\ status[p] = "run" /\ Op(p) = <<"par", pl.call>>
         /\ PoolOK(ChunksOf(pl.call), CALLS[pl.call].rounds, pl)
         /\ ChunksOf(pl.call) \in Nat \ {0} /\ ChunksOf(pl.call) <= FORKS
         /\ CALLS[pl.call].rounds \in Nat \ {0}
         /\ DOMAIN pl.at = 0 .. ChunksOf(pl.call) - 1 /\ pl.call # 0
<1>1. PoolFits(pl, Program[p][pc[p]], status[p]) BY DEF Inv, PoolInv
<1>2. /\ pl.call \in Parallel /\ status[p] = "run" /\ Program[p][pc[p]] = <<"par", pl.call>>
      /\ PoolOK(ChunksOf(pl.call), CALLS[pl.call].rounds, pl)
  BY <1>1 DEF PoolFits
<1>3. Op(p) = <<"par", pl.call>> BY <1>2, PcAt DEF Inv
<1>4. pl.call \in DOMAIN CALLS /\ NumChunks(CALLS[pl.call].len) > 1 BY <1>2 DEF Parallel
<1>5. CALLS[pl.call].len \in Nat \ {0} /\ CALLS[pl.call].rounds \in Nat \ {0} /\ pl.call \in 1 .. Len(CALLS)
  BY <1>4, CallsTyped
<1>6. ChunksOf(pl.call) \in 2 .. FORKS BY <1>4, <1>5, ChunksBound DEF ChunksOf
<1>7. pl.at \in [0 .. ChunksOf(pl.call) - 1 -> Nat \cup {Fin}] BY <1>2 DEF PoolOK, Pools
<1>8. pl.call # 0 BY <1>5
<1>9. ChunksOf(pl.call) \in Nat \ {0} /\ ChunksOf(pl.call) <= FORKS BY <1>6, ParametersTyped
<1> QED BY <1>2, <1>3, <1>5, <1>7, <1>8, <1>9

\* A pool goes on to pl2.
LEMMA PoolWrite ==
  ASSUME PoolInv, NEW p \in Workers, NEW pl2, pool' = [pool EXCEPT ![p] = pl2],
         UNCHANGED <<pc, status>>, PoolFits(pl2, Program[p][pc[p]], status[p])
  PROVE  PoolInv' /\ pool'[p] = pl2 /\ \A a \in Workers \ {p} : Still(a)
<1>1. pool = [a \in Workers |-> pool[a]] /\ \A a \in Workers : PoolFits(pool[a], Program[a][pc[a]], status[a])
  BY DEF PoolInv
<1>2. pool' = [a \in Workers |-> IF a = p THEN pl2 ELSE pool[a]] BY ONLY <1>1, pool' = [pool EXCEPT ![p] = pl2]
<1>3. pool' = [a \in Workers |-> pool'[a]] /\ pool'[p] = pl2 /\ \A a \in Workers \ {p} : pool'[a] = pool[a]
  BY ONLY <1>2, p \in Workers
<1>4. ASSUME NEW a \in Workers PROVE PoolFits(pool'[a], Program[a][pc'[a]], status'[a])
  <2>1. CASE a = p BY <2>1, <1>3
  <2>2. CASE a # p BY <2>2, <1>1, <1>3
  <2> QED BY <2>1, <2>2
<1> QED BY <1>3, <1>4 DEF PoolInv, Still

SameCounts(pl, pl2, k) ==
  /\ ChunkSent(pl2, k) = ChunkSent(pl, k) /\ ChunkRecvd(pl2, k) = ChunkRecvd(pl, k)
  /\ Abandoned(pl2, k) <=> Abandoned(pl, k)
Goes(pl, pl2, k) == Abandoned(pl2, k) \/ SameCounts(pl, pl2, k)

\* A pool step that moves no chunk's counts moves none of the flow.
LEMMA GoesSteady ==
  ASSUME NEW p \in Workers, NEW pl2, pool'[p] = pl2, UNCHANGED <<pc, status>>, NEW k \in Ctxs,
         Goes(pool[p], pl2, k), NEW r \in Workers \ {p}
  PROVE  OutSteady(p, r, k) /\ InSteady(r, p, k)
<1>1. CASE Abandoned(pl2, k) BY <1>1 DEF OutSteady, InSteady, Active
<1>2. CASE SameCounts(pool[p], pl2, k)
  BY <1>2 DEF SameCounts, OutSteady, InSteady, Active, OutsOf, InsOf
<1> QED BY <1>1, <1>2 DEF Goes

\* A pool step that moves no chunk's counts keeps the invariant.
LEMMA WorkStep ==
  ASSUME Inv, NEW p \in Workers, NEW pl2, pool' = [pool EXCEPT ![p] = pl2],
         UNCHANGED <<pc, status, faults, link, opened, accepted, chans, dones, wire, rngs, mixed>>,
         PoolFits(pl2, Program[p][pc[p]], status[p]), \A k \in Ctxs : Goes(pool[p], pl2, k)
  PROVE  Inv'
<1>0. /\ TypeInv /\ PcInv /\ StreamInv /\ ChanInv /\ RngInv /\ PoolInv /\ WireInv /\ FlowInv /\ mixed = {}
  BY DEF Inv
<1>1. PoolInv' /\ pool'[p] = pl2 /\ \A a \in Workers \ {p} : Still(a) BY <1>0, PoolWrite
<1>2. WireInv' /\ \A x : Queue(x)' = Queue(x) BY <1>0, SameWire
<1>3. FlowInv'
  <2>1. ASSUME NEW x \in Workers, NEW y \in Workers \ {x}, NEW k \in Ctxs PROVE Flow(x, y, k)'
    <3>1. x = p => OutSteady(x, y, k) BY <1>1, GoesSteady
    <3>2. y = p => InSteady(x, y, k)
      <4>1. y = p => x \in Workers \ {p} OBVIOUS
      <4> QED BY <1>1, <4>1, GoesSteady
    <3> QED BY <1>0, <1>1, <1>2, <3>1, <3>2, OthersFlow
  <2> QED BY <2>1 DEF FlowInv
<1>4. StreamInv' /\ PeersKept BY <1>0, SameStreams
<1>5. ChanInv' BY <1>0, <1>4, ChanKept
<1>6. TypeInv' BY <1>0 DEF TypeInv
<1>7. PcInv'
  <2>1. pc = [r \in Procs |-> pc[r]] /\ \A r \in Procs : PcFits(r, pc[r], status[r]) BY <1>0 DEF PcInv
  <2> QED BY ONLY <2>1, UNCHANGED <<pc, status>> DEF PcInv
<1>8. RngInv' BY <1>0 DEF RngInv
<1>9. mixed' = {} BY <1>0
<1> QED BY <1>1, <1>2, <1>3, <1>4, <1>5, <1>6, <1>7, <1>8, <1>9 DEF Inv

\* Starting a chunk moves no count.
LEMMA StartedGoes ==
  ASSUME NEW pl, NEW pl2, Started(pl, pl2), NEW k
  PROVE  Goes(pl, pl2, k)
<1>1. InChunk(pl2, k) = InChunk(pl, k) BY DEF Started, InChunk
<1>2. CASE InChunk(pl, k)
  <2>1. k - 1 \in DOMAIN pl.at /\ pl2.failed = pl.failed /\ pl2.call = pl.call
    BY <1>2 DEF InChunk, Started
  <2>2. CASE pl2.at[k - 1] = pl.at[k - 1]
    BY <1>1, <2>1, <2>2 DEF Goes, SameCounts, ChunkSent, ChunkRecvd, Abandoned
  <2>3. CASE pl.at[k - 1] = 0 /\ pl2.at[k - 1] = 1
    <3>1. \A r : SentN(0, r) = 0 /\ SentN(1, r) = 0 /\ RecvN(0, r) = 0 /\ RecvN(1, r) = 0
      BY DEF SentN, RecvN, Fin
    <3>2. ~Abandoned(pl, k) /\ ~Abandoned(pl2, k) BY <2>3 DEF Abandoned, Fin
    <3> QED BY <1>1, <2>1, <2>3, <3>1, <3>2 DEF Goes, SameCounts, ChunkSent, ChunkRecvd
  <2> QED BY <2>1, <2>2, <2>3 DEF Started
<1>3. CASE ~InChunk(pl, k)
  BY <1>1, <1>3 DEF Goes, SameCounts, ChunkSent, ChunkRecvd, Abandoned
<1> QED BY <1>2, <1>3

\* Giving up chunks only abandons them.
LEMMA GaveUpGoes ==
  ASSUME NEW pl, NEW pl2, GaveUp(pl, pl2), NEW k
  PROVE  Goes(pl, pl2, k)
<1>1. InChunk(pl2, k) = InChunk(pl, k) BY DEF GaveUp, InChunk
<1>2. CASE InChunk(pl, k)
  <2>1. k - 1 \in DOMAIN pl.at /\ pl2.failed /\ pl2.call = pl.call
    BY <1>2 DEF InChunk, GaveUp
  <2>2. CASE pl2.at[k - 1] = Fin
    BY <1>1, <1>2, <2>1, <2>2 DEF Goes, Abandoned
  <2>3. CASE pl2.at[k - 1] # Fin /\ pl2.at[k - 1] = pl.at[k - 1]
    BY <1>1, <2>1, <2>3 DEF Goes, SameCounts, ChunkSent, ChunkRecvd, Abandoned
  <2> QED BY <2>1, <2>2, <2>3 DEF GaveUp
<1>3. CASE ~InChunk(pl, k)
  BY <1>1, <1>3 DEF Goes, SameCounts, ChunkSent, ChunkRecvd, Abandoned
<1> QED BY <1>2, <1>3

\* A pool step that starts or gives up chunks keeps the invariant.
LEMMA PoolStarts ==
  ASSUME Inv, NEW p \in Workers, NEW pl, pl = pool[p], pl # NoPool, NEW pl2,
         PoolOK(ChunksOf(pl.call), CALLS[pl.call].rounds, pl2), Started(pl, pl2) \/ GaveUp(pl, pl2),
         pool' = [pool EXCEPT ![p] = pl2],
         UNCHANGED <<pc, status, faults, link, opened, accepted, chans, dones, wire, rngs, mixed>>
  PROVE  Inv'
<1>1. pl.call \in Parallel /\ status[p] = "run" /\ Op(p) = <<"par", pl.call>> BY PoolIn
<1>2. pl2.call = pl.call BY DEF Started, GaveUp
<1>3. Op(p) = Program[p][pc[p]] BY PcAt DEF Inv
<1>4. PoolFits(pl2, Program[p][pc[p]], status[p]) BY <1>1, <1>2, <1>3 DEF PoolFits
<1>5. \A k \in Ctxs : Goes(pool[p], pl2, k) BY StartedGoes, GaveUpGoes
<1> QED BY <1>4, <1>5, WorkStep

FreshPool(c, A) ==
  [call |-> c, injected |-> TRUE, busy |-> {}, at |-> A, fork |-> A, failed |-> FALSE]

\* A call just injected into the pool is well-formed and has sent and received nothing.
LEMMA NewPool ==
  ASSUME NEW n \in Nat, NEW r \in Nat, NEW c \in Nat, NEW A \in [0 .. n - 1 -> {0}],
         NEW pl2, pl2 = FreshPool(c, A)
  PROVE  PoolOK(n, r, pl2) /\ pl2.call = c /\ \A k : Goes(NoPool, pl2, k)
<1>2. ThreadsOK(pl2.at, {}) BY DEF ThreadsOK
<1>3. /\ pl2.call = c /\ pl2.injected = TRUE /\ pl2.busy = {} /\ pl2.at = A
      /\ pl2.fork = A /\ pl2.failed = FALSE
  BY DEF FreshPool
<1>a. A \in [0 .. n - 1 -> Nat \cup {Fin}] /\ A \in [0 .. n - 1 -> Nat] OBVIOUS
<1>4. pl2 \in Pools(n) BY <1>a DEF Pools, FreshPool
<1>5. \A i \in 0 .. n - 1 : pl2.at[i] = 0 BY <1>3
<1>6. \A i \in 0 .. n - 1 : pl2.at[i] <= 2 * r /\ (pl2.at[i] \notin {0, Fin} => pl2.fork[i] = i + 1)
  BY <1>5
<1>7. PoolOK(n, r, pl2) BY <1>2, <1>3, <1>4, <1>5, <1>6 DEF PoolOK
<1>8. ASSUME NEW k PROVE Goes(NoPool, pl2, k)
  <2>1. ChunkSent(NoPool, k) = 0 /\ ChunkRecvd(NoPool, k) = 0 /\ ~Abandoned(NoPool, k) BY NoPoolCounts
  <2>2. \A x : SentN(0, x) = 0 /\ RecvN(0, x) = 0 BY DEF SentN, RecvN, Fin
  <2>3. InChunk(pl2, k) => pl2.at[k - 1] = 0 BY <1>3 DEF InChunk
  <2>4. ChunkSent(pl2, k) = 0 /\ ChunkRecvd(pl2, k) = 0 BY <2>2, <2>3 DEF ChunkSent, ChunkRecvd
  <2>5. ~Abandoned(pl2, k) BY <1>3 DEF Abandoned
  <2> QED BY <2>1, <2>4, <2>5 DEF Goes, SameCounts
<1> QED BY <1>3, <1>7, <1>8

\* Entering a parallel call keeps the invariant.
LEMMA ParCallStep ==
  ASSUME Inv, NEW p \in Workers, ParCall(p)
  PROVE  Inv'
<1>1. /\ status[p] # "gone" /\ Op(p)[1] = "par" /\ pool[p].call = 0
      /\ UNCHANGED <<pc, status, faults, link, opened, accepted, chans, dones, wire, rngs, mixed>>
  BY DEF ParCall, At
<1>2. /\ status[p] = "run" /\ Regions(p, pc[p], Op(p)) /\ Op(p) = Program[p][pc[p]]
  BY <1>1, RunsBody DEF Inv
<1>3. Op(p) \in ParOps BY <1>1, <1>2 DEF Regions
<1>4. PICK c \in Parallel : Op(p) = <<"par", c>> BY <1>3 DEF ParOps
<1>5. c \in DOMAIN CALLS /\ NumChunks(CALLS[c].len) > 1 BY DEF Parallel
<1>6. CALLS[c].len \in Nat \ {0} /\ CALLS[c].rounds \in Nat /\ c \in Nat BY <1>5, CallsTyped
<1>7. ChunksOf(c) \in Nat /\ ChunksOf(c) = NumChunks(CALLS[c].len)
  BY <1>5, <1>6, ChunksBound, ParametersTyped DEF ChunksOf
<1>8. pool[p] = NoPool
  <2>1. SUFFICES ASSUME pool[p] # NoPool PROVE FALSE OBVIOUS
  <2>2. PICK pl : pl = pool[p] OBVIOUS
  <2> QED BY <1>1, <2>1, <2>2, PoolIn
<1>9. PICK A : A = [i \in 0 .. ChunksOf(c) - 1 |-> 0] OBVIOUS
<1>a. A \in [0 .. ChunksOf(c) - 1 -> {0}] BY <1>9
<1>b. PICK pl2 : pl2 = FreshPool(c, A) OBVIOUS
<1>10. pool' = [pool EXCEPT ![p] = pl2]
  <2>1. pool' = [pool EXCEPT ![p] = [NoPool EXCEPT !.call = c, !.injected = TRUE, !.at = A, !.fork = A]]
    <3>1. Op(p)[2] = c BY <1>4
    <3>2. pool' = [pool EXCEPT ![p] = [NoPool EXCEPT !.call = c, !.injected = TRUE,
                      !.at = [i \in 0 .. NumChunks(CALLS[c].len) - 1 |-> 0],
                      !.fork = [i \in 0 .. NumChunks(CALLS[c].len) - 1 |-> 0]]]
      BY <3>1 DEF ParCall
    <3> QED BY ONLY <1>7, <1>9, <3>2
  <2>2. PICK x : x = [NoPool EXCEPT !.call = c, !.injected = TRUE, !.at = A, !.fork = A] OBVIOUS
  <2>3. x = FreshPool(c, A) BY ONLY <2>2 DEF NoPool, FreshPool
  <2> QED BY <1>b, <2>1, <2>2, <2>3
<1>11. PoolOK(ChunksOf(c), CALLS[c].rounds, pl2) /\ pl2.call = c /\ \A k : Goes(NoPool, pl2, k)
  BY ONLY <1>6, <1>7, <1>a, <1>b, NewPool
<1>12. PoolFits(pl2, Program[p][pc[p]], status[p]) BY <1>2, <1>4, <1>11 DEF PoolFits
<1> QED BY <1>1, <1>8, <1>10, <1>11, <1>12, WorkStep

\* Taking the injected call, stealing and beginning the next chunk keep the invariant.
LEMMA TakeSteps ==
  ASSUME Inv, NEW p \in Workers, TakeInjected(p) \/ Steal(p) \/ NextChunk(p)
  PROVE  Inv'
<1>1. UNCHANGED <<pc, status, faults, link, opened, accepted, chans, dones, wire, rngs, mixed>>
  BY DEF TakeInjected, Steal, NextChunk
<1>2. PICK pl : pl = pool[p] OBVIOUS
<1>3. THREADS[p] \in Nat BY ParametersTyped
<1>4. pl # NoPool BY <1>2 DEF TakeInjected, Steal, NextChunk, NoPool
<1>a. PICK n, r : n = ChunksOf(pl.call) /\ r = CALLS[pl.call].rounds OBVIOUS
<1>5. PoolOK(n, r, pl) /\ n \in Nat \ {0} /\ r \in Nat \ {0}
  BY <1>2, <1>4, <1>a, PoolIn
<1>6. CASE TakeInjected(p)
  <2>1. PICK pl2 : pl2 = Taken([pl EXCEPT !.injected = FALSE], Idle, <<>>, <<0, Cardinality(DOMAIN pl.at), THREADS[p]>>)
    OBVIOUS
  <2>2. pl.injected /\ pool' = [pool EXCEPT ![p] = pl2] BY <1>2, <1>6, <2>1 DEF TakeInjected
  <2>3. PoolOK(n, r, pl2) /\ Started(pl, pl2) BY <1>3, <1>5, <2>1, <2>2, InjectedOK
  <2> QED BY <1>1, <1>2, <1>4, <1>a, <2>2, <2>3, PoolStarts
<1>7. CASE Steal(p)
  <2>1. PICK v \in pl.busy :
          /\ v.deque # <<>>
          /\ pool' = [pool EXCEPT ![p] = Taken(Robbed(pl, v), Idle, <<>>, Stolen(p, Head(v.deque)))]
    BY <1>2, <1>7 DEF Steal
  <2>2. PICK pl2 : pl2 = Taken(Robbed(pl, v), Idle, <<>>, Stolen(p, Head(v.deque))) OBVIOUS
  <2>3. Len(v.deque) > 0
    <3>1. v \in Threads BY <1>5 DEF PoolOK, ThreadsOK, ThreadOK, PiecesOK
    <3>2. v.deque \in Seq(Jobs) BY <3>1, ThreadType
    <3> QED BY ONLY <2>1, <3>2
  <2>4. PoolOK(n, r, pl2) /\ Started(pl, pl2) BY <1>5, <2>2, <2>3, StealOK
  <2>5. pool' = [pool EXCEPT ![p] = pl2] BY <2>1, <2>2
  <2> QED BY <1>1, <1>2, <1>4, <1>a, <2>4, <2>5, PoolStarts
<1>8. CASE NextChunk(p)
  <2>1. PICK w \in pl.busy :
          /\ ~AtEnd(Top(w)) /\ pl.at[Top(w).i] = 0
          /\ pool' = [pool EXCEPT ![p] = Begin(pl, Top(w).i)]
    BY <1>2, <1>8 DEF NextChunk
  <2>2. PICK pl2 : pl2 = Begin(pl, Top(w).i) OBVIOUS
  <2>3. PoolOK(n, r, pl2) /\ Started(pl, pl2) BY <1>5, <2>1, <2>2, NextChunkOK
  <2>4. pool' = [pool EXCEPT ![p] = pl2] BY <2>1, <2>2
  <2> QED BY <1>1, <1>2, <1>4, <1>a, <2>3, <2>4, PoolStarts
<1> QED BY <1>6, <1>7, <1>8

\* Working on another job while a half is elsewhere keeps the invariant.
LEMMA WaitStep ==
  ASSUME Inv, NEW p \in Workers, WorkWhileWaiting(p)
  PROVE  Inv'
<1>1. UNCHANGED <<pc, status, faults, link, opened, accepted, chans, dones, wire, rngs, mixed>>
  BY DEF WorkWhileWaiting
<1>2. PICK pl : pl = pool[p] OBVIOUS
<1>3. PICK w \in pl.busy, v \in pl.busy :
        /\ v.deque # <<>> /\ (w.deque # <<>> => v = w)
        /\ pool' = [pool EXCEPT ![p] =
              IF v = w THEN Taken(pl, w, Front(w.deque), Last(w.deque))
                       ELSE Taken(Robbed(pl, v), w, <<>>, Stolen(p, Head(v.deque)))]
  BY <1>2 DEF WorkWhileWaiting
<1>4. pl # NoPool BY <1>3 DEF NoPool
<1>a. PICK n, r : n = ChunksOf(pl.call) /\ r = CALLS[pl.call].rounds OBVIOUS
<1>5. PoolOK(n, r, pl) /\ n \in Nat \ {0} /\ r \in Nat \ {0}
  BY <1>2, <1>4, <1>a, PoolIn
<1>6. Len(v.deque) > 0
  <2>1. v \in Threads BY <1>5 DEF PoolOK, ThreadsOK, ThreadOK, PiecesOK
  <2>2. v.deque \in Seq(Jobs) BY <2>1, ThreadType
  <2> QED BY ONLY <1>3, <2>2
<1>7. CASE v = w
  <2>1. PICK pl2 : pl2 = Taken(pl, w, Front(w.deque), Last(w.deque)) OBVIOUS
  <2>2. PoolOK(n, r, pl2) /\ Started(pl, pl2) BY <1>5, <1>6, <1>7, <2>1, OwnOK
  <2>3. pool' = [pool EXCEPT ![p] = pl2] BY <1>3, <1>7, <2>1
  <2> QED BY <1>1, <1>2, <1>4, <1>a, <2>2, <2>3, PoolStarts
<1>8. CASE v # w
  <2>1. PICK pl2 : pl2 = Taken(Robbed(pl, v), w, <<>>, Stolen(p, Head(v.deque))) OBVIOUS
  <2>2. PoolOK(n, r, pl2) /\ Started(pl, pl2) BY <1>3, <1>5, <1>6, <1>8, <2>1, StealMoreOK
  <2>3. pool' = [pool EXCEPT ![p] = pl2] BY <1>3, <1>8, <2>1
  <2> QED BY <1>1, <1>2, <1>4, <1>a, <2>2, <2>3, PoolStarts
<1> QED BY <1>7, <1>8

\* A chunk's error keeps the invariant.
LEMMA ChunkFailStep ==
  ASSUME Inv, NEW p \in Workers, ChunkFail(p)
  PROVE  Inv'
<1>1. UNCHANGED <<pc, status, faults, link, opened, accepted, chans, dones, wire, rngs, mixed>>
  BY DEF ChunkFail
<1>2. PICK pl : pl = pool[p] OBVIOUS
<1>3. PICK w \in pl.busy : ~AtEnd(Top(w)) /\ pool' = [pool EXCEPT ![p] = Skipped(pl, w)]
  BY <1>2 DEF ChunkFail, Running
<1>4. pl # NoPool BY <1>3 DEF NoPool
<1>a. PICK n, r : n = ChunksOf(pl.call) /\ r = CALLS[pl.call].rounds OBVIOUS
<1>5. PoolOK(n, r, pl) /\ n \in Nat \ {0} /\ r \in Nat \ {0}
  BY <1>2, <1>4, <1>a, PoolIn
<1>6. PICK pl2 : pl2 = Skipped(pl, w) OBVIOUS
<1>7. PoolOK(n, r, pl2) /\ GaveUp(pl, pl2) BY <1>3, <1>5, <1>6, SkippedOK
<1>8. pool' = [pool EXCEPT ![p] = pl2] BY <1>3, <1>6
<1> QED BY <1>1, <1>2, <1>4, <1>7, <1>8, <1>a, PoolStarts

\* Counting the messages of a chunk that is at a.
LEMMA OddStep ==
  ASSUME NEW a \in Nat, NEW r \in Nat \ {0}, a % 2 = 1, a <= 2 * r
  PROVE  /\ a # 0 /\ a < 2 * r /\ a \div 2 \in Nat /\ a \div 2 + 1 \in 1 .. r
         /\ CeilDiv(a, 2) = a \div 2 + 1 /\ SentN(a, r) = a \div 2 /\ SentN(a + 1, r) = a \div 2 + 1
         /\ RecvN(a + 1, r) = RecvN(a, r)
<1>1. a # 0 OBVIOUS
<1>2. a < 2 * r
  <2>1. (2 * r) % 2 = 0 OBVIOUS
  <2> QED BY <2>1
<1>3. (a + 1) \div 2 = a \div 2 + 1 OBVIOUS
<1>4. (a - 1) \div 2 = a \div 2 OBVIOUS
<1>5. (a + 2 - 1) \div 2 = a \div 2 + 1 OBVIOUS
<1>6. a \div 2 \in Nat /\ (a + 1) \div 2 \in Nat /\ 2 * ((a + 1) \div 2) <= a + 1 BY Half
<1>7. a \div 2 + 1 <= r BY <1>2, <1>3, <1>6
<1>8. CeilDiv(a, 2) = a \div 2 + 1 BY <1>5 DEF CeilDiv
<1>9. SentN(a, r) = a \div 2 /\ SentN(a + 1, r) = a \div 2 + 1 BY <1>3 DEF SentN, Fin
<1>10. RecvN(a, r) = a \div 2
  <2>1. a # Fin BY DEF Fin
  <2> QED BY ONLY <1>1, <1>4, <2>1 DEF RecvN
<1>11. RecvN(a + 1, r) = a \div 2
  <2>1. a + 1 # Fin /\ a + 1 # 0 /\ a + 1 - 1 = a BY DEF Fin
  <2> QED BY ONLY <2>1 DEF RecvN
<1> QED BY <1>1, <1>2, <1>6, <1>7, <1>8, <1>9, <1>10, <1>11

\* A chunk about to receive has sent one message more than it received.
LEMMA EvenStep ==
  ASSUME NEW a \in Nat \ {0}, NEW r \in Nat \ {0}, a % 2 = 0, a <= 2 * r,
         NEW b, b = IF a = 2 * r THEN Fin ELSE a + 1
  PROVE  /\ a \div 2 \in 1 .. r /\ RecvN(a, r) \in Nat /\ RecvN(a, r) + 1 = a \div 2
         /\ RecvN(b, r) = a \div 2 /\ SentN(a, r) = a \div 2 /\ SentN(b, r) = a \div 2
<1>1. (a - 1) \div 2 + 1 = a \div 2 OBVIOUS
<1>2. (a + 1) \div 2 = a \div 2 OBVIOUS
<1>3. a \div 2 \in Nat /\ 2 * (a \div 2) <= a /\ (a - 1) \div 2 \in Nat
  <2>1. a - 1 \in Nat OBVIOUS
  <2> QED BY <2>1, Half
<1>4. a \div 2 \in 1 .. r BY <1>1, <1>3
<1>5. a # Fin /\ a + 1 # Fin /\ a + 1 # 0 /\ a + 1 - 1 = a BY DEF Fin
<1>6. RecvN(a, r) = (a - 1) \div 2 BY <1>5 DEF RecvN
<1>7. SentN(a, r) = a \div 2 BY <1>5 DEF SentN
<1>8. CASE a = 2 * r
  <2>1. a \div 2 = r BY <1>8
  <2>2. RecvN(b, r) = r /\ SentN(b, r) = r BY <1>8 DEF RecvN, SentN
  <2> QED BY <1>1, <1>3, <1>4, <1>6, <1>7, <2>1, <2>2
<1>9. CASE a # 2 * r
  <2>1. RecvN(a + 1, r) = a \div 2 BY ONLY <1>5 DEF RecvN
  <2>2. SentN(a + 1, r) = a \div 2 BY ONLY <1>2, <1>5 DEF SentN
  <2> QED BY <1>1, <1>3, <1>4, <1>6, <1>7, <1>9, <2>1, <2>2
<1> QED BY <1>8, <1>9

\* The step of one chunk moves no other chunk's counts.
LEMMA OtherGoes ==
  ASSUME NEW pl, NEW pl2, NEW i \in Int, NEW b, Steps(pl, pl2, i, b), NEW k \in Ctxs, k # i + 1
  PROVE  Goes(pl, pl2, k)
<1>0. k - 1 # i /\ k \in Int BY ParametersTyped DEF Ctxs
<1>1. InChunk(pl2, k) = InChunk(pl, k) BY DEF Steps, InChunk
<1>2. CASE InChunk(pl, k)
  <2>1. k - 1 \in DOMAIN pl.at \ {i} /\ pl2.failed = pl.failed /\ pl2.call = pl.call
    BY <1>0, <1>2 DEF InChunk, Steps
  <2>2. CASE pl2.at[k - 1] = pl.at[k - 1]
    BY <1>1, <2>1, <2>2 DEF Goes, SameCounts, ChunkSent, ChunkRecvd, Abandoned
  <2>3. CASE pl.at[k - 1] = 0 /\ pl2.at[k - 1] = 1
    <3>1. \A r : SentN(0, r) = 0 /\ SentN(1, r) = 0 /\ RecvN(0, r) = 0 /\ RecvN(1, r) = 0
      BY DEF SentN, RecvN, Fin
    <3>2. ~Abandoned(pl, k) /\ ~Abandoned(pl2, k) BY <2>3 DEF Abandoned, Fin
    <3> QED BY <1>1, <2>1, <2>3, <3>1, <3>2 DEF Goes, SameCounts, ChunkSent, ChunkRecvd
  <2> QED BY <2>1, <2>2, <2>3 DEF Steps
<1>3. CASE ~InChunk(pl, k)
  BY <1>1, <1>3 DEF Goes, SameCounts, ChunkSent, ChunkRecvd, Abandoned
<1> QED BY <1>2, <1>3

\* A pool step touches neither channels, programs nor generators.
LEMMA PoolRest ==
  ASSUME Inv, UNCHANGED <<pc, status, faults, link, opened, accepted, chans, dones, rngs>>
  PROVE  TypeInv' /\ PcInv' /\ StreamInv' /\ ChanInv' /\ RngInv'
<1>0. TypeInv /\ PcInv /\ StreamInv /\ ChanInv /\ RngInv BY DEF Inv
<1>4. StreamInv' /\ PeersKept BY <1>0, SameStreams
<1>5. ChanInv' BY <1>0, <1>4, ChanKept
<1>6. TypeInv' BY <1>0 DEF TypeInv
<1>7. PcInv'
  <2>1. pc = [r \in Procs |-> pc[r]] /\ \A r \in Procs : PcFits(r, pc[r], status[r]) BY <1>0 DEF PcInv
  <2> QED BY ONLY <2>1, UNCHANGED <<pc, status>> DEF PcInv
<1>8. RngInv' BY <1>0 DEF RngInv
<1> QED BY <1>4, <1>5, <1>6, <1>7, <1>8

\* A running chunk uses the fork of its own index, so both ends' streams for it are one.
LEMMA ChunkAt ==
  ASSUME Inv, NEW p \in Workers, NEW pl, pl = pool[p], NEW w \in Running(p), NEW i, i = Top(w).i
  PROVE  /\ pl # NoPool /\ w \in pl.busy /\ ~AtEnd(Top(w)) /\ pl.at[i] # 0
         /\ i \in 0 .. ChunksOf(pl.call) - 1 /\ i \in Nat /\ i + 1 \in Ctxs
         /\ pl.at[i] \in Nat \ {0} /\ pl.at[i] <= 2 * CALLS[pl.call].rounds
         /\ pc[p] > InitEnd(p) /\ InChunk(pl, i + 1) /\ i + 1 - 1 = i /\ ~Abandoned(pl, i + 1)
         /\ pl.fork[i] = i + 1
         /\ \A q \in Workers \ {p} : /\ ChunkKey(p, i, q, p) = SKey(p, q, i + 1)
                                     /\ ChunkKey(p, i, q, q) = SKey(q, p, i + 1)
<1>1. w \in pl.busy /\ ~AtEnd(Top(w)) /\ pl.at[i] # 0 BY DEF Running
<1>2. pl # NoPool BY <1>1 DEF NoPool
<1>a. PICK n, r : n = ChunksOf(pl.call) /\ r = CALLS[pl.call].rounds OBVIOUS
<1>3. /\ PoolOK(n, r, pl) /\ n \in Nat \ {0} /\ r \in Nat \ {0} /\ n <= FORKS /\ status[p] = "run"
      /\ DOMAIN pl.at = 0 .. n - 1 /\ pl.call # 0 /\ Op(p) = <<"par", pl.call>>
  BY <1>2, <1>a, PoolIn
<1>4. i \in 0 .. n - 1 /\ pl.at[i] \in Nat \ {0} /\ pl.at[i] <= 2 * r /\ pl.fork[i] = i + 1
  <2>1. n \in Nat /\ r \in Nat \ {0} /\ PoolOK(n, r, pl) /\ pl.at[Top(w).i] # 0 BY ONLY <1>1, <1>3, i = Top(w).i
  <2> QED BY ONLY <1>1, <2>1, RunningChunk, i = Top(w).i
<1>5. i \in Nat /\ i + 1 \in Ctxs /\ i + 1 - 1 = i BY <1>3, <1>4, ParametersTyped DEF Ctxs
<1>6. pc[p] > InitEnd(p)
  <2>1. Regions(p, pc[p], Op(p)) BY PcAt DEF Inv
  <2>2. Op(p)[1] = "par" BY <1>3
  <2> QED BY <2>1, <2>2 DEF Regions
<1>7. InChunk(pl, i + 1) /\ ~Abandoned(pl, i + 1) BY <1>3, <1>4, <1>5 DEF InChunk, Abandoned, Fin
<1>8. ASSUME NEW q \in Workers \ {p}
      PROVE  ChunkKey(p, i, q, p) = SKey(p, q, i + 1) /\ ChunkKey(p, i, q, q) = SKey(q, p, i + 1)
  <2>1. PcInv /\ ChanInv BY DEF Inv
  <2>2. Key(p, q, i + 1, p) = SKey(p, q, i + 1) /\ Key(p, q, i + 1, q) = SKey(q, p, i + 1)
    BY ONLY <1>3, <1>5, <1>6, <2>1, KeyIs, p \in Workers, q \in Workers \ {p}
  <2> QED BY <1>4, <2>2 DEF ChunkKey
<1> QED BY <1>1, <1>2, <1>a, <1>4, <1>5, <1>6, <1>7, <1>8

\* The messages of a chunk in what the two neighbours exchange.
LEMMA ChunkCarries ==
  ASSUME NEW p \in Workers, NEW j \in 1 .. Len(Program[p]), NEW c \in Parallel, Program[p][j] = <<"par", c>>,
         NEW i \in 0 .. ChunksOf(c) - 1, i + 1 \in Ctxs, NEW x \in 1 .. CALLS[c].rounds
  PROVE  /\ OutAt(p, NextId(p), i + 1, j) \in Nat
         /\ OutAt(p, NextId(p), i + 1, j) + x <= Len(All(p, NextId(p), i + 1))
         /\ All(p, NextId(p), i + 1)[OutAt(p, NextId(p), i + 1, j) + x] = <<c, i, x>>
         /\ InAt(PrevId(p), p, i + 1, j) \in Nat
         /\ InAt(PrevId(p), p, i + 1, j) + x <= Len(All(PrevId(p), p, i + 1))
         /\ All(PrevId(p), p, i + 1)[InAt(PrevId(p), p, i + 1, j) + x] = <<c, i, x>>
         /\ <<c, i, x>> \in AllMsgs
<1> DEFINE k == i + 1  q == NextId(p)  o == PrevId(p)  e == ChunkMsgs(c, k)  op == Program[p][j]
<1>0. /\ q \in Workers \ {p} /\ o \in Workers \ {p} /\ p \in Workers \ {o} /\ p = NextId(o)
      /\ c \in DOMAIN CALLS /\ NumChunks(CALLS[c].len) > 1
  BY Neighbours DEF Parallel
<1>a. /\ CALLS[c].len \in Nat \ {0} /\ CALLS[c].rounds \in Nat \ {0} /\ c \in Nat
      /\ NumChunks(CALLS[c].len) \in Nat /\ ChunksOf(c) = NumChunks(CALLS[c].len)
  BY <1>0, CallsTyped, ChunksBound, ParametersTyped DEF ChunksOf
<1>1. k \in Ctxs /\ k \in 1 .. NumChunks(CALLS[c].len) /\ k - 1 = i /\ i \in Nat BY <1>a
<1>2. Len(e) = CALLS[c].rounds /\ e[x] = <<c, i, x>> BY <1>1, ChunkMsgsType
<1>3. op \in Ops /\ op[1] = "par" /\ op[2] = c
  <2>1. Regions(p, j, op) BY Located
  <2> QED BY <2>1 DEF Regions
<1> HIDE DEF k, q, o, op
<1>4. Emit(p, q, k)[op] = e /\ Consume(o, p, k)[op] = e
  <2>1. Carries(p, q, k, op) /\ Carries(o, p, k, op) BY <1>0, <1>1, <1>3, OpTraffic
  <2> HIDE DEF e
  <2>2. e = ChunkMsgs(op[2], k) BY <1>3 DEF e
  <2> QED BY ONLY <1>0, <1>3, <2>1, <2>2 DEF Carries, q
<1> HIDE DEF e
<1>5. /\ OutAt(p, q, k, j) \in Nat
      /\ OutAt(p, q, k, j) + Len(e) <= Len(All(p, q, k))
      /\ \A y \in 1 .. Len(e) : All(p, q, k)[OutAt(p, q, k, j) + y] = e[y]
  <2>1. /\ OutAt(p, q, k, j) \in Nat
        /\ OutAt(p, q, k, j) + Len(Emit(p, q, k)[Program[p][j]]) <= Len(All(p, q, k))
        /\ \A y \in 1 .. Len(Emit(p, q, k)[Program[p][j]]) :
              All(p, q, k)[OutAt(p, q, k, j) + y] = Emit(p, q, k)[Program[p][j]][y]
    <3>1. q \in Workers \ {p} /\ k \in Ctxs BY ONLY <1>0, <1>1
    <3> QED BY ONLY <3>1, OutStep, p \in Workers, j \in 1 .. Len(Program[p])
  <2>2. Emit(p, q, k)[Program[p][j]] = e BY <1>4 DEF op
  <2> QED BY ONLY <2>1, <2>2
<1>6. /\ InAt(o, p, k, j) \in Nat
      /\ InAt(o, p, k, j) + Len(e) <= Len(All(o, p, k))
      /\ \A y \in 1 .. Len(e) : All(o, p, k)[InAt(o, p, k, j) + y] = e[y]
  <2>1. /\ InAt(o, p, k, j) \in Nat
        /\ InAt(o, p, k, j) + Len(Consume(o, p, k)[Program[p][j]]) <= Len(All(o, p, k))
        /\ \A y \in 1 .. Len(Consume(o, p, k)[Program[p][j]]) :
              All(o, p, k)[InAt(o, p, k, j) + y] = Consume(o, p, k)[Program[p][j]][y]
    <3>1. o \in Workers /\ p \in Workers \ {o} /\ k \in Ctxs BY ONLY <1>0, <1>1
    <3> QED BY ONLY <3>1, InStep, j \in 1 .. Len(Program[p])
  <2>2. Consume(o, p, k)[Program[p][j]] = e BY <1>4 DEF op
  <2> QED BY ONLY <2>1, <2>2
<1>7. Len(All(p, q, k)) \in Nat /\ Len(All(o, p, k)) \in Nat BY <1>0, <1>1, AllType
<1>8. /\ OutAt(p, q, k, j) + x <= Len(All(p, q, k)) /\ InAt(o, p, k, j) + x <= Len(All(o, p, k))
  <2>1. Len(e) \in Nat /\ x \in Nat /\ x <= Len(e) BY <1>a, <1>2
  <2>2. OutAt(p, q, k, j) \in Nat /\ OutAt(p, q, k, j) + Len(e) <= Len(All(p, q, k)) BY ONLY <1>5
  <2>3. InAt(o, p, k, j) \in Nat /\ InAt(o, p, k, j) + Len(e) <= Len(All(o, p, k)) BY ONLY <1>6
  <2> QED BY ONLY <1>7, <2>1, <2>2, <2>3
<1>9. <<c, i, x>> \in AllMsgs
  <2>1. x \in Nat BY <1>a
  <2> QED BY <1>1, <1>a, <2>1 DEF AllMsgs, Msgs, Tags
<1> QED BY <1>2, <1>5, <1>6, <1>8, <1>9 DEF k, q, o

\* What a step of chunk i of p changes of its counts: those of its context with the neighbours only.
ChunkMoves(p, pl, pl2, i, b, rounds) ==
  /\ \A r \in Workers \ {p}, n \in Ctxs : n # i + 1 => OutSteady(p, r, n) /\ InSteady(r, p, n)
  /\ \A r \in Workers \ {p} : r # NextId(p) => OutSteady(p, r, i + 1)
  /\ \A r \in Workers \ {p} : p # NextId(r) => InSteady(r, p, i + 1)
  /\ SentN(b, rounds) = SentN(pl.at[i], rounds) => \A r \in Workers \ {p} : OutSteady(p, r, i + 1)
  /\ RecvN(b, rounds) = RecvN(pl.at[i], rounds) => \A r \in Workers \ {p} : InSteady(r, p, i + 1)
  /\ ChunkSent(pl, i + 1) = SentN(pl.at[i], rounds) /\ ChunkSent(pl2, i + 1) = SentN(b, rounds)
  /\ ChunkRecvd(pl, i + 1) = RecvN(pl.at[i], rounds) /\ ChunkRecvd(pl2, i + 1) = RecvN(b, rounds)

\* The step of one chunk moves only its own counts, and only with its neighbours.
LEMMA ChunkSteady ==
  ASSUME NEW p \in Workers, NEW pl, pl = pool[p], NEW pl2, pool'[p] = pl2, UNCHANGED <<pc, status>>,
         NEW i \in Nat, NEW b, Steps(pl, pl2, i, b), i \in DOMAIN pl.at, pl.call # 0, ~Abandoned(pl, i + 1),
         i + 1 \in Ctxs, NEW rounds, rounds = CALLS[pl.call].rounds
  PROVE  ChunkMoves(p, pl, pl2, i, b, rounds)
<1>1. i + 1 - 1 = i OBVIOUS
<1>2. InChunk(pl, i + 1) /\ InChunk(pl2, i + 1) /\ pl2.at[i] = b /\ pl2.call = pl.call
  BY <1>1 DEF InChunk, Steps
<1>3. /\ ChunkSent(pl, i + 1) = SentN(pl.at[i], rounds) /\ ChunkSent(pl2, i + 1) = SentN(b, rounds)
      /\ ChunkRecvd(pl, i + 1) = RecvN(pl.at[i], rounds) /\ ChunkRecvd(pl2, i + 1) = RecvN(b, rounds)
  BY <1>1, <1>2 DEF ChunkSent, ChunkRecvd
<1>4. ASSUME NEW r \in Workers \ {p}, NEW n \in Ctxs, n # i + 1 PROVE OutSteady(p, r, n) /\ InSteady(r, p, n)
  <2>1. Goes(pl, pl2, n) BY <1>4, OtherGoes
  <2> QED BY <2>1, GoesSteady
<1>5. Active(status[p], pool[p], i + 1)' => Active(status[p], pool[p], i + 1) BY DEF Active
<1>6. ASSUME NEW r \in Workers \ {p}, r # NextId(p) \/ SentN(b, rounds) = SentN(pl.at[i], rounds)
      PROVE  OutSteady(p, r, i + 1)
  <2>1. OutsOf(p, r, i + 1, pc[p], pool[p])' = OutsOf(p, r, i + 1, pc[p], pool[p]) BY <1>3, <1>6 DEF OutsOf
  <2> QED BY <1>5, <2>1 DEF OutSteady
<1>7. ASSUME NEW r \in Workers \ {p}, p # NextId(r) \/ RecvN(b, rounds) = RecvN(pl.at[i], rounds)
      PROVE  InSteady(r, p, i + 1)
  <2>1. InsOf(r, p, i + 1, pc[p], pool[p])' = InsOf(r, p, i + 1, pc[p], pool[p]) BY <1>3, <1>7 DEF InsOf
  <2> QED BY <1>5, <2>1 DEF InSteady
<1> QED BY <1>3, <1>4, <1>6, <1>7 DEF ChunkMoves

\* A chunk's send keeps the invariant.
LEMMA ChunkSendStep ==
  ASSUME Inv, NEW p \in Workers, ChunkSend(p)
  PROVE  Inv'
<1>0. /\ PcInv /\ PoolInv /\ WireInv /\ FlowInv /\ mixed = {} BY DEF Inv
<1>1. UNCHANGED <<pc, status, faults, link, opened, accepted, chans, dones, rngs, mixed>>
  BY DEF ChunkSend
<1>2. PICK pl : pl = pool[p] OBVIOUS
<1>3. PICK w \in Running(p) :
        LET i == Top(w).i  q == NextId(p)  key == ChunkKey(p, i, q, p) IN
          /\ pl.at[i] % 2 = 1
          /\ CanSend(q, key)
          /\ wire' = Sent(wire, q, key, ChunkTag(p, i, CeilDiv(pl.at[i], 2)))
          /\ pool' = [pool EXCEPT ![p].at[i] = @ + 1]
  BY <1>2 DEF ChunkSend
<1>a. PICK i : i = Top(w).i OBVIOUS
<1>b. PICK q : q = NextId(p) OBVIOUS
<1>c. PICK a, c, n, r : a = pl.at[i] /\ c = pl.call /\ n = ChunksOf(c) /\ r = CALLS[c].rounds OBVIOUS
<1>4. /\ pl # NoPool /\ w \in pl.busy /\ ~AtEnd(Top(w))
      /\ i \in 0 .. n - 1 /\ i \in Nat /\ i + 1 \in Ctxs /\ a \in Nat \ {0} /\ a <= 2 * r
      /\ InChunk(pl, i + 1) /\ ~Abandoned(pl, i + 1)
      /\ \A x \in Workers \ {p} : ChunkKey(p, i, x, p) = SKey(p, x, i + 1)
  BY <1>2, <1>a, <1>c, ChunkAt
<1>5. /\ c \in Parallel /\ status[p] = "run" /\ Op(p) = <<"par", c>> /\ PoolOK(n, r, pl)
      /\ n \in Nat \ {0} /\ r \in Nat \ {0} /\ DOMAIN pl.at = 0 .. n - 1 /\ c # 0
  BY <1>2, <1>4, <1>c, PoolIn
<1>6. a % 2 = 1 BY <1>3, <1>a, <1>c
<1>7. /\ a < 2 * r /\ a \div 2 \in Nat /\ a \div 2 + 1 \in 1 .. r
      /\ CeilDiv(a, 2) = a \div 2 + 1 /\ SentN(a, r) = a \div 2 /\ SentN(a + 1, r) = a \div 2 + 1
      /\ RecvN(a + 1, r) = RecvN(a, r)
  BY <1>4, <1>5, <1>6, OddStep
<1>d. PICK x : x = a \div 2 + 1 OBVIOUS
<1>8. q \in Workers \ {p} BY <1>b, Neighbours
<1>9. PICK m : m = <<c, i, x>> OBVIOUS
<1>10. CanSend(q, SKey(p, q, i + 1)) /\ wire' = Sent(wire, q, SKey(p, q, i + 1), m)
  <2>1. ChunkTag(p, i, CeilDiv(a, 2)) = m BY <1>2, <1>c, <1>7, <1>9, <1>d DEF ChunkTag
  <2>2. ChunkKey(p, i, q, p) = SKey(p, q, i + 1) BY <1>4, <1>8
  <2> QED BY <1>3, <1>a, <1>b, <1>c, <2>1, <2>2
<1>11. PICK pl2 : pl2 = [pl EXCEPT !.at[i] = @ + 1] OBVIOUS
<1>12. PoolOK(n, r, pl2) /\ Steps(pl, pl2, i, a + 1)
  <2>1. Advanced(pl, i, pl2) BY <1>11 DEF Advanced
  <2>2. pl.at[Top(w).i] # 0 /\ pl.at[Top(w).i] < 2 * r BY <1>a, <1>c, <1>4, <1>7
  <2>3. PoolOK(n, r, pl2) /\ Steps(pl, pl2, i, pl.at[i] + 1)
    BY ONLY <1>a, <1>4, <1>5, <2>1, <2>2, ChunkStepOK
  <2> QED BY <1>c, <2>3
<1>13. pool' = [pool EXCEPT ![p] = pl2]
  <2>1. pool' = [pool EXCEPT ![p].at[i] = @ + 1] BY <1>3, <1>a
  <2> QED BY ONLY <1>2, <1>11, <2>1
<1>e. Op(p) = Program[p][pc[p]] /\ pc[p] \in 1 .. Len(Program[p]) BY <1>0, PcAt
<1>14. PoolInv' /\ pool'[p] = pl2 /\ \A z \in Workers \ {p} : Still(z)
  <2>1. PoolFits(pl2, Program[p][pc[p]], status[p])
    <3>1. pl2.call = c BY <1>c, <1>12 DEF Steps
    <3> QED BY <1>c, <1>5, <1>12, <1>e, <3>1 DEF PoolFits
  <2> QED BY <1>0, <1>1, <1>13, <2>1, PoolWrite
<1>15. /\ \A y \in Workers \ {p}, k \in Ctxs : k # i + 1 => OutSteady(p, y, k) /\ InSteady(y, p, k)
       /\ \A y \in Workers \ {p} : y # q => OutSteady(p, y, i + 1)
       /\ \A y \in Workers \ {p} : InSteady(y, p, i + 1)
       /\ ChunkSent(pl, i + 1) = a \div 2 /\ ChunkSent(pl2, i + 1) = a \div 2 + 1
  <2>1. i \in DOMAIN pl.at /\ pl.call # 0 BY <1>4, <1>5, <1>c
  <2>2. SentN(pl.at[i], r) = a \div 2 /\ RecvN(a + 1, r) = RecvN(pl.at[i], r) BY <1>7, <1>c
  <2>a. PICK b : b = a + 1 OBVIOUS
  <2>3. /\ pool'[p] = pl2 /\ UNCHANGED <<pc, status>> /\ i \in Nat /\ Steps(pl, pl2, i, b)
        /\ ~Abandoned(pl, i + 1) /\ i + 1 \in Ctxs /\ r = CALLS[pl.call].rounds
    BY ONLY <1>1, <1>c, <1>4, <1>12, <1>14, <2>a
  <2>4. ChunkMoves(p, pl, pl2, i, b, r) BY ONLY <1>2, <2>1, <2>3, p \in Workers, ChunkSteady
  <2> QED BY ONLY <1>b, <1>7, <2>a, <2>2, <2>4 DEF ChunkMoves
<1>16. OnlyOut(p, q, i + 1) BY <1>15 DEF OnlyOut
<1>17. /\ OutAt(p, q, i + 1, pc[p]) \in Nat
       /\ OutAt(p, q, i + 1, pc[p]) + x <= Len(All(p, q, i + 1))
       /\ All(p, q, i + 1)[OutAt(p, q, i + 1, pc[p]) + x] = m /\ m \in AllMsgs
  <2>1. Program[p][pc[p]] = <<"par", c>> /\ i \in 0 .. ChunksOf(c) - 1 /\ x \in 1 .. CALLS[c].rounds
    BY <1>c, <1>d, <1>e, <1>4, <1>5, <1>7
  <2> QED BY ONLY <1>b, <1>e, <1>4, <1>5, <1>9, <2>1, p \in Workers, ChunkCarries
<1>18. NextOut(p, q, i + 1, m)
  <2>1. OutsOf(p, q, i + 1, pc[p], pool[p]) = OutAt(p, q, i + 1, pc[p]) + a \div 2
    BY <1>2, <1>b, <1>15 DEF OutsOf
  <2>2. OutsOf(p, q, i + 1, pc[p], pool[p])' = OutAt(p, q, i + 1, pc[p]) + (a \div 2 + 1)
    BY <1>1, <1>b, <1>14, <1>15 DEF OutsOf
  <2>3. OutAt(p, q, i + 1, pc[p]) + (a \div 2 + 1) = OutAt(p, q, i + 1, pc[p]) + a \div 2 + 1
    BY <1>7, <1>17
  <2>4. All(p, q, i + 1)[OutAt(p, q, i + 1, pc[p]) + a \div 2 + 1] = m BY <1>17, <1>d, <2>3
  <2>5. OutAt(p, q, i + 1, pc[p]) + a \div 2 + 1 <= Len(All(p, q, i + 1)) BY <1>17, <1>d, <2>3
  <2> QED BY ONLY <2>1, <2>2, <2>3, <2>4, <2>5 DEF NextOut
<1>19. Active(status[p], pool[p], i + 1) /\ Active(status[p], pool[p], i + 1)'
  <2>1. i + 1 - 1 = i /\ a + 1 # Fin BY <1>4 DEF Fin
  <2>2. ~Abandoned(pl2, i + 1)
    <3>1. pl2.at[i] = a + 1 BY <1>12 DEF Steps
    <3> QED BY ONLY <1>4, <2>1, <3>1 DEF Abandoned
  <2> QED BY <1>1, <1>2, <1>4, <1>5, <1>14, <2>2 DEF Active
<1>20. WireInv' /\ FlowInv'
  BY ONLY <1>0, <1>4, <1>8, <1>10, <1>14, <1>16, <1>17, <1>18, <1>19, p \in Workers, PutFlow
<1>21. TypeInv' /\ PcInv' /\ StreamInv' /\ ChanInv' /\ RngInv' BY <1>1, PoolRest
<1> QED BY <1>0, <1>1, <1>14, <1>20, <1>21 DEF Inv

\* A chunk's receive keeps the invariant: the message is its own, of its own round.
LEMMA ChunkRecvStep ==
  ASSUME Inv, NEW p \in Workers, ChunkRecv(p)
  PROVE  Inv'
<1>0. /\ PcInv /\ PoolInv /\ WireInv /\ FlowInv /\ mixed = {} BY DEF Inv
<1>1. UNCHANGED <<pc, status, faults, link, opened, accepted, chans, dones, rngs>>
  BY DEF ChunkRecv
<1>2. PICK pl : pl = pool[p] OBVIOUS
<1>3. PICK w \in Running(p) :
        LET i == Top(w).i  q == PrevId(p)  key == ChunkKey(p, i, q, q) IN
          /\ pl.at[i] % 2 = 0
          /\ Queue(key) # << >>
          /\ wire' = Take(wire, key)
          /\ mixed' = Mixing(ChunkTag(p, i, pl.at[i] \div 2), Head(wire[key]))
          /\ pool' = [pool EXCEPT ![p] =
                IF pl.at[i] = 2 * CALLS[pl.call].rounds THEN Finished(pl, w) ELSE [pl EXCEPT !.at[i] = @ + 1]]
  BY <1>2 DEF ChunkRecv
<1>a. PICK i : i = Top(w).i OBVIOUS
<1>b. PICK q : q = PrevId(p) OBVIOUS
<1>c. PICK a, c, n, r : a = pl.at[i] /\ c = pl.call /\ n = ChunksOf(c) /\ r = CALLS[c].rounds OBVIOUS
<1>4. /\ pl # NoPool /\ w \in pl.busy /\ ~AtEnd(Top(w))
      /\ i \in 0 .. n - 1 /\ i \in Nat /\ i + 1 \in Ctxs /\ a \in Nat \ {0} /\ a <= 2 * r
      /\ InChunk(pl, i + 1) /\ ~Abandoned(pl, i + 1)
      /\ \A x \in Workers \ {p} : ChunkKey(p, i, x, x) = SKey(x, p, i + 1)
  BY <1>2, <1>a, <1>c, ChunkAt
<1>5. /\ c \in Parallel /\ status[p] = "run" /\ Op(p) = <<"par", c>> /\ PoolOK(n, r, pl)
      /\ n \in Nat \ {0} /\ r \in Nat \ {0} /\ DOMAIN pl.at = 0 .. n - 1 /\ c # 0
  BY <1>2, <1>4, <1>c, PoolIn
<1>6. a % 2 = 0 BY <1>3, <1>a, <1>c
<1>d. PICK b : b = IF a = 2 * r THEN Fin ELSE a + 1 OBVIOUS
<1>7. /\ a \div 2 \in 1 .. r /\ RecvN(a, r) \in Nat /\ RecvN(a, r) + 1 = a \div 2
      /\ RecvN(b, r) = a \div 2 /\ SentN(b, r) = SentN(a, r)
  <2>1. /\ a \div 2 \in 1 .. r /\ RecvN(a, r) \in Nat /\ RecvN(a, r) + 1 = a \div 2
        /\ RecvN(b, r) = a \div 2 /\ SentN(a, r) = a \div 2 /\ SentN(b, r) = a \div 2
    BY ONLY <1>4, <1>5, <1>6, <1>d, EvenStep
  <2> QED BY ONLY <2>1
<1>e. PICK x : x = a \div 2 OBVIOUS
<1>8. q \in Workers \ {p} /\ p \in Workers \ {q} /\ p = NextId(q)
      /\ \A y \in Workers \ {p} : p = NextId(y) => y = q
  BY <1>b, Neighbours
<1>9. PICK m : m = <<c, i, x>> OBVIOUS
<1>10. /\ Queue(SKey(q, p, i + 1)) # <<>> /\ wire' = Take(wire, SKey(q, p, i + 1))
       /\ mixed' = Mixing(m, Head(wire[SKey(q, p, i + 1)]))
  <2>1. ChunkTag(p, i, a \div 2) = m BY <1>2, <1>c, <1>9, <1>e DEF ChunkTag
  <2>2. ChunkKey(p, i, q, q) = SKey(q, p, i + 1) BY <1>4, <1>8
  <2> QED BY <1>3, <1>a, <1>b, <1>c, <2>1, <2>2
<1>11. PICK pl2 : pl2 = IF a = 2 * r THEN Finished(pl, w) ELSE [pl EXCEPT !.at[i] = @ + 1] OBVIOUS
<1>12. PoolOK(n, r, pl2) /\ Steps(pl, pl2, i, b)
  <2>1. CASE a = 2 * r
    <3>1. pl2 = Finished(pl, w) /\ b = Fin BY <1>11, <1>d, <2>1
    <3>2. PoolOK(n, r, Finished(pl, w)) /\ Steps(pl, Finished(pl, w), i, Fin)
      BY ONLY <1>a, <1>4, <1>5, FinishedOK
    <3> QED BY ONLY <3>1, <3>2
  <2>2. CASE a # 2 * r
    <3>1. pl2 = [pl EXCEPT !.at[i] = @ + 1] /\ b = a + 1 BY <1>11, <1>d, <2>2
    <3>2. Advanced(pl, i, pl2) BY <3>1 DEF Advanced
    <3>3. pl.at[Top(w).i] # 0 /\ pl.at[Top(w).i] < 2 * r BY <1>a, <1>c, <1>4, <1>5, <2>2
    <3>4. PoolOK(n, r, pl2) /\ Steps(pl, pl2, i, pl.at[i] + 1)
      BY ONLY <1>a, <1>4, <1>5, <3>2, <3>3, ChunkStepOK
    <3> QED BY <1>c, <3>1, <3>4
  <2> QED BY <2>1, <2>2
<1>13. pool' = [pool EXCEPT ![p] = pl2]
  <2>1. pool' = [pool EXCEPT ![p] =
                IF pl.at[i] = 2 * CALLS[pl.call].rounds THEN Finished(pl, w) ELSE [pl EXCEPT !.at[i] = @ + 1]]
    BY <1>3, <1>a
  <2> QED BY ONLY <1>c, <1>11, <2>1
<1>f. Op(p) = Program[p][pc[p]] /\ pc[p] \in 1 .. Len(Program[p]) BY <1>0, PcAt
<1>14. PoolInv' /\ pool'[p] = pl2 /\ \A z \in Workers \ {p} : Still(z)
  <2>1. PoolFits(pl2, Program[p][pc[p]], status[p])
    <3>1. pl2.call = c BY <1>c, <1>12 DEF Steps
    <3> QED BY <1>c, <1>5, <1>12, <1>f, <3>1 DEF PoolFits
  <2> QED BY <1>0, <1>1, <1>13, <2>1, PoolWrite
<1>15. /\ \A y \in Workers \ {p}, k \in Ctxs : k # i + 1 => OutSteady(p, y, k) /\ InSteady(y, p, k)
       /\ \A y \in Workers \ {p} : y # q => InSteady(y, p, i + 1)
       /\ \A y \in Workers \ {p} : OutSteady(p, y, i + 1)
       /\ ChunkRecvd(pl, i + 1) = RecvN(a, r) /\ ChunkRecvd(pl2, i + 1) = RecvN(a, r) + 1
  <2>1. i \in DOMAIN pl.at /\ pl.call # 0 BY <1>4, <1>5, <1>c
  <2>2. SentN(b, r) = SentN(pl.at[i], r) /\ RecvN(pl.at[i], r) = RecvN(a, r) /\ RecvN(b, r) = RecvN(a, r) + 1
    BY ONLY <1>7, <1>c
  <2>3. /\ pool'[p] = pl2 /\ UNCHANGED <<pc, status>> /\ i \in Nat /\ Steps(pl, pl2, i, b)
        /\ ~Abandoned(pl, i + 1) /\ i + 1 \in Ctxs /\ r = CALLS[pl.call].rounds
    BY ONLY <1>1, <1>c, <1>4, <1>12, <1>14
  <2>4. ChunkMoves(p, pl, pl2, i, b, r) BY ONLY <1>2, <2>1, <2>3, p \in Workers, ChunkSteady
  <2> QED BY ONLY <1>8, <2>2, <2>4 DEF ChunkMoves
<1>16. OnlyIn(p, q, i + 1) BY <1>15 DEF OnlyIn
<1>17. InAt(q, p, i + 1, pc[p]) \in Nat /\ All(q, p, i + 1)[InAt(q, p, i + 1, pc[p]) + x] = m
  <2>1. Program[p][pc[p]] = <<"par", c>> /\ i \in 0 .. ChunksOf(c) - 1 /\ x \in 1 .. CALLS[c].rounds
    BY <1>c, <1>e, <1>f, <1>4, <1>5, <1>7
  <2> QED BY ONLY <1>b, <1>f, <1>4, <1>5, <1>9, <2>1, p \in Workers, ChunkCarries
<1>18. NextIn(q, p, i + 1, m)
  <2>1. InsOf(q, p, i + 1, pc[p], pool[p]) = InAt(q, p, i + 1, pc[p]) + RecvN(a, r)
    BY <1>2, <1>8, <1>15 DEF InsOf
  <2>2. InsOf(q, p, i + 1, pc[p], pool[p])' = InAt(q, p, i + 1, pc[p]) + (RecvN(a, r) + 1)
    BY <1>1, <1>8, <1>14, <1>15 DEF InsOf
  <2>3. InAt(q, p, i + 1, pc[p]) + (RecvN(a, r) + 1) = InAt(q, p, i + 1, pc[p]) + RecvN(a, r) + 1
    BY <1>7, <1>17
  <2>4. RecvN(a, r) + 1 = x BY <1>7, <1>e
  <2>5. All(q, p, i + 1)[InAt(q, p, i + 1, pc[p]) + RecvN(a, r) + 1] = m BY ONLY <1>17, <2>3, <2>4
  <2> QED BY ONLY <2>1, <2>2, <2>3, <2>5 DEF NextIn
<1>19. Active(status[p], pool[p], i + 1) BY <1>2, <1>4, <1>5 DEF Active
<1>20. WireInv' /\ FlowInv' /\ Head(wire[SKey(q, p, i + 1)]) = m
  BY ONLY <1>0, <1>4, <1>8, <1>10, <1>14, <1>16, <1>18, <1>19, p \in Workers, TakeFlow
<1>21. mixed' = {} BY <1>0, <1>10, <1>20 DEF Mixing
<1>22. TypeInv' /\ PcInv' /\ StreamInv' /\ ChanInv' /\ RngInv' BY <1>1, PoolRest
<1> QED BY <1>0, <1>1, <1>14, <1>20, <1>21, <1>22 DEF Inv

\* A call of par_chunks whose chunks are done has sent and received all its messages.
LEMMA ParCounts ==
  ASSUME Inv, NEW p \in Workers, NEW pl, pl = pool[p], pl # NoPool,
         \A i \in DOMAIN pl.at : pl.at[i] = Fin, NEW r \in Workers \ {p}, NEW k \in Ctxs
  PROVE  /\ OutAt(p, r, k, pc[p] + 1) = OutsOf(p, r, k, pc[p], pl) /\ OutAt(p, r, k, pc[p] + 1) \in Nat
         /\ InAt(r, p, k, pc[p] + 1) = InsOf(r, p, k, pc[p], pl) /\ InAt(r, p, k, pc[p] + 1) \in Nat
<1>a. PICK c, n, d : c = pl.call /\ n = ChunksOf(c) /\ d = CALLS[c].rounds OBVIOUS
<1>1. /\ c \in Parallel /\ Op(p) = <<"par", c>> /\ n \in Nat \ {0} /\ d \in Nat \ {0}
      /\ DOMAIN pl.at = 0 .. n - 1 /\ c # 0
  BY <1>a, PoolIn
<1>2. pc[p] \in 1 .. Len(Program[p]) /\ Op(p) = Program[p][pc[p]] /\ Op(p) \in Ops
  BY PcAt DEF Inv, Regions
<1>3. PICK e : e = ChunkMsgs(c, k) OBVIOUS
<1>4. /\ Emit(p, r, k)[Program[p][pc[p]]] = IF r = NextId(p) THEN e ELSE <<>>
      /\ Consume(r, p, k)[Program[p][pc[p]]] = IF p = NextId(r) THEN e ELSE <<>>
  <2>1. p \in Workers \ {r} /\ r \in Workers OBVIOUS
  <2>2. Carries(p, r, k, Op(p)) /\ Carries(r, p, k, Op(p)) BY <1>2, <2>1, OpTraffic
  <2>3. Op(p)[1] = "par" /\ Op(p)[2] = c BY <1>1
  <2> QED BY ONLY <1>2, <1>3, <2>2, <2>3 DEF Carries
<1>5. k \in Int BY DEF Ctxs
<1>6. Len(e) = ChunkSent(pl, k) /\ Len(e) = ChunkRecvd(pl, k) /\ Len(e) \in Nat
  <2>1. CASE k \in 1 .. n
    <3>1. k \in 1 .. NumChunks(CALLS[c].len) BY <1>a, <2>1 DEF ChunksOf
    <3>2. Len(e) = d BY <1>1, <1>3, <1>a, <3>1, ChunkMsgsType
    <3>3. k - 1 \in DOMAIN pl.at BY <1>1, <1>5, <2>1
    <3>4. InChunk(pl, k) /\ pl.at[k - 1] = Fin BY <1>1, <1>a, <3>3 DEF InChunk
    <3>5. ChunkSent(pl, k) = d /\ ChunkRecvd(pl, k) = d
      BY <1>a, <3>4 DEF ChunkSent, ChunkRecvd, SentN, RecvN
    <3> QED BY <1>1, <3>2, <3>5
  <2>2. CASE k \notin 1 .. n
    <3>1. k \notin 1 .. NumChunks(CALLS[c].len) BY <1>a, <2>2 DEF ChunksOf
    <3>2. e = <<>> BY <1>3, <3>1 DEF ChunkMsgs
    <3>3. k - 1 \notin DOMAIN pl.at BY <1>1, <1>5, <2>2
    <3>4. ChunkSent(pl, k) = 0 /\ ChunkRecvd(pl, k) = 0 BY <3>3 DEF ChunkSent, ChunkRecvd, InChunk
    <3> QED BY <3>2, <3>4
  <2> QED BY <2>1, <2>2
<1>7. OutAt(p, r, k, pc[p]) \in Nat /\ OutAt(p, r, k, pc[p] + 1) = OutAt(p, r, k, pc[p]) + Len(Emit(p, r, k)[Program[p][pc[p]]])
  BY ONLY <1>2, OutStep, p \in Workers, r \in Workers \ {p}, k \in Ctxs
<1>8. InAt(r, p, k, pc[p]) \in Nat /\ InAt(r, p, k, pc[p] + 1) = InAt(r, p, k, pc[p]) + Len(Consume(r, p, k)[Program[p][pc[p]]])
  <2>1. r \in Workers /\ p \in Workers \ {r} OBVIOUS
  <2> QED BY ONLY <1>2, <2>1, InStep, k \in Ctxs
<1>9. OutAt(p, r, k, pc[p] + 1) = OutsOf(p, r, k, pc[p], pl) /\ OutAt(p, r, k, pc[p] + 1) \in Nat
  <2>1. CASE r = NextId(p) BY ONLY <1>4, <1>6, <1>7, <2>1 DEF OutsOf
  <2>2. CASE r # NextId(p)
    <3>1. Emit(p, r, k)[Program[p][pc[p]]] = <<>> BY <1>4, <2>2
    <3>2. Len(Emit(p, r, k)[Program[p][pc[p]]]) = 0 BY <3>1
    <3> QED BY ONLY <1>7, <2>2, <3>2 DEF OutsOf
  <2> QED BY <2>1, <2>2
<1>10. InAt(r, p, k, pc[p] + 1) = InsOf(r, p, k, pc[p], pl) /\ InAt(r, p, k, pc[p] + 1) \in Nat
  <2>1. CASE p = NextId(r) BY ONLY <1>4, <1>6, <1>8, <2>1 DEF InsOf
  <2>2. CASE p # NextId(r)
    <3>1. Consume(r, p, k)[Program[p][pc[p]]] = <<>> BY <1>4, <2>2
    <3>2. Len(Consume(r, p, k)[Program[p][pc[p]]]) = 0 BY <3>1
    <3> QED BY ONLY <1>8, <2>2, <3>2 DEF InsOf
  <2> QED BY <2>1, <2>2
<1> QED BY <1>9, <1>10

\* Returning from a parallel call moves the chunks' counts into the program's.
LEMMA ParReturnStep ==
  ASSUME Inv, NEW p \in Workers, ParReturn(p)
  PROVE  Inv'
<1>0. /\ TypeInv /\ PcInv /\ StreamInv /\ ChanInv /\ RngInv /\ PoolInv /\ WireInv /\ FlowInv /\ mixed = {}
      /\ p \in Procs
  BY DEF Inv, Procs
<1>1. UNCHANGED <<faults, link, opened, accepted, chans, dones, wire, rngs, mixed>> BY DEF ParReturn
<1>2. PICK pl : pl = pool[p] OBVIOUS
<1>3. pl # NoPool /\ \A i \in DOMAIN pl.at : pl.at[i] = Fin BY <1>2 DEF ParReturn, NoPool
<1>4. pool' = [a \in Workers |-> IF a = p THEN NoPool ELSE pool[a]]
  <2>1. pool = [a \in Workers |-> pool[a]] BY <1>0 DEF PoolInv
  <2>2. pool' = [pool EXCEPT ![p] = NoPool] BY DEF ParReturn
  <2> QED BY ONLY <2>1, <2>2
<1>5. CASE pl.failed
  <2>1. Leave(p) BY <1>2, <1>5 DEF ParReturn
  <2>2. faults' \in 0 .. FAULTS BY <1>0, <1>1 DEF TypeInv
  <2> QED BY ONLY <1>1, <1>4, <2>1, <2>2, <1>0, Inv, LeaveStep
<1>6. CASE ~pl.failed
  <2>1. /\ Advance(p) /\ UNCHANGED status BY <1>2, <1>6 DEF ParReturn
  <2>2. /\ status[p] = "run" /\ Op(p) = <<"par", pl.call>> BY <1>2, <1>3, PoolIn
  <2>3. /\ pc[p] \in 1 .. Len(Program[p]) /\ Op(p) = Program[p][pc[p]] /\ pc[p] > InitEnd(p)
    BY <1>0, <2>2, PcAt DEF Regions
  <2>4. Op(p)[1] = "par" /\ Moves(p) BY <2>1, <2>2 DEF Moves
  <2>5. /\ PcInv' /\ pc'[p] = pc[p] + 1
        /\ \A r \in Procs \ {p} : pc'[r] = pc[r]
    BY ONLY <1>0, <2>4, MovesPc
  <2>6. pool' = [a \in Workers |-> pool'[a]] /\ pool'[p] = NoPool /\ \A a \in Workers \ {p} : pool'[a] = pool[a]
    BY ONLY <1>4, p \in Workers
  <2>7. \A a \in Workers \ {p} : Still(a) BY <2>1, <2>5, <2>6 DEF Still, Procs
  <2>8. TypeInv' BY <1>0, <1>1, <2>1 DEF TypeInv
  <2>9. StreamInv' /\ PeersKept BY <1>0, <1>1, SameStreams
  <2>10. ChanInv'
    <3>1. ASSUME NEW a \in Workers, NEW b \in Workers \ {a}, status'[a] = "run"
          PROVE  status[a] = "run" /\ NumChans(a, b, pc'[a]) = NumChans(a, b, pc[a])
      <4>1. status[a] = "run" BY <2>1, <3>1
      <4>2. CASE a # p BY <2>7, <4>1, <4>2 DEF Still
      <4>3. CASE a = p
        <5>1. NumChans(p, b, pc[p] + 1) = NumChans(p, b, pc[p]) BY <2>3, <2>4, <4>3, NumChansStep
        <5> QED BY <2>5, <4>1, <4>3, <5>1
      <4> QED BY <4>2, <4>3
    <3> QED BY <1>0, <2>9, <3>1, ChanKept
  <2>11. PoolInv'
    <3>1. \A a \in Workers : PoolFits(pool[a], Program[a][pc[a]], status[a]) BY <1>0 DEF PoolInv
    <3>2. ASSUME NEW a \in Workers PROVE PoolFits(pool'[a], Program[a][pc'[a]], status'[a])
      <4>1. CASE a # p BY ONLY <2>7, <3>1, <4>1, a \in Workers DEF Still
      <4>2. CASE a = p BY <2>6, <4>2 DEF PoolFits
      <4> QED BY <4>1, <4>2
    <3> QED BY <2>6, <3>2 DEF PoolInv
  <2>12. RngInv'
    <3>1. ASSUME NEW a \in Workers PROVE RngFits(a, rngs[a], pc'[a], status'[a])
      <4>1. RngFits(a, rngs[a], pc[a], status[a]) BY <1>0 DEF RngInv
      <4>2. CASE a # p BY <2>7, <4>1, <4>2 DEF Still
      <4>3. CASE a = p
        <5>1. NewEnd[p] \in Nat /\ InitEnd(p) \in Nat /\ InitEnd(p) >= NewEnd[p] + 5 BY ProgramIs
        <5>2. pc[p] # NewEnd[p] + 2 /\ pc[p] # NewEnd[p] + 4 BY ONLY <2>3, <5>1
        <5> QED BY <2>1, <2>3, <2>5, <4>1, <4>3, <5>2, RngStep
      <4> QED BY <4>2, <4>3
    <3> QED BY <1>0, <1>1, <3>1 DEF RngInv
  <2>13. WireInv' /\ \A x : Queue(x)' = Queue(x) BY <1>0, <1>1, SameWire
  <2>14. ASSUME NEW r \in Workers \ {p}, NEW k \in Ctxs
         PROVE  OutSteady(p, r, k) /\ InSteady(r, p, k)
    <3>1. Active(status[p], pool[p], k) BY <1>2, <1>6, <2>2 DEF Active, Abandoned
    <3>2. /\ OutAt(p, r, k, pc[p] + 1) = OutsOf(p, r, k, pc[p], pool[p]) /\ OutAt(p, r, k, pc[p] + 1) \in Nat
          /\ InAt(r, p, k, pc[p] + 1) = InsOf(r, p, k, pc[p], pool[p]) /\ InAt(r, p, k, pc[p] + 1) \in Nat
      BY <1>2, <1>3, ParCounts
    <3>3. ChunkSent(pool[p], k)' = 0 /\ ChunkRecvd(pool[p], k)' = 0 BY <2>6, NoPoolCounts
    <3>4. OutsOf(p, r, k, pc[p], pool[p])' = OutAt(p, r, k, pc[p] + 1) BY <2>5, <3>2, <3>3 DEF OutsOf
    <3>5. InsOf(r, p, k, pc[p], pool[p])' = InAt(r, p, k, pc[p] + 1) BY <2>5, <3>2, <3>3 DEF InsOf
    <3> QED BY <3>1, <3>2, <3>4, <3>5 DEF OutSteady, InSteady
  <2>15. FlowInv'
    <3>1. ASSUME NEW x \in Workers, NEW y \in Workers \ {x}, NEW k \in Ctxs PROVE Flow(x, y, k)'
      <4>1. x = p => OutSteady(x, y, k) BY <2>14
      <4>2. y = p => InSteady(x, y, k) BY <2>14
      <4>3. Queue(SKey(x, y, k))' = Queue(SKey(x, y, k)) BY <2>13
      <4> QED BY <1>0, <2>7, <4>1, <4>2, <4>3, OthersFlow
    <3> QED BY <3>1 DEF FlowInv
  <2> QED BY <1>0, <1>1, <2>5, <2>8, <2>9, <2>10, <2>11, <2>12, <2>13, <2>15 DEF Inv
<1> QED BY <1>5, <1>6

-----------------------------------------------------------------------------
(* The invariant, the session's types and its pairing *)

\* The invariant holds initially.
LEMMA InitInv ==
  ASSUME Init
  PROVE  Inv
<1>1. TypeInv BY ParametersTyped DEF Init, TypeInv
<1>2. PcInv
  <2>1. ASSUME NEW p \in Workers PROVE PcFits(p, 1, "run")
    <3>1. DropAt[p] \in Nat /\ Len(Program[p]) \in Nat /\ Len(Program[p]) >= DropAt[p] + 2 BY ProgramIs, Where
    <3>2. DropAt[p] >= 1
      <4>1. DropAt[p] = 1 + InitEnd(p) + Len(Work(p)) /\ InitEnd(p) \in Nat /\ Work(p) \in Seq(Ops) BY ProgramIs
      <4>2. Len(Work(p)) \in Nat BY <4>1
      <4> QED BY ONLY <4>1, <4>2
    <3> QED BY ONLY <3>1, <3>2 DEF PcFits
  <2>2. PcFits(Coordinator, 1, "run")
    <3>1. Coordinator \notin Workers BY DEF Coordinator, Workers
    <3>2. Len(Program[Coordinator]) \in Nat \ {0} BY CoordinatorProgram
    <3> QED BY ONLY <3>1, <3>2 DEF PcFits
  <2>3. \A p \in Procs : pc[p] = 1 /\ status[p] = "run" BY DEF Init
  <2> QED BY <2>1, <2>2, <2>3 DEF PcInv, Procs, Init
<1>3. StreamInv BY DEF Init, StreamInv
<1>4. ChanInv
  <2>1. SUFFICES ASSUME NEW p \in Workers, NEW q \in Workers \ {p}
                 PROVE  /\ ChanFits(p, q, chans[p][q], pc[p], status[p])
                        /\ \A l \in LaneSet : Streams(p, q, l) = LaneCount(Len(chans[p][q]), l)
    BY DEF ChanInv
  <2>2. p \in Procs /\ q \in Procs BY DEF Procs
  <2>3. chans[p][q] = <<>> /\ pc[p] = 1 /\ Len(chans[p][q]) = 0 BY <2>2 DEF Init
  <2>4. 1 \in 1 .. Len(Program[p]) BY <1>2, <2>2, <2>3 DEF PcInv, PcFits
  <2>5. NumChans(p, q, 1) = 0 /\ Len(LaneSeq) \in Nat BY <2>4, NumChansFacts, LaneSeqLength
  <2>6. ChanFits(p, q, <<>>, 1, status[p])
    <3>1. <<>> = [n \in 1 .. Len(<<>>) |-> StreamId(p, q, n)] OBVIOUS
    <3> QED BY <2>5, <3>1 DEF ChanFits
  <2>7. ASSUME NEW l \in LaneSet PROVE Streams(p, q, l) = 0
    <3>1. <<IF q < p THEN p ELSE q, IF q < p THEN q ELSE p, l>> \in Conns BY DEF Conns, LaneSet, Workers
    <3> QED BY <3>1 DEF Init, Streams
  <2>8. \A l \in LaneSet : LaneCount(0, l) = 0 BY LaneCountStep
  <2> QED BY <2>3, <2>6, <2>7, <2>8
<1>5. RngInv
  <2>1. ASSUME NEW p \in Workers PROVE RngFits(p, NoRngs(p), 1, "run")
    <3>1. NoRngs(p) \in Rngs BY DEF NoRngs, Rngs
    <3>2. NewEnd[p] \in Nat BY ProgramIs
    <3>3. ~(1 > NewEnd[p] + 2) /\ ~(1 > NewEnd[p] + 4) BY <3>2
    <3>4. /\ NoRngs(p).seed1 = p /\ NoRngs(p).ctx = <<>> /\ NoRngs(p).keys2 = {} BY DEF NoRngs
    <3>5. Len(NoRngs(p).ctx) = 0 BY <3>4
    <3> QED BY ONLY <3>1, <3>3, <3>4, <3>5 DEF RngFits
  <2>2. \A p \in Workers : rngs[p] = NoRngs(p) /\ pc[p] = 1 /\ status[p] = "run" BY DEF Init, Procs
  <2> QED BY <2>1, <2>2 DEF RngInv, Init
<1>6. PoolInv BY DEF Init, PoolInv, PoolFits
<1>7. DOMAIN wire = {} /\ WireInv
  <2>1. wire = <<>> BY DEF Init
  <2>2. DOMAIN wire = {} BY <2>1
  <2>3. wire = [x \in DOMAIN wire |-> wire[x]] BY <2>1
  <2> QED BY <2>2, <2>3 DEF WireInv
<1>8. FlowInv
  <2>1. SUFFICES ASSUME NEW q \in Workers, NEW p \in Workers \ {q}, NEW k \in Ctxs PROVE Flow(q, p, k)
    BY DEF FlowInv
  <2>2. Queue(SKey(q, p, k)) = <<>> BY <1>7 DEF Queue
  <2>3. pc[p] = 1 /\ pc[q] = 1 /\ pool[p] = NoPool /\ pool[q] = NoPool BY DEF Init, Procs
  <2>4. 1 \in 1 .. Len(Program[p]) /\ 1 \in 1 .. Len(Program[q]) BY <1>2, <2>3 DEF PcInv, PcFits, Procs
  <2>5. InAt(q, p, k, 1) = 0 BY ONLY <2>4, InStep, q \in Workers, p \in Workers \ {q}, k \in Ctxs
  <2>6. OutAt(q, p, k, 1) = 0 BY ONLY <2>4, OutStep, q \in Workers, p \in Workers \ {q}, k \in Ctxs
  <2>7. InsOf(q, p, k, 1, NoPool) = 0 /\ OutsOf(q, p, k, 1, NoPool) = 0
    BY <2>5, <2>6, NoPoolCounts DEF InsOf, OutsOf
  <2>8. Len(All(q, p, k)) \in Nat BY AllType
  <2>9. Len(Queue(SKey(q, p, k))) = 0 BY <2>2
  <2> QED BY ONLY <2>3, <2>7, <2>8, <2>9 DEF Flow, FlowFits
<1>9. mixed = {} BY DEF Init
<1> QED BY <1>1, <1>2, <1>3, <1>4, <1>5, <1>6, <1>7, <1>8, <1>9 DEF Inv

\* A stuttering step keeps the invariant.
LEMMA StutterInv ==
  ASSUME Inv, UNCHANGED vars
  PROVE  Inv'
<1>1. UNCHANGED <<pc, status, faults, link, opened, accepted, chans, dones, wire, rngs, mixed, pool>> BY DEF vars
<1>2. TypeInv' /\ PcInv' /\ StreamInv' /\ ChanInv' /\ RngInv' BY <1>1, PoolRest
<1>3. PoolInv' BY <1>1 DEF Inv, PoolInv
<1>4. WireInv' /\ \A x : Queue(x)' = Queue(x) BY <1>1, SameWire DEF Inv
<1>5. FlowInv'
  <2>1. \A a \in Workers : Still(a) BY <1>1 DEF Still
  <2>2. ASSUME NEW x \in Workers, NEW y \in Workers \ {x}, NEW k \in Ctxs PROVE Flow(x, y, k)'
    <3>1. OutSteady(x, y, k) /\ InSteady(x, y, k) BY <2>1, StillSteady DEF Inv
    <3>2. Queue(SKey(x, y, k))' = Queue(SKey(x, y, k)) BY <1>4
    <3>3. \A a \in Workers \ {x} : Still(a) BY <2>1
    <3> QED BY <3>1, <3>2, <3>3, OthersFlow DEF Inv
  <2> QED BY <2>2 DEF FlowInv
<1> QED BY <1>1, <1>2, <1>3, <1>4, <1>5 DEF Inv

\* Every step of the scheduled processes keeps the invariant.
LEMMA ProgressInv ==
  ASSUME Inv, Progress
  PROVE  Inv'
<1>1. CASE \E p \in Procs :
             \/ Accept(p) \/ Identify(p) \/ AcceptBi(p)
             \/ DropNetwork(p) \/ WaitDone(p) \/ Close(p) \/ Fail(p)
  <2>1. PICK p \in Procs : \/ Accept(p) \/ Identify(p) \/ AcceptBi(p)
                           \/ DropNetwork(p) \/ WaitDone(p) \/ Close(p) \/ Fail(p)
    BY <1>1
  <2>2. CASE Accept(p) \/ Identify(p) \/ WaitDone(p) BY <2>2, LinkSteps
  <2>3. CASE AcceptBi(p)
    <3>1. CASE p \in Workers BY <2>3, <3>1, ChannelStep
    <3>2. CASE p = Coordinator BY <2>3, <3>2, CoordinatorAcceptBi
    <3> QED BY <3>1, <3>2 DEF Procs
  <2>4. CASE DropNetwork(p) \/ Close(p) \/ Fail(p) BY <2>4, StopSteps
  <2> QED BY <2>1, <2>2, <2>3, <2>4
<1>2. CASE \E p \in Workers :
             \/ Dial(p) \/ Greet(p) \/ OpenBi(p) \/ ReadId(p) \/ OpenCoordinator(p)
             \/ PrfSend(p) \/ PrfRecv(p) \/ BitcompSend(p) \/ BitcompRecv(p) \/ ForkRngs(p)
             \/ Send(p) \/ Recv(p) \/ SendC(p) \/ RecvC(p) \/ Done(p)
             \/ ParCall(p) \/ TakeInjected(p) \/ Steal(p) \/ WorkWhileWaiting(p)
             \/ NextChunk(p) \/ ChunkSend(p) \/ ChunkRecv(p) \/ ChunkFail(p) \/ ParReturn(p)
  <2>1. PICK p \in Workers :
             \/ Dial(p) \/ Greet(p) \/ OpenBi(p) \/ ReadId(p) \/ OpenCoordinator(p)
             \/ PrfSend(p) \/ PrfRecv(p) \/ BitcompSend(p) \/ BitcompRecv(p) \/ ForkRngs(p)
             \/ Send(p) \/ Recv(p) \/ SendC(p) \/ RecvC(p) \/ Done(p)
             \/ ParCall(p) \/ TakeInjected(p) \/ Steal(p) \/ WorkWhileWaiting(p)
             \/ NextChunk(p) \/ ChunkSend(p) \/ ChunkRecv(p) \/ ChunkFail(p) \/ ParReturn(p)
    BY <1>2
  <2>2. p \in Procs BY DEF Procs
  <2>3. CASE Dial(p) \/ Greet(p) \/ ReadId(p) BY <2>2, <2>3, LinkSteps
  <2>4. CASE OpenBi(p) BY <2>4, ChannelStep
  <2>5. CASE OpenCoordinator(p) BY <2>5, OpenCoordinatorStep
  <2>6. CASE PrfSend(p) \/ BitcompSend(p) \/ Send(p) BY <2>6, SendSteps
  <2>7. CASE PrfRecv(p) BY <2>7, PrfRecvStep
  <2>8. CASE BitcompRecv(p) BY <2>8, BitcompRecvStep
  <2>9. CASE ForkRngs(p) BY <2>9, ForkRngsStep
  <2>10. CASE Recv(p) BY <2>10, RecvStep
  <2>11. CASE SendC(p) \/ RecvC(p) BY <2>11, StarSteps
  <2>12. CASE Done(p) BY <2>12, DoneStep
  <2>13. CASE ParCall(p) BY <2>13, ParCallStep
  <2>14. CASE TakeInjected(p) \/ Steal(p) \/ NextChunk(p) BY <2>14, TakeSteps
  <2>15. CASE WorkWhileWaiting(p) BY <2>15, WaitStep
  <2>16. CASE ChunkSend(p) BY <2>16, ChunkSendStep
  <2>17. CASE ChunkRecv(p) BY <2>17, ChunkRecvStep
  <2>18. CASE ChunkFail(p) BY <2>18, ChunkFailStep
  <2>19. CASE ParReturn(p) BY <2>19, ParReturnStep
  <2> QED BY <2>1, <2>3, <2>4, <2>5, <2>6, <2>7, <2>8, <2>9, <2>10, <2>11, <2>12, <2>13, <2>14,
             <2>15, <2>16, <2>17, <2>18, <2>19
<1>3. CASE Request BY <1>3, RequestStep
<1>4. CASE Response BY <1>4, ResponseStep
<1> QED BY <1>1, <1>2, <1>3, <1>4 DEF Progress

\* Every step of the session keeps the invariant.
LEMMA NextInv ==
  ASSUME Inv, [Next]_vars
  PROVE  Inv'
<1>1. CASE Progress BY <1>1, ProgressInv
<1>2. CASE \E p \in Procs : Crash(p) \/ Timeout(p) BY <1>2, StopSteps
<1>3. CASE UNCHANGED vars BY <1>3, StutterInv
<1> QED BY <1>1, <1>2, <1>3 DEF Next

\* The inductive invariant of a session holds in every state. The message counts of every two
\* workers' programs and chunks on every context say what is in the queue between them, for any
\* number of lanes, forks, threads, calls and rounds, and through failures, crashes and timeouts.
THEOREM Invariance == Spec => []Inv
<1>1. Init => Inv BY InitInv
<1>2. Inv /\ [Next]_vars => Inv' BY NextInv
<1> QED BY <1>1, <1>2, PTL DEF Spec

\* The invariant gives the type invariant.
LEMMA InvTyped == Inv => TypeOK
<1>1. SUFFICES ASSUME Inv PROVE TypeOK OBVIOUS
<1>2. ASSUME NEW p \in Procs PROVE pc[p] \in DOMAIN Program[p]
  <2>1. pc[p] \in 1 .. Len(Program[p]) BY <1>1 DEF Inv, PcInv, PcFits
  <2>2. DOMAIN Program[p] = 1 .. Len(Program[p])
    <3>1. CASE p \in Workers
      <4>1. Program[p] \in Seq(Ops) BY <3>1, ProgramIs
      <4> QED BY ONLY <4>1
    <3>2. CASE p = Coordinator
      <4>1. Program[p] \in Seq(StarCalls) BY <3>2, CoordinatorProgram
      <4> QED BY ONLY <4>1
    <3> QED BY <3>1, <3>2 DEF Procs
  <2> QED BY <2>1, <2>2
<1> QED BY <1>1, <1>2 DEF TypeOK, Inv, TypeInv, StreamInv, WireInv

\* Every state of a session is well-typed; in particular no stream ever holds more than CAP
\* messages, whichever threads send on the forked networks at once.
THEOREM TypeCorrect == Spec => []TypeOK
BY Invariance, InvTyped, PTL

\* The invariant gives the pairing of forks.
LEMMA InvPaired == Inv => ForksPaired
<1>1. SUFFICES ASSUME Inv PROVE ForksPaired OBVIOUS
<1>2. SUFFICES ASSUME NEW p \in Workers, NEW q, q = NextId(p)
               PROVE  /\ \A k \in DOMAIN chans[p][q] \cap DOMAIN chans[q][p] : chans[p][q][k] = chans[q][p][k]
                      /\ \A k \in DOMAIN rngs[p].ctx \cap DOMAIN rngs[q].ctx :
                            /\ rngs[p].ctx[k] = rngs[q].ctx[k]
                            /\ rngs[p].seed1 = rngs[q].seed2
                            /\ rngs[p].keys1 = rngs[q].keys1
                            /\ rngs[1].keys2 \subseteq rngs[p].keys2
                            /\ rngs[p].keys2 = rngs[q].keys2 \/ 1 \in {p, q}
  <2>1. mixed = {} BY <1>1 DEF Inv
  <2> QED BY ONLY <1>2, <2>1 DEF ForksPaired
<1>3. q \in Workers \ {p} /\ p \in Workers \ {q} /\ PrevId(q) = p BY <1>2, Neighbours
<1>4. ASSUME NEW k \in DOMAIN chans[p][q] \cap DOMAIN chans[q][p] PROVE chans[p][q][k] = chans[q][p][k]
  <2>1. PICK s, t : s = chans[p][q] /\ t = chans[q][p] OBVIOUS
  <2>2. /\ Len(s) \in 0 .. Len(LaneSeq) /\ s = [n \in 1 .. Len(s) |-> StreamId(p, q, n)]
        /\ Len(t) \in 0 .. Len(LaneSeq) /\ t = [n \in 1 .. Len(t) |-> StreamId(q, p, n)]
    BY <1>1, <1>3, <2>1 DEF Inv, ChanInv, ChanFits
  <2>3. k \in 1 .. Len(s) /\ k \in 1 .. Len(t) BY ONLY <1>4, <2>1, <2>2
  <2>4. s[k] = StreamId(p, q, k) /\ t[k] = StreamId(q, p, k) BY ONLY <2>2, <2>3
  <2>5. k \in 1 .. Len(LaneSeq) BY <2>2, <2>3, LaneSeqLength
  <2>6. StreamId(p, q, k) = StreamId(q, p, k) BY ONLY <1>3, <2>5, StreamIdOne
  <2> QED BY <2>1, <2>4, <2>6
<1>5. ASSUME NEW k \in DOMAIN rngs[p].ctx \cap DOMAIN rngs[q].ctx
      PROVE  /\ rngs[p].ctx[k] = rngs[q].ctx[k]
             /\ rngs[p].seed1 = rngs[q].seed2
             /\ rngs[p].keys1 = rngs[q].keys1
             /\ rngs[1].keys2 \subseteq rngs[p].keys2
             /\ rngs[p].keys2 = rngs[q].keys2 \/ 1 \in {p, q}
  <2>1. ASSUME NEW a \in {p, q}
        PROVE  rngs[a].seed1 = a /\ rngs[a].ctx[k] = k + 1 /\ Ready(a, rngs[a])
    <3>1. RngFits(a, rngs[a], pc[a], status[a]) BY <1>1, <1>3 DEF Inv, RngInv
    <3>2. rngs[a].ctx \in Seq(Nat) BY <3>1 DEF RngFits, Rngs
    <3>3. k \in DOMAIN rngs[a].ctx BY <1>5
    <3>4. k \in 1 .. Len(rngs[a].ctx) /\ rngs[a].ctx # <<>> BY ONLY <3>2, <3>3
    <3> QED BY <3>1, <3>4 DEF RngFits
  <2>2. rngs[1].keys2 \in {{}, Keys2(1)} BY <1>1 DEF Inv, RngInv, RngFits, Workers
  <2>3. /\ rngs[p].keys2 = Keys2(p) /\ rngs[q].keys2 = Keys2(q) /\ rngs[q].seed2 = PrevId(q)
        /\ rngs[p].keys1 = Keys1 /\ rngs[q].keys1 = Keys1
    BY <2>1 DEF Ready
  <2>4. Keys2(0) = {<<0, 1>>, <<1, 1>>, <<2, 1>>} /\ Keys2(1) = {<<0, 1>>, <<1, 1>>} /\ Keys2(2) = Keys2(0)
    <3>1. NextId(0) = 1 /\ NextId(2) = 0 /\ PrevId(0) = 2 /\ PrevId(1) = 0 /\ PrevId(2) = 1
      BY DEF NextId, PrevId
    <3> QED BY <3>1 DEF Keys2
  <2>5. Keys2(1) \subseteq Keys2(p) /\ (Keys2(p) = Keys2(q) \/ 1 \in {p, q})
    <3>1. p \in {0, 1, 2} /\ q \in {0, 1, 2} BY <1>3 DEF Workers
    <3> QED BY <2>4, <3>1
  <2> QED BY <1>3, <2>1, <2>2, <2>3, <2>5
<1> QED BY <1>4, <1>5

\* Forks stay paired: whatever threads Rayon hands the chunks of a parallel call to, a receive
\* gives the message of the same call, chunk and round that the peer's chunk sent; the n-th channel
\* of two workers is one stream at both ends; the contexts the pool forks draw the same seeds of the
\* generators that setup_prf made two workers share, and the keys of setup_bitcomp agree. It holds
\* for every number of lanes, forks, threads, daBit chunks, calls and rounds, and through failures,
\* crashes and timeouts.
THEOREM ForksStayPaired == Spec => []ForksPaired
BY Invariance, InvPaired, PTL
=============================================================================
