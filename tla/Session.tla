------------------------------ MODULE Session ------------------------------
(***************************************************************************)
(* The network session of three workers and the coordinator, from the      *)
(* first connection to the last:                                            *)
(*                                                                         *)
(*  - Rep3QuicMpcNetWorker::new and the coordinator's: the QUIC connections, *)
(*    one per lane and pair of workers, and the streams of the main context; *)
(*  - IoContext::init: the seeds of the correlated randomness, exchanged on *)
(*    those streams, and IoContextPool::init: the forks, each with streams   *)
(*    and randomness of its own;                                            *)
(*  - the work: the request of the coordinator, the extension of the daBits *)
(*    of the pool, and closures mapped over chunks by par_chunks, which run *)
(*    on the threads of a Rayon pool and block on the network;              *)
(*  - the shutdown that dropping the network runs.                          *)
(*                                                                         *)
(* A process is a program, the sequence of its blocking calls, and the     *)
(* index of the call it is in.  Every other thread of a worker is a thread  *)
(* of its Rayon pool.                                                       *)
(***************************************************************************)
EXTENDS Integers, Sequences, FiniteSets, SequencesExt

CONSTANTS
    LANES,         \* MPC_QUIC_CONN_LANES, connections per pair of workers
    FORKS,         \* --network-forks
    THREADS,       \* --rayon-threads, per worker
    BULK,          \* MPC_FORK_BULK_CHANNELS
    CALLS,         \* the par_chunks calls: how many inputs, how many messages a
                   \* closure exchanges, whether it runs Rayon iterators itself
    DABIT_CHUNKS,  \* messages of an extension of the daBits
    CAP,           \* messages a channel holds before a sender blocks
    FAULTS         \* bound on crashes and expired accept timeouts

Workers == 0 .. 2
Coordinator == 3
Procs == Workers \cup {Coordinator}
NextId(p) == (p + 1) % 3
PrevId(p) == (p + 2) % 3

ASSUME SessionAssumption ==
    /\ {LANES, CAP} \subseteq Nat \ {0}
    /\ {FORKS, DABIT_CHUNKS, FAULTS} \subseteq Nat
    /\ BULK \in BOOLEAN
    /\ THREADS \in [Workers -> Nat \ {0}]
    /\ CALLS \in Seq([len : Nat \ {0}, rounds : Nat \ {0}, nested : BOOLEAN])

(* A connection is dialled by the worker with the higher id, on each lane;  *)
(* every worker dials the coordinator once.                                 *)
Conns ==
    {c \in Workers \X Workers \X (0 .. LANES - 1) : c[2] < c[1]}
        \cup {<<p, Coordinator, 0>> : p \in Workers}
Conn(p, q, lane) == IF <<p, q, lane>> \in Conns THEN <<p, q, lane>> ELSE <<q, p, lane>>

-----------------------------------------------------------------------------
(***************************************************************************)
(* The programs.                                                            *)
(***************************************************************************)
(* Mutant of Peers: in ring order, not the order of a BTreeMap.              *)
PeersInRing(p) == <<NextId(p), PrevId(p)>>

(* The other workers in ascending order, as the BTreeMap yields them, and    *)
(* the ones below p.                                                        *)
Peers(p) == <<IF p = 0 THEN 1 ELSE 0, IF p = 2 THEN 1 ELSE 2>>
LowerIds(p) == [i \in 1 .. p |-> i - 1]
Lanes == [i \in 1 .. LANES |-> i - 1]
Repeat(n, ops) == FlattenSeq([i \in 1 .. n |-> ops])
ForEach(seq, Ops(_)) == FlattenSeq([i \in DOMAIN seq |-> Ops(seq[i])])

(* establish: the coordinator first, then every lane of the lower ids in    *)
(* turn, then one accept for every lane of the higher ids.                  *)
Establish(p) ==
    << <<"dial", Coordinator, 0>>, <<"greet", Coordinator, 0>> >>
    \o ForEach(LowerIds(p), LAMBDA q :
           ForEach(Lanes, LAMBDA l : << <<"dial", q, l>>, <<"greet", q, l>> >>))
    \o Repeat((2 - p) * LANES, << <<"accept">>, <<"identify">> >>)

(* get_custom_channels_for_lane: the peers in the order of their ids; the   *)
(* client opens the stream and waits for the server to name itself.         *)
Channels(p, lane) ==
    ForEach(Peers(p), LAMBDA q :
        IF q < p THEN << <<"open_bi", q, lane>>, <<"read_id", q, lane>> >>
                 ELSE << <<"accept_bi", q, lane>> >>)

(* Rep3QuicMpcNetWorker::new: the coordinator's stream, which nobody waits  *)
(* for, then byte and bulk channels of fork 0 on lane 0.                    *)
NewNetwork(p) ==
    Establish(p) \o << <<"open_coordinator">> >> \o Channels(p, 0) \o Channels(p, 0)

(* ForkAlloc numbers the forks; the lane is the number modulo the lanes.    *)
LaneOf(fork) == fork % LANES
ForkNetwork(p, fork) ==
    Channels(p, LaneOf(fork)) \o IF BULK THEN Channels(p, LaneOf(fork)) ELSE << >>

(* IoContext::init and IoContextPool::init.                                 *)
InitContexts(p) ==
    << <<"prf_send">>, <<"prf_recv">>, <<"bitcomp_send">>, <<"bitcomp_recv">>,
       <<"fork_rngs">> >>
    \o ForEach([k \in 1 .. FORKS |-> k], LAMBDA k :
           << <<"fork_rngs">> >> \o ForkNetwork(p, k))

(* sync_with_parties of the pool, on the main context.                      *)
SyncWithParties(p) ==
    << <<"send", NextId(p), 0, <<"sync">> >>, <<"recv", PrevId(p), 0, <<"sync">> >> >>

(* The daBit phase of extend_pool_batched_base, on the main bulk channels:  *)
(* P0 reads the answer to a chunk before it sends the next one.             *)
ExtendDabits(p) ==
    SyncWithParties(p) \o
    ForEach([i \in 1 .. DABIT_CHUNKS |-> i], LAMBDA i :
        CASE p = 0 -> << <<"send", 2, -1, <<"alpha2", i>> >>,
                         <<"recv", 2, -1, <<"s20", i>> >> >>
          [] p = 1 -> << <<"send", 2, -1, <<"s12", i>> >> >>
          [] p = 2 -> << <<"recv", 0, -1, <<"alpha2", i>> >>,
                         <<"recv", 1, -1, <<"s12", i>> >>,
                         <<"send", 0, -1, <<"s20", i>> >> >>)

(* par_chunks: how many chunks a call is cut into; one chunk, or no fork,   *)
(* runs on the caller's thread with the main context.                       *)
CeilDiv(a, b) == (a + b - 1) \div b
NumChunks(len) ==
    IF FORKS = 0 THEN 1
    ELSE LET size == CeilDiv(len, FORKS) IN IF len <= size THEN 1 ELSE CeilDiv(len, size)
ParChunks(p, call) ==
    IF NumChunks(CALLS[call].len) > 1 THEN << <<"par", call>> >>
    ELSE ForEach([r \in 1 .. CALLS[call].rounds |-> r], LAMBDA r :
            << <<"send", NextId(p), 0, <<call, 0, r>> >>,
               <<"recv", PrevId(p), 0, <<call, 0, r>> >> >>)

(* One turn of prove_loop, as far as its calls of the network go: the sync  *)
(* with the coordinator, the request, the pool, the proof, which worker 0    *)
(* gets back.                                                               *)
Work(p) ==
    << <<"recv_c">>, <<"send_c">>, <<"send_c">> >> \o ExtendDabits(p)
    \o ForEach([c \in DOMAIN CALLS |-> c], LAMBDA c : ParChunks(p, c))
    \o << <<"send_c">> >> \o (IF p = 0 THEN << <<"recv_c">> >> ELSE << >>)

(* shutdown of a worker's handler: "done" goes to the higher ids, and comes *)
(* from the lower ones, lane by lane, in the order of the ids.              *)
Shutdown(p) ==
    << <<"drop">> >>
    \o ForEach(Peers(p), LAMBDA q : ForEach(Lanes, LAMBDA l :
           << IF p < q THEN <<"done", q, l>> ELSE <<"wait_done", q, l>> >>))
    \o << <<"done", Coordinator, 0>>, <<"close">> >>

(* The coordinator: new, then coordinate_once (the sync, the responses of   *)
(* the workers in the order of their ids, the proof), and its shutdown.     *)
CoordinatorNew ==
    Repeat(3, << <<"accept">>, <<"identify">> >>)
    \o ForEach(<<0, 1, 2>>, LAMBDA q : << <<"accept_bi", q, 0>> >>)
CoordinatorRun ==
    << <<"request", {0, 1, 2}>> >>
    \o ForEach(<<0, 1, 2, 0, 1, 2, 0, 1, 2>>, LAMBDA q : << <<"response", q>> >>)
    \o << <<"request", {0}>> >>
CoordinatorShutdown ==
    << <<"drop">> >> \o ForEach(<<0, 1, 2>>, LAMBDA q : << <<"wait_done", q, 0>> >>)
    \o << <<"close">> >>

Program ==
    [p \in Procs |->
        IF p = Coordinator THEN CoordinatorNew \o CoordinatorRun \o CoordinatorShutdown
        ELSE NewNetwork(p) \o InitContexts(p) \o Work(p) \o Shutdown(p)]

(* Where `new` has returned, and where the shutdown starts.                 *)
NewEnd == [p \in Procs |-> IF p = Coordinator THEN Len(CoordinatorNew) ELSE Len(NewNetwork(p))]
DropAt == [p \in Procs |->
    1 + IF p = Coordinator THEN Len(CoordinatorNew \o CoordinatorRun)
        ELSE Len(NewNetwork(p) \o InitContexts(p) \o Work(p))]

-----------------------------------------------------------------------------
VARIABLES
    pc,        \* per process, the call of its program it is in
    status,    \* "run", "leaving" (channels dropped, shutdown runs) or "gone"
    faults,    \* crashes and timeouts so far
    link,      \* per connection, how far its set-up is
    accepting, \* per process, the connection it accepted and has not identified
    opened,    \* per connection, the streams the client opened
    accepted,  \* ... and those the server accepted, in the same order
    chans,     \* per process and peer, the streams of its channels, oldest first
    dones,     \* the connections on which "done" was sent
    wire,      \* per stream and sender, the messages under way (non-empty ones)
    rngs,      \* per worker, its correlated randomness
    mixed,     \* <<expected, received>> where a receiver got another message
    pool       \* per worker, the Rayon pool and the chunks of a par_chunks call

vars == <<pc, status, faults, link, accepting, opened, accepted, chans, dones,
          wire, rngs, mixed, pool>>

(* at[i]: 0 before chunk i starts, 2r - 1 before it sends message r, 2r      *)
(* while it waits for message r, Fin when it is done.                        *)
Fin == -1
NoPool == [call |-> 0, injected |-> FALSE, busy |-> {}, at |-> << >>, fork |-> << >>,
           failed |-> FALSE]
NoRngs(p) == [seed1 |-> p, seed2 |-> p, drawn |-> 0, keys1 |-> {}, keys2 |-> {}, ctx |-> << >>]

Init ==
    /\ pc = [p \in Procs |-> 1]
    /\ status = [p \in Procs |-> "run"]
    /\ faults = 0
    /\ link = [c \in Conns |-> "none"]
    /\ accepting = [p \in Procs |-> << >>]
    /\ opened = [c \in Conns |-> 0]
    /\ accepted = [c \in Conns |-> 0]
    /\ chans = [p \in Procs |-> [q \in Procs |-> << >>]]
    /\ dones = {}
    /\ wire = << >>
    /\ rngs = [p \in Workers |-> NoRngs(p)]
    /\ mixed = {}
    /\ pool = [p \in Workers |-> NoPool]

TypeOK ==
    /\ \A p \in Procs : pc[p] \in DOMAIN Program[p]
    /\ status \in [Procs -> {"run", "leaving", "gone"}]
    /\ faults \in 0 .. FAULTS
    /\ link \in [Conns -> {"none", "dialled", "accepted", "greeted", "open"}]
    /\ \A c \in Conns : accepted[c] <= opened[c]
    /\ dones \subseteq Conns
    /\ \A k \in DOMAIN wire : Len(wire[k]) \in 1 .. CAP

-----------------------------------------------------------------------------
(* Channels: a context -1 names the bulk channels of the main context.      *)
Slot(k) == CASE k = 0 -> 1 [] k = -1 -> 2
             [] OTHER -> 3 + (k - 1) * (IF BULK THEN 2 ELSE 1)
Key(p, q, k, from) == <<chans[p][q][Slot(k)], from>>
Queue(key) == IF key \in DOMAIN wire THEN wire[key] ELSE << >>
WithQueue(w, key, queue) ==
    [x \in (DOMAIN w \ {key}) \cup (IF queue = << >> THEN {} ELSE {key}) |->
        IF x = key THEN queue ELSE w[x]]
Put(w, key, m) ==
    WithQueue(w, key, Append(IF key \in DOMAIN w THEN w[key] ELSE << >>, m))
Take(w, key) == WithQueue(w, key, Tail(w[key]))

(* Mutant of CanSend: a send that does not wait for room in the channel.     *)
CanSendAtOnce(q, key) == TRUE

(* send_bytes blocks while the channel is full and drops what a peer that    *)
(* left will not read (send_bytes_bulk may also report it, see Broken); a    *)
(* receive fails once the peer dropped its channels, and may lose what was   *)
(* under way when the peer closed the connection.                            *)
CanSend(q, key) == status[q] # "run" \/ Len(Queue(key)) < CAP
Sent(w, q, key, m) == IF status[q] = "run" THEN Put(w, key, m) ELSE w
Lost(q, key) == (Queue(key) = << >> /\ status[q] # "run") \/ status[q] = "gone"

Op(p) == Program[p][pc[p]]
At(p, name) == status[p] # "gone" /\ Op(p)[1] = name
Advance(p) == pc' = [pc EXCEPT ![p] = @ + 1]

(* An error of a call: before `new` has returned, the connections are just  *)
(* dropped; later the network is dropped, which runs the shutdown.          *)
Leave(p) ==
    /\ status' = [status EXCEPT ![p] = IF pc[p] <= NewEnd[p] THEN "gone" ELSE "leaving"]
    /\ pc' = [pc EXCEPT ![p] = IF pc[p] <= NewEnd[p] THEN @ ELSE DropAt[p] + 1]

-----------------------------------------------------------------------------
(* Connections.                                                             *)
Dial(p) ==
    /\ At(p, "dial")
    /\ link' = [link EXCEPT ![<<p, Op(p)[2], Op(p)[3]>>] = "dialled"]
    /\ Advance(p)
    /\ UNCHANGED <<status, faults, accepting, opened, accepted, chans, dones, wire, rngs, mixed, pool>>

Accept(p) ==
    /\ At(p, "accept")
    /\ \E c \in Conns :
          /\ c[2] = p /\ link[c] = "dialled"
          /\ link' = [link EXCEPT ![c] = "accepted"]
          /\ accepting' = [accepting EXCEPT ![p] = c]
    /\ Advance(p)
    /\ UNCHANGED <<status, faults, opened, accepted, chans, dones, wire, rngs, mixed, pool>>

Greet(p) ==
    /\ At(p, "greet")
    /\ LET c == <<p, Op(p)[2], Op(p)[3]>> IN
          /\ link[c] = "accepted"
          /\ link' = [link EXCEPT ![c] = "greeted"]
    /\ Advance(p)
    /\ UNCHANGED <<status, faults, accepting, opened, accepted, chans, dones, wire, rngs, mixed, pool>>

Identify(p) ==
    /\ At(p, "identify")
    /\ link[accepting[p]] = "greeted"
    /\ link' = [link EXCEPT ![accepting[p]] = "open"]
    /\ accepting' = [accepting EXCEPT ![p] = << >>]
    /\ Advance(p)
    /\ UNCHANGED <<status, faults, opened, accepted, chans, dones, wire, rngs, mixed, pool>>

(* Streams: a connection's streams are accepted in the order they were      *)
(* opened.                                                                  *)
OpenBi(p) ==
    /\ At(p, "open_bi")
    /\ LET q == Op(p)[2]  c == Conn(p, q, Op(p)[3]) IN
          /\ opened' = [opened EXCEPT ![c] = @ + 1]
          /\ chans' = [chans EXCEPT ![p][q] = Append(@, <<c, opened[c] + 1>>)]
    /\ Advance(p)
    /\ UNCHANGED <<status, faults, link, accepting, accepted, dones, wire, rngs, mixed, pool>>

ReadId(p) ==
    /\ At(p, "read_id")
    /\ LET c == Conn(p, Op(p)[2], Op(p)[3]) IN accepted[c] = opened[c]
    /\ Advance(p)
    /\ UNCHANGED <<status, faults, link, accepting, opened, accepted, chans, dones, wire, rngs, mixed, pool>>

AcceptBi(p) ==
    /\ At(p, "accept_bi")
    /\ LET q == Op(p)[2]  c == Conn(p, q, Op(p)[3]) IN
          /\ accepted[c] < opened[c]
          /\ accepted' = [accepted EXCEPT ![c] = @ + 1]
          /\ chans' = [chans EXCEPT ![p][q] = Append(@, <<c, accepted[c] + 1>>)]
    /\ Advance(p)
    /\ UNCHANGED <<status, faults, link, accepting, opened, dones, wire, rngs, mixed, pool>>

(* get_coordinator_byte_channel writes the ids and does not wait.           *)
OpenCoordinator(p) ==
    /\ At(p, "open_coordinator")
    /\ LET c == <<p, Coordinator, 0>> IN
          /\ opened' = [opened EXCEPT ![c] = @ + 1]
          /\ chans' = [chans EXCEPT ![p][Coordinator] = Append(@, <<c, opened[c] + 1>>)]
    /\ Advance(p)
    /\ UNCHANGED <<status, faults, link, accepting, accepted, dones, wire, rngs, mixed, pool>>

-----------------------------------------------------------------------------
(* Correlated randomness.  A worker's seed is its id; random_seeds draws the *)
(* next value of both streams of the pair, so a key is a seed and how many   *)
(* values were drawn from it before.                                         *)
MainSend(p, q, m) ==
    /\ CanSend(q, Key(p, q, 0, p))
    /\ wire' = Sent(wire, q, Key(p, q, 0, p), m)
    /\ Advance(p)
MainRecv(p, q) ==
    /\ ~Lost(q, Key(p, q, 0, q)) /\ Queue(Key(p, q, 0, q)) # << >>
    /\ wire' = Take(wire, Key(p, q, 0, q))
    /\ Advance(p)
Incoming(p, q) == Head(wire[Key(p, q, 0, q)])

PrfSend(p) ==
    /\ At(p, "prf_send")
    /\ MainSend(p, NextId(p), rngs[p].seed1)
    /\ UNCHANGED <<status, faults, link, accepting, opened, accepted, chans, dones, rngs, mixed, pool>>

PrfRecv(p) ==
    /\ At(p, "prf_recv")
    /\ MainRecv(p, PrevId(p))
    /\ rngs' = [rngs EXCEPT ![p].seed2 = Incoming(p, PrevId(p))]
    /\ UNCHANGED <<status, faults, link, accepting, opened, accepted, chans, dones, mixed, pool>>

(* setup_bitcomp: P0 gives away the third key of the first generator only,   *)
(* so P1 makes do with two keys in the second.                               *)
BitcompSend(p) ==
    /\ At(p, "bitcomp_send")
    /\ MainSend(p, NextId(p), [n \in 0 .. (IF p = 0 THEN 0 ELSE 1) |-> <<rngs[p].seed2, n>>])
    /\ UNCHANGED <<status, faults, link, accepting, opened, accepted, chans, dones, rngs, mixed, pool>>

BitcompRecv(p) ==
    /\ At(p, "bitcomp_recv")
    /\ MainRecv(p, PrevId(p))
    /\ LET own(n) == {<<rngs[p].seed1, n>>, <<rngs[p].seed2, n>>}
           b == Incoming(p, PrevId(p))
       IN rngs' = [rngs EXCEPT ![p].keys1 = own(0) \cup {b[0]},
                               ![p].keys2 = own(1) \cup (IF p = 1 THEN {} ELSE {b[1]}),
                               ![p].drawn = 2]
    /\ UNCHANGED <<status, faults, link, accepting, opened, accepted, chans, dones, mixed, pool>>

(* Rep3CorrelatedRng::fork, under the lock of RngForker.                     *)
ForkRngs(p) ==
    /\ At(p, "fork_rngs")
    /\ rngs' = [rngs EXCEPT ![p].ctx = Append(@, rngs[p].drawn), ![p].drawn = @ + 1]
    /\ Advance(p)
    /\ UNCHANGED <<status, faults, link, accepting, opened, accepted, chans, dones, wire, mixed, pool>>

-----------------------------------------------------------------------------
(* Messages of the main thread.                                             *)
Send(p) ==
    /\ At(p, "send")
    /\ LET q == Op(p)[2]  key == Key(p, q, Op(p)[3], p) IN
          /\ CanSend(q, key)
          /\ wire' = Sent(wire, q, key, Op(p)[4])
    /\ Advance(p)
    /\ UNCHANGED <<status, faults, link, accepting, opened, accepted, chans, dones, rngs, mixed, pool>>

Mixing(expected, m) == IF m = expected THEN mixed ELSE mixed \cup {<<expected, m>>}
Recv(p) ==
    /\ At(p, "recv")
    /\ LET q == Op(p)[2]  key == Key(p, q, Op(p)[3], q) IN
          /\ Queue(key) # << >> /\ ~Lost(q, key)
          /\ wire' = Take(wire, key)
          /\ mixed' = Mixing(Op(p)[4], Head(wire[key]))
    /\ Advance(p)
    /\ UNCHANGED <<status, faults, link, accepting, opened, accepted, chans, dones, rngs, pool>>

(* The star: a worker and the coordinator use the one stream of the worker.  *)
StarKey(p, from) == << << <<p, Coordinator, 0>>, 1>>, from>>
SendC(p) ==
    /\ At(p, "send_c") /\ CanSend(Coordinator, StarKey(p, p))
    /\ wire' = Sent(wire, Coordinator, StarKey(p, p), "response")
    /\ Advance(p)
    /\ UNCHANGED <<status, faults, link, accepting, opened, accepted, chans, dones, rngs, mixed, pool>>

RecvC(p) ==
    /\ At(p, "recv_c") /\ Queue(StarKey(p, Coordinator)) # << >>
    /\ ~Lost(Coordinator, StarKey(p, Coordinator))
    /\ wire' = Take(wire, StarKey(p, Coordinator))
    /\ Advance(p)
    /\ UNCHANGED <<status, faults, link, accepting, opened, accepted, chans, dones, rngs, mixed, pool>>

Response ==
    LET p == Coordinator  q == Op(p)[2] IN
    /\ At(p, "response")
    /\ Queue(StarKey(q, q)) # << >> /\ ~Lost(q, StarKey(q, q))
    /\ wire' = Take(wire, StarKey(q, q))
    /\ Advance(p)
    /\ UNCHANGED <<status, faults, link, accepting, opened, accepted, chans, dones, rngs, mixed, pool>>

Request ==
    LET p == Coordinator IN
    /\ At(p, "request")
    /\ \A q \in Op(p)[2] : CanSend(q, StarKey(q, p))
    /\ LET keys == {StarKey(q, p) : q \in {q \in Op(p)[2] : status[q] = "run"}} IN
       wire' = [key \in DOMAIN wire \cup keys |->
                   IF key \in keys THEN Append(Queue(key), "request") ELSE wire[key]]
    /\ Advance(p)
    /\ UNCHANGED <<status, faults, link, accepting, opened, accepted, chans, dones, rngs, mixed, pool>>

-----------------------------------------------------------------------------
(***************************************************************************)
(* par_chunks on the Rayon pool (external).  A job is a range of chunks and  *)
(* how often it may still be split: a thread splits it, runs the left half   *)
(* and leaves the right one at the end of its deque; it takes its own jobs   *)
(* from the end, another thread steals from the front.  A thread that runs   *)
(* nothing is in no state, so the threads are a set of those that run.       *)
(*                                                                         *)
(* A frame of a thread's stack is the leaf [lo, hi) of a job [lo, end) and   *)
(* the chunk i it is at.                                                    *)
(***************************************************************************)
(* Halved(n, m)[j]: n halved j times, for j up to m.                         *)
Halved(n, m) == LET half[j \in 0 .. m] == IF j = 0 THEN n ELSE half[j - 1] \div 2 IN half
(* How often a job of len chunks that allows s splits is split.              *)
Splits(len, s) ==
    LET split(j) == Halved(len, len)[j] >= 2 /\ Halved(s, len)[j] > 0
    IN CHOOSE j \in 0 .. len : ~split(j) /\ \A i \in 0 .. j - 1 : split(i)
Leaf(job) ==
    LET len == job[2] - job[1]
    IN [lo |-> job[1], i |-> job[1], end |-> job[2],
        hi |-> job[1] + Halved(len, len)[Splits(len, job[3])]]
RightHalves(job) ==
    LET len == job[2] - job[1]
        left == Halved(len, len)
    IN [j \in 1 .. Splits(len, job[3]) |->
           <<job[1] + left[j], job[1] + left[j - 1], Halved(job[3], len)[j]>>]

(* A stolen job is split again, at least as often as there are threads.      *)
Stolen(p, job) ==
    <<job[1], job[2], 2 * (IF THREADS[p] > job[3] \div 2 THEN THREADS[p] ELSE job[3] \div 2)>>

(* Mutant of ForkFor: the forks in the order in which the chunks start.      *)
ForkByStart(pl, i) == 1 + Cardinality({j \in DOMAIN pl.fork : pl.fork[j] # 0})
(* zip_eq with the forks: chunk i runs with fork i + 1.                      *)
ForkFor(pl, i) == i + 1
Begin(pl, i) == [pl EXCEPT !.at[i] = 1, !.fork[i] = ForkFor(pl, i)]

(* Thread w, with this deque, takes a job on top of what it runs, if anything. *)
Top(w) == w.stack[Len(w.stack)]
AtEnd(f) == f.i = f.hi
Idle == [stack |-> << >>, deque |-> << >>]
Taken(pl, w, deque, job) ==
    [Begin(pl, job[1]) EXCEPT !.busy = (@ \ {w}) \cup
        {[stack |-> Append(w.stack, Leaf(job)), deque |-> deque \o RightHalves(job)]}]
Robbed(pl, v) == [pl EXCEPT !.busy = (@ \ {v}) \cup {[v EXCEPT !.deque = Tail(@)]}]

(* A frame is left once every chunk of its job is done; what it suspended    *)
(* resumes, and a thread that suspended no chunk is free.                    *)
Unwound(pl, stack) ==
    LET left(f) == AtEnd(f) /\ \A i \in f.lo .. f.end - 1 : pl.at[i] = Fin
        kept == {n \in DOMAIN stack : \E m \in n .. Len(stack) : ~left(stack[m])}
    IN IF \A n \in kept : AtEnd(stack[n]) THEN << >> ELSE SubSeq(stack, 1, Cardinality(kept))
Settled(pl) == [pl EXCEPT !.busy = {[w EXCEPT !.stack = Unwound(pl, @)] : w \in @} \ {Idle}]

(* Chunk i of thread w is done: the leaf goes on, a suspended chunk resumes, *)
(* or the thread takes the last job of its own deque.                        *)
Finished(pl, w) ==
    LET i == Top(w).i
        done == [pl EXCEPT !.at[i] = Fin, !.busy = @ \ {w}]
        w1 == [w EXCEPT !.stack = Unwound(done, [@ EXCEPT ![Len(@)].i = i + 1])]
        others == Settled(done)
    IN IF w1.deque # << >> /\ (w1.stack = << >> \/ AtEnd(Top(w1)))
       THEN Taken(others, w1, Front(w1.deque), Last(w1.deque))
       ELSE [others EXCEPT !.busy = (@ \cup {w1}) \ {Idle}]

(* An error makes the collection full: chunks not started are skipped.       *)
Skipped(pl, w) ==
    LET cut(f) == [f EXCEPT !.hi = IF ~AtEnd(f) /\ pl.at[f.i] # 0 /\ f # Top(w) THEN f.i + 1 ELSE f.i]
    IN Settled([pl EXCEPT !.failed = TRUE,
                          !.at = [i \in DOMAIN @ |-> IF i = Top(w).i \/ @[i] = 0 THEN Fin ELSE @[i]],
                          !.busy = {[stack |-> [m \in DOMAIN v.stack |-> cut(v.stack[m])],
                                     deque |-> << >>] : v \in @}])

ParCall(p) ==
    /\ At(p, "par") /\ pool[p].call = 0
    /\ LET n == NumChunks(CALLS[Op(p)[2]].len) IN
       pool' = [pool EXCEPT ![p] =
           [NoPool EXCEPT !.call = Op(p)[2], !.injected = TRUE,
                          !.at = [i \in 0 .. n - 1 |-> 0], !.fork = [i \in 0 .. n - 1 |-> 0]]]
    /\ UNCHANGED <<pc, status, faults, link, accepting, opened, accepted, chans, dones, wire, rngs, mixed>>

(* A thread with nothing to do takes the call's first job, or steals.        *)
TakeInjected(p) ==
    /\ status[p] = "run" /\ pool[p].injected
    /\ pool' = [pool EXCEPT ![p] =
          Taken([@ EXCEPT !.injected = FALSE], Idle, << >>, <<0, Cardinality(DOMAIN @.at), THREADS[p]>>)]
    /\ UNCHANGED <<pc, status, faults, link, accepting, opened, accepted, chans, dones, wire, rngs, mixed>>

Steal(p) ==
    /\ status[p] = "run"
    /\ Cardinality(pool[p].busy) < THREADS[p]
    /\ \E v \in pool[p].busy :
          /\ v.deque # << >>
          /\ pool' = [pool EXCEPT ![p] = Taken(Robbed(@, v), Idle, << >>, Stolen(p, Head(v.deque)))]
    /\ UNCHANGED <<pc, status, faults, link, accepting, opened, accepted, chans, dones, wire, rngs, mixed>>

(* A thread that waits in a join for a piece another thread has taken looks  *)
(* for work meanwhile, its own deque first, and runs it on top of what it    *)
(* waits in: a nested iterator of the closure, the flattening of the chunk   *)
(* before, or a job whose right half was stolen.                             *)
Waits(p, w) ==
    \/ AtEnd(Top(w))
    \/ /\ Cardinality(pool[p].busy) < THREADS[p]
       /\ \/ CALLS[pool[p].call].nested /\ pool[p].at[Top(w).i] = 1
          \/ pool[p].at[Top(w).i] = 0
WorkWhileWaiting(p) ==
    /\ status[p] = "run"
    /\ \E w, v \in pool[p].busy :
          /\ Waits(p, w)
          /\ v.deque # << >>
          /\ w.deque # << >> => v = w
          /\ pool' = [pool EXCEPT ![p] =
                IF v = w THEN Taken(@, w, Front(w.deque), Last(w.deque))
                         ELSE Taken(Robbed(@, v), w, << >>, Stolen(p, Head(v.deque)))]
    /\ UNCHANGED <<pc, status, faults, link, accepting, opened, accepted, chans, dones, wire, rngs, mixed>>

(* The leaf's next chunk.                                                    *)
NextChunk(p) ==
    /\ status[p] = "run"
    /\ \E w \in pool[p].busy :
          /\ ~AtEnd(Top(w)) /\ pool[p].at[Top(w).i] = 0
          /\ pool' = [pool EXCEPT ![p] = Begin(@, Top(w).i)]
    /\ UNCHANGED <<pc, status, faults, link, accepting, opened, accepted, chans, dones, wire, rngs, mixed>>

(* A chunk's closure: each round is a message to the next worker and one from *)
(* the previous worker, as reshare_many does, on the streams of its fork.    *)
Running(p) == {w \in pool[p].busy : ~AtEnd(Top(w)) /\ pool[p].at[Top(w).i] # 0}
ChunkTag(p, i, r) == <<pool[p].call, i, r>>
ChunkKey(p, i, q, from) == Key(p, q, pool[p].fork[i], from)

ChunkSend(p) ==
    /\ status[p] = "run"
    /\ \E w \in Running(p) :
          LET i == Top(w).i  q == NextId(p)  key == ChunkKey(p, i, q, p) IN
          /\ pool[p].at[i] % 2 = 1
          /\ CanSend(q, key)
          /\ wire' = Sent(wire, q, key, ChunkTag(p, i, CeilDiv(pool[p].at[i], 2)))
          /\ pool' = [pool EXCEPT ![p].at[i] = @ + 1]
    /\ UNCHANGED <<pc, status, faults, link, accepting, opened, accepted, chans, dones, rngs, mixed>>

ChunkRecv(p) ==
    /\ status[p] = "run"
    /\ \E w \in Running(p) :
          LET i == Top(w).i  q == PrevId(p)  key == ChunkKey(p, i, q, q) IN
          /\ pool[p].at[i] % 2 = 0
          /\ Queue(key) # << >> /\ ~Lost(q, key)
          /\ wire' = Take(wire, key)
          /\ mixed' = Mixing(ChunkTag(p, i, pool[p].at[i] \div 2), Head(wire[key]))
          /\ pool' = [pool EXCEPT ![p] =
                IF pool[p].at[i] = 2 * CALLS[pool[p].call].rounds THEN Finished(pool[p], w)
                ELSE [pool[p] EXCEPT !.at[i] = @ + 1]]
    /\ UNCHANGED <<pc, status, faults, link, accepting, opened, accepted, chans, dones, rngs>>

ChunkFail(p) ==
    /\ status[p] = "run"
    /\ \E w \in Running(p) :
          LET i == Top(w).i  q == PrevId(p) IN
          /\ pool[p].at[i] % 2 = 0
          /\ Lost(q, ChunkKey(p, i, q, q))
          /\ pool' = [pool EXCEPT ![p] = Skipped(@, w)]
    /\ UNCHANGED <<pc, status, faults, link, accepting, opened, accepted, chans, dones, wire, rngs, mixed>>

ParReturn(p) ==
    /\ At(p, "par") /\ pool[p].call # 0
    /\ \A i \in DOMAIN pool[p].at : pool[p].at[i] = Fin
    /\ pool' = [pool EXCEPT ![p] = NoPool]
    /\ IF pool[p].failed THEN Leave(p) ELSE Advance(p) /\ UNCHANGED status
    /\ UNCHANGED <<faults, link, accepting, opened, accepted, chans, dones, wire, rngs, mixed>>

-----------------------------------------------------------------------------
(* Dropping the network: the channels go first, then the shutdown runs.      *)
DropNetwork(p) ==
    /\ At(p, "drop")
    /\ status' = [status EXCEPT ![p] = "leaving"]
    /\ Advance(p)
    /\ UNCHANGED <<faults, link, accepting, opened, accepted, chans, dones, wire, rngs, mixed, pool>>

Done(p) ==
    /\ At(p, "done")
    /\ dones' = dones \cup {Conn(p, Op(p)[2], Op(p)[3])}
    /\ Advance(p)
    /\ UNCHANGED <<status, faults, link, accepting, opened, accepted, chans, wire, rngs, mixed, pool>>

(* An error of the handshake is logged and the shutdown goes on.             *)
WaitDone(p) ==
    /\ At(p, "wait_done")
    /\ \/ Conn(p, Op(p)[2], Op(p)[3]) \in dones
       \/ status[Op(p)[2]] = "gone"
    /\ Advance(p)
    /\ UNCHANGED <<status, faults, link, accepting, opened, accepted, chans, dones, wire, rngs, mixed, pool>>

Gone(p) ==
    /\ status' = [status EXCEPT ![p] = "gone"]
    /\ pool' = IF p \in Workers THEN [pool EXCEPT ![p] = NoPool] ELSE pool
    /\ wire' = [key \in {key \in DOMAIN wire : p \notin {key[1][1][1], key[1][1][2]}} |-> wire[key]]

Close(p) ==
    /\ At(p, "close")
    /\ Gone(p)
    /\ UNCHANGED <<pc, faults, link, accepting, opened, accepted, chans, dones, rngs, mixed>>

(* A call that waits for a peer returns an error: a connection the peer has  *)
(* closed, a channel it has dropped, a client that never comes (after the    *)
(* timeout of the accept), a bulk channel whose writer has stopped.          *)
Broken(p) ==
    LET op == Op(p)  gone(q) == status[q] = "gone" IN
    CASE op[1] \in {"dial", "greet", "open_bi", "read_id", "accept_bi"} -> gone(op[2])
      [] op[1] = "accept" -> \E c \in Conns : c[2] = p /\ link[c] = "none" /\ gone(c[1])
      [] op[1] = "identify" -> gone(accepting[p][1])
      [] op[1] = "open_coordinator" -> gone(Coordinator)
      [] op[1] \in {"prf_recv", "bitcomp_recv"} -> Lost(PrevId(p), Key(p, PrevId(p), 0, PrevId(p)))
      [] op[1] = "recv" -> Lost(op[2], Key(p, op[2], op[3], op[2]))
      [] op[1] = "send" -> op[3] = -1 /\ status[op[2]] # "run"
      [] op[1] = "recv_c" -> Lost(Coordinator, StarKey(p, Coordinator))
      [] op[1] = "response" -> Lost(op[2], StarKey(op[2], op[2]))
      [] OTHER -> FALSE
Fail(p) ==
    /\ status[p] = "run" /\ Broken(p)
    /\ Leave(p)
    /\ UNCHANGED <<faults, link, accepting, opened, accepted, chans, dones, wire, rngs, mixed, pool>>

(* Faults: a process dies; a client comes too late.                          *)
Crash(p) ==
    /\ status[p] # "gone" /\ faults < FAULTS
    /\ faults' = faults + 1
    /\ Gone(p)
    /\ UNCHANGED <<pc, link, accepting, opened, accepted, chans, dones, rngs, mixed>>

Timeout(p) ==
    /\ At(p, "accept") /\ faults < FAULTS
    /\ faults' = faults + 1
    /\ Leave(p)
    /\ UNCHANGED <<link, accepting, opened, accepted, chans, dones, wire, rngs, mixed, pool>>

-----------------------------------------------------------------------------
Progress ==
    \/ \E p \in Procs :
          \/ Accept(p) \/ Identify(p) \/ AcceptBi(p)
          \/ DropNetwork(p) \/ WaitDone(p) \/ Close(p) \/ Fail(p)
    \/ \E p \in Workers :
          \/ Dial(p) \/ Greet(p) \/ OpenBi(p) \/ ReadId(p) \/ OpenCoordinator(p)
          \/ PrfSend(p) \/ PrfRecv(p) \/ BitcompSend(p) \/ BitcompRecv(p) \/ ForkRngs(p)
          \/ Send(p) \/ Recv(p) \/ SendC(p) \/ RecvC(p) \/ Done(p)
          \/ ParCall(p) \/ TakeInjected(p) \/ Steal(p) \/ WorkWhileWaiting(p)
          \/ NextChunk(p) \/ ChunkSend(p) \/ ChunkRecv(p) \/ ChunkFail(p) \/ ParReturn(p)
    \/ Request \/ Response

Next == Progress \/ \E p \in Procs : Crash(p) \/ Timeout(p)

(* Tokio's tasks and Rayon's threads run whenever they can.                  *)
Spec == Init /\ [][Next]_vars /\ WF_vars(Progress)

-----------------------------------------------------------------------------
AllGone == \A p \in Procs : status[p] = "gone"

(* A worker whose peer failed while it was setting up its own contexts: it   *)
(* waits in accept_bi for a stream, and the peer's shutdown for its "done",  *)
(* on a connection that both keep alive.                                     *)
SetupAbandoned ==
    \E p \in Workers :
        /\ At(p, "accept_bi") /\ status[p] = "run"
        /\ pc[p] > NewEnd[p] /\ status[Op(p)[2]] = "leaving"

(* Two neighbours use the same stream and the same position of the shared    *)
(* randomness for the same context, whatever threads run their chunks, and   *)
(* hold the keys setup_bitcomp is to leave them with; so no chunk, and no    *)
(* call of the main thread, ever reads another one's message.                *)
ForksPaired ==
    /\ mixed = {}
    /\ \A p \in Workers :
        LET q == NextId(p) IN
        /\ \A k \in DOMAIN chans[p][q] \cap DOMAIN chans[q][p] : chans[p][q][k] = chans[q][p][k]
        /\ \A k \in DOMAIN rngs[p].ctx \cap DOMAIN rngs[q].ctx :
              /\ rngs[p].ctx[k] = rngs[q].ctx[k]
              /\ rngs[p].seed1 = rngs[q].seed2
              /\ rngs[p].keys1 = rngs[q].keys1
              /\ rngs[1].keys2 \subseteq rngs[p].keys2
              /\ rngs[p].keys2 = rngs[q].keys2 \/ 1 \in {p, q}

(* Every process ends: connections, contexts, the extension of the daBits,   *)
(* chunks on however many threads and the shutdown never wait on one another *)
(* in a circle, and an error or a crash makes the others leave too.  The one  *)
(* exception is a failure while contexts are set up.                         *)
Finishes == <>(AllGone \/ SetupAbandoned)

(* "Each party gets its own rayon thread pool to avoid deadlocks"            *)
(* (test_utils.rs): as long as a process runs, some step is possible.        *)
NeverStuck == AllGone \/ ENABLED Progress

=============================================================================
