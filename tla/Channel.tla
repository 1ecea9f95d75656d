------------------------------ MODULE Channel ------------------------------
(***************************************************************************)
(* One direction of a ChannelHandle<Bytes, BytesMut> over a QUIC stream    *)
(* (manage_bytes_quic): sending threads that share clones of the handle, a *)
(* writer task, the stream, a prefetching reader task, a server task that  *)
(* pairs read jobs with frames, and receiving threads.  Memory is bounded  *)
(* by a byte-budget semaphore and a bounded queue on either side.          *)
(*                                                                         *)
(* Bytes are counted in units.  A frame is its length prefix, one unit     *)
(* <<m, 0>>, followed by the units <<m, 1>> ... <<m, Size(m)>> of message  *)
(* m = <<sender, number>>.  Chunk sizes and yields only cut the same units *)
(* into different writes and are left out.  The queue of read jobs (8192)  *)
(* never fills: a receiving thread has one job at a time.                  *)
(***************************************************************************)
EXTENDS Sums, FiniteSets, FiniteSetsExt, SequencesExt

CONSTANTS
  Senders, Receivers,   \* threads
  Async,                \* the senders that use send; the others use blocking_send
  Script,               \* Script[s]: sizes of the messages s sends, in order
  Wants,                \* how many receives each receiver may set out to do
  WriteBudget, ReadBudget,   \* quic_write_buf_bytes, quic_read_buf_bytes
  WriteCap, ReadCap,    \* WRITE_CHAN_CAP, READ_CHAN_CAP
  Window                \* units the stream holds in flight (flow control)

ASSUME ThreadsAssumption ==
  /\ IsFiniteSet(Senders) /\ IsFiniteSet(Receivers)
  /\ Async \subseteq Senders
  /\ Script \in [Senders -> Seq(Nat)]
  /\ Wants \subseteq [Receivers -> Nat] /\ Wants # {}
ASSUME LimitsAssumption ==
  /\ WriteBudget \in Nat /\ ReadBudget \in Nat
  /\ {WriteCap, ReadCap, Window} \subseteq Nat \ {0}

VARIABLES
  phase,      \* phase[s]: "idle", "waiting" for permits, "enqueue"
  sent,       \* sent[s]: number of send calls of s that have returned
  held,       \* held[s]: permits of the message s is about to enqueue
  wAvail,     \* write_byte_budget: free permits
  wWait,      \* write_byte_budget: queued acquirers with the permits each lacks
  wq,         \* write_job_queue
  writer,     \* the writer task: where it is, its job, units written
  ack,        \* results sent on the write jobs' oneshots
  sendOpen,   \* some clone of the sending handle is alive
  wire,       \* units in flight
  up,         \* the connection is alive
  reader,     \* the reader task: where it is, announced length, buffer
  rAvail,     \* read_byte_budget: free permits
  fq,         \* frames_tx / frames_rx: prefetched frames
  rq,         \* read_job_queue: receivers whose job is queued
  server,     \* the task that serves read jobs
  wants,      \* wants[r]: number of receives r does
  done,       \* done[r]: number of receives of r that have returned
  waiting,    \* receivers with an outstanding job
  recvOpen,   \* some clone of the receiving handle is alive
  accepted,   \* history: messages in the order they were enqueued
  delivered   \* history: frames in the order they were returned

sendVars == <<phase, sent, held, wWait>>
readVars == <<reader, rAvail, fq>>
recvVars == <<rq, server, wants, done, waiting, recvOpen>>
vars == <<sendVars, wAvail, wq, writer, ack, sendOpen, wire, up, readVars, recvVars,
          accepted, delivered>>

-----------------------------------------------------------------------------

Messages == {<<s, k>> : s \in Senders, k \in Nat \ {0}}
Sent == UNION {{<<s, k>> : k \in 1..Len(Script[s])} : s \in Senders}

Size(m) == Script[m[1]][m[2]]

\* The units of m's body, as the receiver gets them.
Frame(m) == [i \in 1..Size(m) |-> <<m, i>>]

\* A message larger than the whole budget takes no permits.
WritePermits(m) == IF Size(m) > WriteBudget THEN 0 ELSE Size(m)

\* Fault: a frame larger than the read budget asks for its permits too.
ReadPermitsAlways(n) == n
ReadPermits(n) == IF n > ReadBudget THEN 0 ELSE n

MaxOf(a, b) == IF a >= b THEN a ELSE b
Lesser(a, b) == IF a <= b THEN a ELSE b

\* The permits that travel with the jobs of a queue and with prefetched frames.
JobPermits(q) == Total([i \in 1..Len(q) |-> WritePermits(q[i])])
FramePermits(q) == Total([i \in 1..Len(q) |-> ReadPermits(Len(q[i]))])

Current(s) == <<s, sent[s] + 1>>
CanSend(s) == phase[s] = "idle" /\ sent[s] < Len(Script[s])
AllSent == \A s \in Senders : sent[s] = Len(Script[s])
AllReceived == \A r \in Receivers : done[r] = wants[r]

Idle == [at |-> "idle", msg |-> <<>>, off |-> 0]
AtPrefix == [at |-> "prefix", len |-> 0, buf |-> <<>>]
IdleServer == [at |-> "idle", job |-> {}]

Init ==
  /\ phase = [s \in Senders |-> "idle"]
  /\ sent = [s \in Senders |-> 0]
  /\ held = [s \in Senders |-> 0]
  /\ wAvail = WriteBudget
  /\ wWait = <<>>
  /\ wq = <<>>
  /\ writer = Idle
  /\ ack = [m \in Sent |-> "none"]
  /\ sendOpen = TRUE
  /\ wire = <<>>
  /\ up = TRUE
  /\ reader = AtPrefix
  /\ rAvail = ReadBudget
  /\ fq = <<>>
  /\ rq = <<>>
  /\ server = IdleServer
  /\ wants \in Wants
  /\ done = [r \in Receivers |-> 0]
  /\ waiting = {}
  /\ recvOpen = TRUE
  /\ accepted = <<>>
  /\ delivered = <<>>

-----------------------------------------------------------------------------
(* The tokio semaphore: released permits go to the queued acquirers in      *)
(* order, what is left becomes free.  An acquirer keeps what it got.        *)

Lacks == [i \in 1..Len(wWait) |-> wWait[i].lacks]

\* What is left of n released permits after the first i acquirers.
LeftAfter(n, i) == MaxOf(0, n - Partial(Lacks)[i])

\* The acquirers after n permits were released, and how many of them need no more.
Granted(n) ==
  [i \in 1..Len(wWait) |->
     [wWait[i] EXCEPT !.lacks = MaxOf(0, wWait[i].lacks - LeftAfter(n, i - 1))]]
Served(n) == CHOOSE g \in 0..Len(wWait) :
               /\ \A i \in 1..g : Granted(n)[i].lacks = 0
               /\ \A i \in g + 1..Len(wWait) : Granted(n)[i].lacks > 0

\* Releases n permits; base is the senders' phase without the release.
Release(n, base) ==
  /\ wAvail' = wAvail + LeftAfter(n, Len(wWait))
  /\ wWait' = SubSeq(Granted(n), Served(n) + 1, Len(wWait))
  /\ phase' = [s \in Senders |-> IF \E i \in 1..Served(n) : wWait[i].who = s THEN "enqueue"
                                                                      ELSE base[s]]

-----------------------------------------------------------------------------
(* Sending threads *)

\* acquire_write_permit_blocking: poll try_acquire_many until it succeeds.
AcquireBlocking(s) ==
  /\ CanSend(s) /\ s \notin Async
  /\ WritePermits(Current(s)) <= wAvail
  /\ wAvail' = wAvail - WritePermits(Current(s))
  /\ held' = [held EXCEPT ![s] = WritePermits(Current(s))]
  /\ phase' = [phase EXCEPT ![s] = "enqueue"]
  /\ UNCHANGED <<sent, wWait, wq, writer, ack, sendOpen, wire, up, readVars, recvVars,
                 accepted, delivered>>

\* acquire_write_permit_async: take what is free and queue for the rest.
AcquireAsync(s) ==
  /\ CanSend(s) /\ s \in Async
  /\ LET n == WritePermits(Current(s))
         now == Lesser(n, wAvail)
     IN  /\ wAvail' = wAvail - now
         /\ held' = [held EXCEPT ![s] = n]
         /\ IF now = n
              THEN phase' = [phase EXCEPT ![s] = "enqueue"] /\ wWait' = wWait
              ELSE /\ phase' = [phase EXCEPT ![s] = "waiting"]
                   /\ wWait' = Append(wWait, [who |-> s, lacks |-> n - now])
  /\ UNCHANGED <<sent, wq, writer, ack, sendOpen, wire, up, readVars, recvVars,
                 accepted, delivered>>

\* Fault: the job queue is not bounded.
EnqueueUnbounded(s) ==
  /\ phase[s] = "enqueue"
  /\ writer.at # "dead"
  /\ wq' = Append(wq, Current(s))
  /\ accepted' = Append(accepted, Current(s))
  /\ sent' = [sent EXCEPT ![s] = @ + 1]
  /\ held' = [held EXCEPT ![s] = 0]
  /\ phase' = [phase EXCEPT ![s] = "idle"]
  /\ UNCHANGED <<wAvail, wWait, writer, ack, sendOpen, wire, up, readVars, recvVars,
                 delivered>>

\* The job enters the queue and the call returns.
Enqueue(s) ==
  /\ phase[s] = "enqueue"
  /\ writer.at # "dead"
  /\ Len(wq) < WriteCap
  /\ wq' = Append(wq, Current(s))
  /\ accepted' = Append(accepted, Current(s))
  /\ sent' = [sent EXCEPT ![s] = @ + 1]
  /\ held' = [held EXCEPT ![s] = 0]
  /\ phase' = [phase EXCEPT ![s] = "idle"]
  /\ UNCHANGED <<wAvail, wWait, writer, ack, sendOpen, wire, up, readVars, recvVars,
                 delivered>>

\* "send Channel is gone": the job comes back and its permit is dropped.
EnqueueGone(s) ==
  /\ phase[s] = "enqueue"
  /\ writer.at = "dead"
  /\ ack' = [ack EXCEPT ![Current(s)] = "err"]
  /\ Release(held[s], [phase EXCEPT ![s] = "idle"])
  /\ sent' = [sent EXCEPT ![s] = @ + 1]
  /\ held' = [held EXCEPT ![s] = 0]
  /\ UNCHANGED <<wq, writer, sendOpen, wire, up, readVars, recvVars, accepted, delivered>>

\* The last clone of the sending handle is dropped.
CloseSend ==
  /\ sendOpen /\ AllSent
  /\ sendOpen' = FALSE
  /\ UNCHANGED <<sendVars, wAvail, wq, writer, ack, wire, up, readVars, recvVars,
                 accepted, delivered>>

-----------------------------------------------------------------------------
(* The writer task *)

WriterTake ==
  /\ writer.at = "idle"
  /\ wq # <<>>
  /\ writer' = [at |-> "write", msg |-> Head(wq), off |-> 0]
  /\ wq' = Tail(wq)
  /\ UNCHANGED <<sendVars, wAvail, ack, sendOpen, wire, up, readVars, recvVars,
                 accepted, delivered>>

\* write_len_prefix, then the chunks: one unit goes out when there is room.
WriteUnit ==
  /\ writer.at = "write"
  /\ writer.off <= Size(writer.msg)
  /\ up /\ Len(wire) < Window
  /\ wire' = Append(wire, <<writer.msg, writer.off>>)
  /\ writer' = [writer EXCEPT !.off = @ + 1]
  /\ UNCHANGED <<sendVars, wAvail, wq, ack, sendOpen, up, readVars, recvVars,
                 accepted, delivered>>

WriteDone ==
  /\ writer.at = "write"
  /\ writer.off > Size(writer.msg)
  /\ Release(WritePermits(writer.msg), phase)
  /\ ack' = [ack EXCEPT ![writer.msg] = "ok"]
  /\ writer' = Idle
  /\ UNCHANGED <<sent, held, wq, sendOpen, wire, up, readVars, recvVars,
                 accepted, delivered>>

\* write_all fails: the connection is lost, or the reader has dropped its end
\* of the stream.
WriteFails ==
  /\ writer.at = "write"
  /\ writer.off <= Size(writer.msg)
  /\ ~up \/ reader.at = "dead"
  /\ Release(WritePermits(writer.msg), phase)
  /\ ack' = [ack EXCEPT ![writer.msg] = "err"]
  /\ writer' = [Idle EXCEPT !.at = "failed"]
  /\ UNCHANGED <<sent, held, wq, sendOpen, wire, up, readVars, recvVars,
                 accepted, delivered>>

\* Fault: the permits of the queued jobs are not given back.
WriterBreaksLeaking ==
  /\ writer.at = "failed"
  /\ ack' = [m \in Sent |-> IF Contains(wq, m) THEN "err" ELSE ack[m]]
  /\ wq' = <<>>
  /\ writer' = [Idle EXCEPT !.at = "dead"]
  /\ UNCHANGED <<sendVars, wAvail, sendOpen, wire, up, readVars, recvVars, accepted,
                 delivered>>

\* The task ends after an error: the queue is closed and its jobs, with their
\* permits and oneshots, are dropped.
WriterBreaks ==
  /\ writer.at = "failed"
  /\ Release(JobPermits(wq), phase)
  /\ ack' = [m \in Sent |-> IF Contains(wq, m) THEN "err" ELSE ack[m]]
  /\ wq' = <<>>
  /\ writer' = [Idle EXCEPT !.at = "dead"]
  /\ UNCHANGED <<sent, held, sendOpen, wire, up, readVars, recvVars, accepted, delivered>>

\* Fault: the task ends with the last handle, whatever is still queued.
WriterEndsEarly ==
  /\ writer.at = "idle"
  /\ ~sendOpen
  /\ Release(JobPermits(wq), phase)
  /\ wq' = <<>>
  /\ writer' = [Idle EXCEPT !.at = "dead"]
  /\ UNCHANGED <<sent, held, ack, sendOpen, wire, up, readVars, recvVars, accepted,
                 delivered>>

\* All handles are gone and the queue is empty: the stream is finished.
WriterEnds ==
  /\ writer.at = "idle"
  /\ wq = <<>> /\ ~sendOpen
  /\ writer' = [Idle EXCEPT !.at = "dead"]
  /\ UNCHANGED <<sendVars, wAvail, wq, ack, sendOpen, wire, up, readVars, recvVars,
                 accepted, delivered>>

\* The connection is lost, and with it any suffix of what is in flight.
ConnectionLost ==
  /\ up
  /\ up' = FALSE
  /\ \E n \in 0..Len(wire) : wire' = SubSeq(wire, 1, n)
  /\ UNCHANGED <<sendVars, wAvail, wq, writer, ack, sendOpen, readVars, recvVars,
                 accepted, delivered>>

-----------------------------------------------------------------------------
(* The prefetching reader task *)

ReadPrefix ==
  /\ reader.at = "prefix"
  /\ wire # <<>>
  /\ reader' = [at |-> "permit", len |-> Size(Head(wire)[1]), buf |-> <<>>]
  /\ wire' = Tail(wire)
  /\ UNCHANGED <<sendVars, wAvail, wq, writer, ack, sendOpen, up, rAvail, fq, recvVars,
                 accepted, delivered>>

ReadPermit ==
  /\ reader.at = "permit"
  /\ ReadPermits(reader.len) <= rAvail
  /\ rAvail' = rAvail - ReadPermits(reader.len)
  /\ reader' = [reader EXCEPT !.at = "body"]
  /\ UNCHANGED <<sendVars, wAvail, wq, writer, ack, sendOpen, wire, up, fq, recvVars,
                 accepted, delivered>>

ReadBody ==
  /\ reader.at = "body"
  /\ Len(reader.buf) < reader.len
  /\ wire # <<>>
  /\ reader' = [reader EXCEPT !.buf = Append(@, Head(wire))]
  /\ wire' = Tail(wire)
  /\ UNCHANGED <<sendVars, wAvail, wq, writer, ack, sendOpen, up, rAvail, fq, recvVars,
                 accepted, delivered>>

\* Fault: a frame cut short by the end of the stream is passed on.
ReadPushShort ==
  /\ reader.at = "body"
  /\ Len(reader.buf) = reader.len \/ (wire = <<>> /\ ~up)
  /\ server.at # "dead"
  /\ Len(fq) < ReadCap
  /\ fq' = Append(fq, reader.buf)
  /\ reader' = AtPrefix
  /\ UNCHANGED <<sendVars, wAvail, wq, writer, ack, sendOpen, wire, up, rAvail, recvVars,
                 accepted, delivered>>

ReadPush ==
  /\ reader.at = "body"
  /\ Len(reader.buf) = reader.len
  /\ server.at # "dead"
  /\ Len(fq) < ReadCap
  /\ fq' = Append(fq, reader.buf)
  /\ reader' = AtPrefix
  /\ UNCHANGED <<sendVars, wAvail, wq, writer, ack, sendOpen, wire, up, rAvail, recvVars,
                 accepted, delivered>>

\* The stream is over (lost, or finished by the writer) before the next
\* prefix or inside a frame, or the server task is gone.
ReaderBreaks ==
  /\ \/ /\ reader.at = "prefix" \/ (reader.at = "body" /\ Len(reader.buf) < reader.len)
        /\ wire = <<>>
        /\ ~up \/ writer.at = "dead"
     \/ reader.at = "body" /\ Len(reader.buf) = reader.len /\ server.at = "dead"
  /\ rAvail' = rAvail + (IF reader.at = "body" THEN ReadPermits(reader.len) ELSE 0)
  /\ reader' = [AtPrefix EXCEPT !.at = "dead"]
  /\ UNCHANGED <<sendVars, wAvail, wq, writer, ack, sendOpen, wire, up, fq, recvVars,
                 accepted, delivered>>

-----------------------------------------------------------------------------
(* The task that serves read jobs *)

ServerTake ==
  /\ server.at = "idle"
  /\ rq # <<>>
  /\ server' = [at |-> "serve", job |-> {Head(rq)}]
  /\ rq' = Tail(rq)
  /\ UNCHANGED <<sendVars, wAvail, wq, writer, ack, sendOpen, wire, up, readVars, done,
                 waiting, recvOpen, accepted, delivered, wants>>

\* The results of the receives of the threads in R have arrived.
Returned(R) ==
  /\ done' = [r \in Receivers |-> IF r \in R THEN done[r] + 1 ELSE done[r]]
  /\ waiting' = waiting \ R

ServeFrame ==
  /\ server.at = "serve"
  /\ fq # <<>>
  /\ delivered' = Append(delivered, Head(fq))
  /\ rAvail' = rAvail + ReadPermits(Len(Head(fq)))
  /\ fq' = Tail(fq)
  /\ Returned(server.job)
  /\ server' = IdleServer
  /\ UNCHANGED <<sendVars, wAvail, wq, writer, ack, sendOpen, wire, up, reader, rq,
                 recvOpen, accepted, wants>>

\* Fault: the job fails although frames are prefetched.
ServeEofEarly ==
  /\ server.at = "serve"
  /\ reader.at = "dead"
  /\ Returned(server.job)
  /\ server' = [at |-> "failed", job |-> {}]
  /\ UNCHANGED <<sendVars, wAvail, wq, writer, ack, sendOpen, wire, up, readVars, rq,
                 recvOpen, accepted, delivered, wants>>

\* "channel closed": the job fails and the task breaks out of its loop.
ServeEof ==
  /\ server.at = "serve"
  /\ fq = <<>> /\ reader.at = "dead"
  /\ Returned(server.job)
  /\ server' = [at |-> "failed", job |-> {}]
  /\ UNCHANGED <<sendVars, wAvail, wq, writer, ack, sendOpen, wire, up, readVars, rq,
                 recvOpen, accepted, delivered, wants>>

\* Fault: the queued jobs are kept, their callers wait.
ServerBreaksKeeping ==
  /\ server.at = "failed"
  /\ server' = [at |-> "dead", job |-> {}]
  /\ UNCHANGED <<sendVars, wAvail, wq, writer, ack, sendOpen, wire, up, readVars, rq, done,
                 waiting, recvOpen, accepted, delivered, wants>>

\* The task ends: queued jobs are dropped ("receive channel end died").
ServerBreaks ==
  /\ server.at = "failed"
  /\ Returned(ToSet(rq))
  /\ rq' = <<>>
  /\ server' = [at |-> "dead", job |-> {}]
  /\ UNCHANGED <<sendVars, wAvail, wq, writer, ack, sendOpen, wire, up, readVars, recvOpen,
                 accepted, delivered, wants>>

\* Fault: the permits of the prefetched frames are not given back.
ServerEndsLeaking ==
  /\ server.at = "idle"
  /\ rq = <<>> /\ ~recvOpen
  /\ server' = [at |-> "dead", job |-> {}]
  /\ fq' = <<>>
  /\ UNCHANGED <<sendVars, wAvail, wq, writer, ack, sendOpen, wire, up, reader, rAvail, rq,
                 done, waiting, recvOpen, accepted, delivered, wants>>

\* All handles are gone: the task ends, prefetched frames are dropped.
ServerEnds ==
  /\ server.at = "idle"
  /\ rq = <<>> /\ ~recvOpen
  /\ server' = [at |-> "dead", job |-> {}]
  /\ rAvail' = rAvail + FramePermits(fq)
  /\ fq' = <<>>
  /\ UNCHANGED <<sendVars, wAvail, wq, writer, ack, sendOpen, wire, up, reader, rq, done,
                 waiting, recvOpen, accepted, delivered, wants>>

-----------------------------------------------------------------------------
(* Receiving threads *)

Recv(r) ==
  /\ r \notin waiting /\ done[r] < wants[r]
  /\ server.at # "dead"
  /\ rq' = Append(rq, r)
  /\ waiting' = waiting \cup {r}
  /\ UNCHANGED <<sendVars, wAvail, wq, writer, ack, sendOpen, wire, up, readVars, server,
                 done, recvOpen, accepted, delivered, wants>>

\* "recv Channel is gone"
RecvGone(r) ==
  /\ r \notin waiting /\ done[r] < wants[r]
  /\ server.at = "dead"
  /\ Returned({r})
  /\ UNCHANGED <<sendVars, wAvail, wq, writer, ack, sendOpen, wire, up, readVars, rq, server,
                 recvOpen, accepted, delivered, wants>>

CloseRecv ==
  /\ recvOpen /\ AllReceived
  /\ recvOpen' = FALSE
  /\ UNCHANGED <<sendVars, wAvail, wq, writer, ack, sendOpen, wire, up, readVars, rq, server,
                 done, waiting, accepted, delivered, wants>>

-----------------------------------------------------------------------------

SenderStep(s) == AcquireBlocking(s) \/ AcquireAsync(s) \/ Enqueue(s) \/ EnqueueGone(s)
WriterStep == WriterTake \/ WriteUnit \/ WriteDone \/ WriteFails \/ WriterBreaks \/ WriterEnds
ReaderStep == ReadPrefix \/ ReadPermit \/ ReadBody \/ ReadPush \/ ReaderBreaks
ServerStep == ServerTake \/ ServeFrame \/ ServeEof \/ ServerBreaks \/ ServerEnds
ReceiverStep(r) == Recv(r) \/ RecvGone(r)

\* Both ends are done and let go of their handles.
Stopped ==
  /\ ~sendOpen /\ ~recvOpen
  /\ UNCHANGED vars

Next ==
  \/ \E s \in Senders : SenderStep(s)
  \/ WriterStep
  \/ ReaderStep
  \/ ServerStep
  \/ \E r \in Receivers : ReceiverStep(r)
  \/ CloseSend \/ CloseRecv \/ Stopped
  \/ ConnectionLost

\* Every task and thread is scheduled again and again; a connection need not
\* be lost.
Fairness ==
  /\ \A s \in Senders : WF_vars(SenderStep(s))
  /\ WF_vars(WriterStep)
  /\ WF_vars(ReaderStep)
  /\ WF_vars(ServerStep)
  /\ \A r \in Receivers : WF_vars(ReceiverStep(r))
  /\ WF_vars(CloseSend) /\ WF_vars(CloseRecv)

Spec == Init /\ [][Next]_vars /\ Fairness

-----------------------------------------------------------------------------
(* Properties *)

\* Types of all variables.
TypeOK ==
  /\ phase \in [Senders -> {"idle", "waiting", "enqueue"}]
  /\ \A s \in Senders : sent[s] \in 0..Len(Script[s]) /\ held[s] \in 0..WriteBudget
  /\ wAvail \in 0..WriteBudget
  /\ \A i \in 1..Len(wWait) : wWait[i].who \in Senders /\ wWait[i].lacks \in 1..WriteBudget
  /\ ToSet(wq) \subseteq Sent /\ Len(wq) <= WriteCap
  /\ writer.at \in {"idle", "write", "failed", "dead"}
  /\ writer.at = "write" => writer.msg \in Sent /\ writer.off \in 0..Size(writer.msg) + 1
  /\ ack \in [Sent -> {"none", "ok", "err"}]
  /\ {sendOpen, up, recvOpen} \subseteq BOOLEAN
  /\ \A i \in 1..Len(wire) : wire[i][1] \in Sent /\ wire[i][2] \in 0..Size(wire[i][1])
  /\ Len(wire) <= Window
  /\ reader.at \in {"prefix", "permit", "body", "dead"} /\ Len(reader.buf) <= reader.len
  /\ rAvail \in 0..ReadBudget
  /\ Len(fq) <= ReadCap
  /\ ToSet(rq) \subseteq Receivers
  /\ server.at \in {"idle", "serve", "failed", "dead"} /\ server.job \subseteq Receivers
  /\ wants \in Wants /\ \A r \in Receivers : done[r] \in 0..wants[r]
  /\ waiting = ToSet(rq) \cup server.job
  /\ ToSet(accepted) \subseteq Sent

\* The permits senders hold or wait for, summed in some order of the senders.
SenderAt == CHOOSE f \in Bijection(1..Cardinality(Senders), Senders) : TRUE
HeldPermits == Total([i \in 1..Cardinality(Senders) |-> held[SenderAt[i]]])

\* acquire_write_permit_*, WriteJob.write_permit: every permit of the write
\* budget is free, partly granted to a queued acquirer, or held by exactly one
\* message on its way to the stream.  No error path leaks or duplicates one.
WritePermitsConserved ==
  LET writing == IF writer.at = "write" THEN WritePermits(writer.msg) ELSE 0
  IN  wAvail + (HeldPermits - Total(Lacks)) + JobPermits(wq) + writing = WriteBudget

\* The same for the read budget: the permit of a frame travels with it to the
\* receiver and comes back when the frame is handed out or dropped.
ReadPermitsConserved ==
  rAvail + (IF reader.at = "body" THEN ReadPermits(reader.len) ELSE 0)
    + FramePermits(fq) = ReadBudget

\* "message semantics the same for callers": whatever the interleaving and
\* wherever the connection breaks, receivers get whole frames, once each, in
\* the order in which the messages were queued.
Abstract == INSTANCE Fifo WITH
  Messages <- {Frame(m) : m \in Sent},
  accepted <- [i \in 1..Len(accepted) |-> Frame(accepted[i])],
  delivered <- delivered

DeliversFifo == Abstract!Spec

\* A receive fails with "channel closed" only after a lost connection, or
\* when the senders are done and everything they queued has been delivered.
NoEarlyEof ==
  server.at = "failed" /\ up => ~sendOpen /\ Len(delivered) = Len(accepted)

\* send, blocking_send, recv, blocking_recv: every call returns, lost
\* connection or not, and whatever the sizes of the messages relative to the
\* budgets.
EveryCallReturns == <>(AllSent /\ AllReceived)

\* Unless the connection is lost, every message that was sent is delivered as
\* long as somebody still receives.
Reliable ==
  LET total == MapThenSumSet(LAMBDA s : Len(Script[s]), Senders)
      wanted == MapThenSumSet(LAMBDA r : wants[r], Receivers)
  IN  <>(~up \/ Len(delivered) = Lesser(total, wanted))

\* "This will block until the send operation is complete": the message of a
\* blocking_send that has returned is written or has failed.
BlockingSendCompletes ==
  \A s \in Senders \ Async : \A k \in 1..sent[s] : ack[<<s, k>>] # "none"
=============================================================================
