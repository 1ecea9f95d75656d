# A TLA+ verification project for ProviaVM

ProviaVM proves the execution of a program in a zkVM without any single machine
seeing the execution: three **workers** hold replicated secret shares (Rep3) of
the trace and run the prover as a multi-party computation, a **coordinator**
plays the public side of the protocol, and a fork of Jolt traces the guest and
verifies the proof. Much has to be right for that to work and is hard to test:
the preprocessing material, which may be used only once, survives on disk between
proofs and through crashes; the three parties, who decide much of what they do
alone, stay in step; message channels, streams and thread pools neither lose,
reorder nor block; every protocol on shares computes what the plain operation
computes; the traced instructions, the lookup tables, the constraints and the
sumchecks of four code bases describe the same execution.

This directory holds TLA+ modules that model these parts, TLC configurations
that check them on small instances, and TLAPS proofs. `PROJECT.json` maps every
definition to the lines it models and lists runs, mutants, findings, hazards and
theorems.

    tlc -workers 2 -config MCSession.cfg MCSession
    tlapm PoolLifecycle_proofs.tla
    tlapm Channel_proofs.tla

## 1. Inventory

Paths are relative to the repository's root.

| Component | State it keeps | Operations | Correct when |
|---|---|---|---|
| Lazy edaBit source, `mpc-core/src/preprocessing/edabits.rs`, `backing_store.rs` | seeds, `total`, `cursor`, storage mode; five files | load, generate, extend, save, precache, take, reserve / view / finalise, persist, drop | no item is handed out twice; what is handed out is the item at its position; no read leaves the files, with a kill between any two disk effects |
| Preprocessing pool, `pool.rs` and the sources, loop in `provia-worker/src/bin/worker.rs` | one source per kind and party, on disk and in memory | load, plan deficits, preprocess or extend, save, take, drop | the three parties plan the same, take the same items, and never reuse one |
| Channel, `mpc-net/src/channel.rs` | two bounded queues, two byte budgets, three tasks, a QUIC stream | send, receive (async and blocking), drop | whole messages, once, in order; permits conserved; every call returns |
| Networks, `mpc-net/src/rep3/quic/` | connections per lane and pair, streams, channels | establish, fork, exchange, request and response, shut down | streams paired the same at both ends; nobody waits for ever |
| I/O contexts, `mpc-core/src/network.rs`, `protocols/rep3/rngs.rs` | generators, forked contexts | set-up of the correlated randomness, `fork`, `par_chunks` on a Rayon pool | the same chunk meets the same stream and generator at all parties |
| Rep3 protocols, `mpc-core/src/protocols/` | none (algorithms) | share, multiply, compare, convert, inject, shift | the opened result is the plain function; both copies of a share agree |
| Correlated tuples, `mpc-core/src/preprocessing/` | cursors into seeded generators | generate, regenerate at a position, use online | each tuple is a valid correlation at its position |
| Shared futures, witness, `provia-worker/src/{host,utils,zkvm/instruction,zkvm/witness}` | shared trace, deferred operations, columns | deal, cast, evaluate in groups, fulfil from the pool, lay out | the columns open to what plain Jolt computes |
| Tracer, `jolt/jolt-tracer` | registers, memory, reservation, pc | execute, expand into virtual instructions, record cycles | a trace of the expansion has the effect of the instruction |
| Inlines, `jolt/jolt-inlines` | own virtual registers | sequences for bigint, RSA, hashes | the sequence computes what the host function does |
| Lookup tables, R1CS, `jolt/jolt-core/src/zkvm` | none | entries, extensions, prefixes and suffixes, queries, constraints | all descriptions of one instruction agree |
| Read-RAF sumcheck, `provia-worker/.../read_raf_checking.rs`, `zkvm/suffixes/` | phases' polynomials, checkpoints, masks | evaluate suffixes on shared indices, bind, change phase, cache openings | the claim is the sum that is left; the verifier accepts the last one |
| Preprocessing budget, `provia-worker/src/zkvm/preprocessing.rs` | none | items of each kind from the trace length | it covers what a proof takes |
| Coordinator, workers, verifier of one proof | transcript, sumcheck instances, opening accumulators | stages, rounds, openings, advice, BlindFold | one transcript, one set of openings, claims that are true; no wait for a message never sent |
| TLS bridge, configuration, SDK, macros | - | I/O, parsing, code generation | - |

**Interaction.** A worker establishes its connections, forks its contexts,
accepts a job, synchronises with the coordinator, loads its pool, computes
deficits *alone*, generates or extends with its peers, saves, deals with the
trace's shares (casts, lookups, witness), proves in stages driven by the
coordinator's requests, and drops pool and network.

**What is hard.** Kills between two disk effects; errors swallowed with `.ok()`;
cursors that become durable at different moments at different parties; bounded
queues and budgets; threads that block on the network while a work-stealing pool
suspends them differently at each party; one transcript produced by two code
bases; bit-level decompositions with a case per bit position. The list is
"hazards" in `PROJECT.json`.

## 2. Modules

| Modules | Model |
|---|---|
| `LazyEdaBits`, `LazyEdaBits_proofs` | one source of one party through the worker's loop, with kills, errors and failed writes; its theorems |
| `Sums`, `Sums_proofs` | sums over sequences, as recursive functions, and what they satisfy for every length |
| `PoolLifecycle`, `PoolLifecycle_proofs` | the pools of the three parties over several proofs; its theorems |
| `Channel`, `Fifo`, `Channel_proofs` | one channel, the abstract promise it implements, and its theorems |
| `Session`, `SessionPrograms_proofs`, `SessionPool_proofs`, `Session_proofs` | networks, contexts, forks, Rayon pools, shutdown: four processes; the lemmas on its programs and on its pools, and its theorems |
| `Rep3Shares`, `Rep3`, `Rep3Ring`, `Correlations`, `Rep3Calls` | Rep3 over field and rings; preprocessed correlations; one call at a time beside its plain function |
| `Word`, `Isa`, `Expansion`, `Inlines`, `Tracer` | machine words, instructions, virtual sequences, inlines, the traced machine |
| `LookupTables`, `Lookups`, `R1cs` | table entries, lookup queries and flags, the constraints |
| `Field`, `Suffixes`, `Prefixes`, `TableMles`, `ReadRaf` | a small prime field, multilinear extensions, the prefix-suffix decomposition, the masked read-RAF prover |
| `SharedLookups`, `SharedTrace` | what the workers do with a shared trace up to the committed polynomials |
| `Openings`, `CoordSumchecks`, `WorkerSumchecks`, `VerifierSumchecks`, `ProveDag` | one proof: coordinator, three workers, verifier |
| `MC...` | instances for TLC (`LazyEdaBits` needs none: `LazyEdaBits.cfg` gives its constants) |

### LazyEdaBits

*State.* An edaBit is the pair of its generation (one pair of seeds) and its
position; a file is a sequence of such cells, a punched hole or an unwritten tail
reads as `Zero`. `src` is the object, `req` the range reserved or being taken,
`meta` and `preMeta` the two headers, `others` the readability of the headers of
the pool's other sources (load is all or nothing). `pc` is the place in
`prove_loop`; there is one step per disk effect, so that a kill can fall between
truncating and writing a header, between growing a file and writing it, between
punching the alphas, punching the gammas and patching the cursor.

*Actions.* `Load` / `LoadFails`; `FreshCreate`, `FreshReceive`; `ExtendBegin`,
`ExtendApply`, `ExtendOthers`, `NoExtend`; `SaveTruncate`, `SaveWrite`,
`SaveError` for this source and the others in parallel, `SaveAgain`, `SaveEnd`,
`SaveAborts`; `Precache*`; `Take`; `Reserve`, `Fill`, `Finalize`; `ConsumeGamma`,
`PersistCursor`; `Finish`, `Fails` (an error: destructors run) and `Kill`.

*History.* `out` is the latest hand-out, `used` the items of completed earlier
ones, `scarred` whether an interruption has hit one of the windows `AtRisk` names.

*Abstractions.* The field elements and the ring element of an item travel
together; the lane-parallel transfer is one step; a process kill loses nothing
that was written (page cache); one width. Feature `reuse-preproc` is off.

### PoolLifecycle

A source is its header (generation, total, cursor) in the directory and its object
in memory. What distinguishes the kinds is in five operators: `PersistsOnTake`,
`PersistsOnDrop`, `SaveSetsPath`, `EmptyIfMissing`, `Replaced`. A build has edaBits,
daBits and random one-hot vectors; feature `ring-msm` adds ring edaBits, wrap masks and
daPoints. `Budget` is a constant operator that has to cover the takes of a program
(`BudgetAssumption`); whether the code's budget does is a question about lookup tables
and is asked in `ReadRaf`. `Plan(p)` is party
p's own decision; `Preprocess` needs all three to have decided the same;
`Desynchronised` is what becomes of them otherwise. An `Abort` kills any subset of
the workers; the others lose their connections and drop their pools; a kill during
`save` finds every header old, torn, new or empty.

*History.* `used` holds what a party took in earlier proofs, completed or aborted, by
kill or by error. `lost` holds the part of it whose last use the directory does not
record (`Unrecorded`): one-hot vectors and daPoints used in the process that generated
them, since `save` does not record their path; ring edaBits at P0 and P1; daBits of a
killed P1. `torn` is set when an abort hits a window of `AtRisk` or a proof with ring
edaBits ends.

### Channel and Fifo

One direction of a `ChannelHandle` over QUIC with a prefetching reader. A message
is a pair of its sender and number; its size is in units of the byte budgets. A
sender takes permits (an async one queues at the semaphore, a blocking one polls),
queues the job and goes on; the writer task writes unit by unit into a stream with
a flow-control window; the reader task takes permits of the read budget, reads the
body and pushes the frame; the server task pairs frames with receive jobs. The
connection may be lost at any moment. How many messages each receiver wants is
chosen at the start, fewer or more than are sent. The tokio semaphore is external.
`Fifo` has two variables, what was accepted and what was delivered; `Channel`
implements it.

### Session

A process is a **program**, the sequence of its blocking calls translated from
`Rep3QuicMpcNetWorker::new`, `IoContext::init`, `IoContextPool::init`,
`prove_loop`, `coordinate_once` and the two `shutdown`s, and an index into it. A
channel is a stream of a connection (the n-th opened is the n-th accepted), with a
bounded queue per direction: the four buffers of a `Channel` in one. A receive
fails when the peer has dropped its channels or closed the connection, which may
lose what was under way; a failed call drops the network, whose shutdown runs,
except inside `new`. `Crash` and `Timeout` (of the 60-second accept) are the
faults.

`par_chunks` runs its closures on a Rayon pool (external: `rayon-core` 1.13). A
job is a range of chunks with the number of splits it still allows; a thread has a
deque and a *stack* of leaves, because a thread that waits in a join takes other
work and runs it on top. This is where the parties part: which chunk is suspended
under which differs per party. A closure sends to the next worker and receives
from the previous one, `rounds` times; `nested` says that it runs Rayon iterators
before its first message.

### The Rep3 modules

A sharing is what the three parties hold, `<<a, b>>` each. Randomness is a function
of key and position (`Draw`), so that two parties agree on a mask exactly when they
use the same key at the same position. Every protocol is an operator from sharings
to sharings, with the messages as the values the receiver uses; `Rep3Calls` deals
inputs, makes one call and keeps result and plain value side by side.

### The tracer

`Isa` gives `exec` of every instruction at word width `XLEN`, `Expansion` the
`inline_sequence` of each that has one and the advice its `trace` fills in, `Lookups` query and flags, `R1cs` the row and its
constraints. `Tracer` runs a program cycle by cycle: `s` is the emulator's state,
`want` what the untraced `execute` yields, `reg` and `ram` what the traced writes
alone would give.

### ReadRaf

The worker's prover with its masked lookup indices: per phase suffix polynomials,
prefix checkpoints, Walsh-Hadamard unmasking, condensation; then the rounds over
the cycles; then the verifier's `expected_output_claim`. Values held in shares are
the value they hold together.

A cycle's index is public, shared, or shared with a public right operand. On a public
index the suffixes are jolt-core's (`suffix_mle`), on a shared one the workers' own
(`eval_suffix_uninterleaved`, `eval_suffix_interleaved` in `Suffixes`), computed in the
ring that fits the suffix and therefore with its shifts and rotations. `SuffixPanics` is
the case of a batch that is not of the form a suffix expects (`as_public` on shared right
operands and the like); no challenge is received after it. `suffix_conversion` says what a
suffix takes from the pool, and `pool` counts what is left of `compute_edabit_budget`:
witness generation and the first phase take at the start, every other phase as it begins.

### SharedTrace

Phases of the worker between receiving shares and committing: `ShareTrace` (the
client), `PopulateCasts`, `ComputeLookupOutputs` (grouped by instruction),
`FulfillOutputs` (futures by bucket, with items of the pool), `PopulateCycleWitness`,
`GenerateWitnessBatch`. Builds for 32 and 64 bits are both in the instance, scaled
to `XLEN = 8`.

### ProveDag

A challenge is the position of the transcript at which it was drawn, a claim the
expression it stands for (an evaluation of a polynomial at a point, a combination
of claims with challenges). Equality of field elements in an honest run is equality
of expressions; polynomial arithmetic disappears and everything that can be out of
step stays: order of appends and draws, number of rounds, points and their
endianness, aliases of openings, which party is public. The coordinator's, the
workers' and the verifier's instances are translated from three code bases into
three modules. `Finishes` here is a state predicate: when nobody can move, all
have ended as they should. Only the zk build is modelled: in the other one
`stage1` of the coordinator refers to an undefined `polys` and does not compile.
A Dory opening is the exchange of the rows, the vector-matrix-vector message and then
`sigma` rounds of two messages each, counted by coordinator and workers on their own
(`sigma` from the opening's context), and a last message.
Abstractions: trailing zeros of a round polynomial are not trimmed, so `EndStage` records
the largest degree of a stage where the code records the trimmed degree of each round;
BlindFold accepts exactly when both sides build the same constraint system; the branch of
`receive_hybrid_opening_claims` for several workers per party is left out. Coordinator and
workers each derive the index at which the read-write checkings change direction from
their number of Rayon threads (`SWITCH`, `WORKER_SWITCH`); the instance gives both one
value, as a deployment has to: "must match workers for twist_sumcheck_switch_index"
(`provia-coordinator/src/bin/coordinator.rs:26`). With two values `ClaimsAreSums` is false.

## 3. Runs

| Run | Properties | Instance |
|---|---|---|
| `lazy_edabits` | `TypeOK`, `OneTimeUse`, `HandoutIntact`, `ReadsInRange` | any party, budgets 2 and 3, precache windows 0 to 3, 4 items a generation, 3 faults |
| `pool_lifecycle` | `TypeOK`, `NeverExhausted`, `PlansAgree`, `Aligned`, `NeverReused` | the kinds of the default build, two programs, a budget above the takes, 5 items a generation, 3 generations, one abort of any subset |
| `channel` | `TypeOK`, `WritePermitsConserved`, `ReadPermitsConserved`, `NoEarlyEof`, `DeliversFifo`, `EveryCallReturns`, `Reliable` | two senders (one async), two receivers that drain or leave early; budgets 2, queues 1, window 2, messages of size 0 to 3 |
| `session` | `TypeOK`, `ForksPaired`, `Finishes` | 2 lanes, 4 forks, pools of 2, 1 and 1 threads, calls on the main thread, on two forks (nested) and on four forks with two rounds, 3 daBit chunks on channels of capacity 2, one fault |
| `rep3` | `ResultOpensToPlain`, `ReplicasAgree` | field of 29 elements, rings of 8 and 4 bits, boundary values, two positions of the generators, tuples taken inside and at the start of a generator's word, every protocol |
| `trace` | `TypeOK`, `TraceMatchesExecute`, `InlineMatchesHost`, `RegistersSuffice`, `LookupIsEntry`, `R1csSatisfied`, `EvaluatorsAgree`, `CycleIsInBytecode`, `ReadsSeeTracedWrites` | `XLEN = 8`, every instruction with boundary operands (for divisions zero, the minimum and -1 in both widths), x0 as destination, inlines on 2 limbs, the Montgomery ones with 0, 1 and a return address in x1 |
| `read_raf` | `MleIsEntry`, `ClaimIsRemainingSum`, `FinalClaimVerifies`, `WithinBudget` | `XLEN = 8`: 16 address rounds in 4 phases of 4, chunks of 2 bits, 2 cycles, two mask slots, modulus 32749, every table, its index shared in every way a trace can have it, batches with public and shared right operands |
| `shared_trace` | `OutputsMirrorVanilla`, `WitnessMirrorsVanilla` | every instruction of both builds, twice around another one and before a NoOp, four operand samples |
| `prove_dag` | `TranscriptsAgree`, `ClaimsAreSums`, `OpeningsAgree`, `Finishes` | 8 cycles, 4 lookup chunks, 15 scenarios: both kinds of advice present or not, a party with another trace length, missing advice, a crash |
| `change_divisor`, `shared_outputs`, `session_nested` | one each | violated; section 6 |

**Why the bounds are enough.** *LazyEdaBits:* two budgets of different size with
room for both make extension, exhaustion and partial use happen; windows shorter,
equal to and longer than a take make every case of the window arithmetic happen;
three faults allow an interrupted recovery from an interrupted recovery followed by
a kill in use; the theorems hold for all bounds. *PoolLifecycle:* the kinds are
independent but for the common plan; the three of the default build have three
different persistence rules, and the theorems cover the other three. *Correlations:* a
word of the generator is two positions (four bytes in the code), so that a cursor falls
on its start and inside it; the packing limit of `pack_and` is scaled so that both its
forms run. *Channel:* the smallest budgets and capacities that tell
"one more fits" from "full", messages equal to the budget and above it, a window
smaller than the largest frame. *Session:* more forks than lanes and than threads,
so lanes are shared and chunks wait for a thread; pools of different sizes, so the parties run
chunks in different orders; one daBit chunk more than a channel holds; the theorems
hold for all bounds. *Rep3:* the
modulus has an odd number of bits and is not of the form 2^k - 1, so carries and
reductions happen; both widths make casts go both ways. *Tracer, ReadRaf,
SharedTrace:* the word width is a parameter of the code (32 or 64); 8 bits keep
words, half words and both operand halves distinct (`WordLen` 4, as 32 is to 64)
and four phases give a first, two middle and a last one. *ProveDag:* challenges are named by their
position in the transcript, so a point used in the wrong order or cut at the wrong
place differs even between dimensions of equal size.

**Deadlock** is checked in `LazyEdaBits`, `PoolLifecycle`, `Channel`, `Tracer`,
`ReadRaf` and `Rep3Calls`. `Session`, `ProveDag` and `SharedTrace` stop when the
work is done; in the first two `Finishes` says that they stop nowhere else.

**Fairness.** `Channel`: weak fairness for each sender, receiver and task and for
dropping the handles, none for losing the connection. `Session`: weak fairness of
`Progress`, everything but the faults: the processes only ever interact through
queues whose steps stay enabled, so "something goes on while something can" is all
that threads, tokio tasks and Rayon guarantee and all the property needs. No
fairness among the threads of a pool is assumed.

**Mutants.** Every property of a passing run has a mutant in `PROJECT.json`, a
definition replaced by a faulty variant (the operator before it), under which TLC
must find the property violated.

## 4. Properties

* `OneTimeUse` (per source): no completed hand-out is repeated. `NeverReused` (per pool):
  no item is taken in two proofs, whether the first one completed or aborted, unless the
  code left its last use unrecorded (`lost`), nor twice in one. Masks used twice reveal
  the difference of the masked values.
* `HandoutIntact`: outside the windows named by `AtRisk` nothing but the right item
  is handed out: items punched but cursor not patched; P2's file grown or truncated
  under a readable older header; precache files rewritten under an older sidecar.
* `ReadsInRange`: `load` checks enough; a read never panics on a short file.
* `PlansAgree`, `Aligned`: parties that decide alone decide alike, unless an abort
  caught them at different places, or while saving, or killed P1 after it took
  daBits (it makes that cursor durable only in `Drop`).
* `NeverExhausted`: what a party planned from its headers covers every take of the
  proof: a deficit is computed before generation, save and aborts move the cursors. It
  assumes a budget that covers the takes.
* `WithinBudget`: the code's budget does, kind by kind, for what witness generation and
  the read-RAF phases take of one trace, the increments excepted.
* `DeliversFifo` (refinement of `Fifo!Spec`), `NoEarlyEof`, `Reliable`,
  `EveryCallReturns`, and the two conservation laws of permits.
* `ForksPaired`: whatever threads run the chunks, neighbours use the same stream
  and the same position of the shared randomness for the same context; nobody ever
  reads another call's message; the keys of `setup_bitcomp` are where its callers
  expect them (P1 lacks one of the second generator).
* `Session!Finishes`: every process ends, also after a crash or a timeout. The one
  exception is named by `SetupAbandoned` (section 6).
* `ResultOpensToPlain`, `ReplicasAgree`; `OutputsMirrorVanilla`,
  `WitnessMirrorsVanilla`: what is computed on shares is what is computed in the
  clear, and a share's two copies agree.
* `TraceMatchesExecute`, `InlineMatchesHost`: the expansion has the effect of the
  instruction. `LookupIsEntry`, `R1csSatisfied`, `EvaluatorsAgree`,
  `CycleIsInBytecode`, `ReadsSeeTracedWrites`: an honest trace can be proved. Where it
  cannot, the property names the cycles (section 6) and states exactly what fails there:
  `TraceMatchesExecute` that a division is `Unadvised` if and only if it panics without
  cause, `R1csSatisfied` which constraints an `OverflowDivisor` and `DivisorInputs` break,
  `InlineMatchesHost` that a product is wrong if and only if it is a `BorrowMisread`.
* `ClaimIsRemainingSum`, `FinalClaimVerifies`, `MleIsEntry`: completeness of the
  read-RAF sumcheck, on every trace without a `Misread` cycle (section 6).
* `TranscriptsAgree`, `OpeningsAgree`, `ClaimsAreSums`, `ProveDag!Finishes`: three
  code bases walk through one protocol.

## 5. Proofs

`LazyEdaBits_proofs` proves, for all parties, budgets, precache requests, word
sizes and bounds (assumptions: `PartiesAssumption`, `BudgetsAssumption`,
`RequestsAssumption`, `BoundsAssumption`, all in `LazyEdaBits` and evaluated by
TLC):

* `TypeCorrect`: `Spec => []TypeOK`
* `ReadsStayInRange`: `Spec => []ReadsInRange`
* `NoReuse`: `Spec => []OneTimeUse`
* `HandoutsIntact`: `Spec => []HandoutIntact`

*The argument.* None of the four is inductive alone. Used items are bounded not
by the cursor in memory, which is gone after a kill, but by what the next `load`
would read. `IInv` therefore adds

* `StageInv`: what the stage of the loop implies for `src`, `req` and the files;
* `HeaderInv`: a readable header belongs to a generation already begun and its
  cursor does not exceed its total; once the source has recorded the header's path
  the header is of the source's own generation, and outside an extension's save
  of the same total; only the first save of a new generation runs without a path;
* `UseInv`: every used item is of a generation already begun and, if it is of the
  generation a readable header or the source in memory names, lies below that
  cursor.

`OneTimeUse` follows as a new hand-out starts at the source's cursor. The proof
goes action by action; each action has a lemma that treats the parts of `IInv` one
by one.

`HandoutIntact` is about what the files hold, and about files that only the next
process will read. Its inductive invariant is `IInv` with `Intact`:

* `CursorInv`: a readable header has the object's cursor, or the start of the range
  that is being consumed. So `Drop`, which writes the cursor once more, changes
  nothing;
* `SidecarInv`: the object has a precache window exactly if the sidecar describes one
  of its stream, and files being prepared hold what has been written so far;
* `FilesInv`: every stored item from `Front` on (the cursor, or the end of a range that
  has been punched out) is the item at its position, unless the directory is scarred;
* `DiskInv`: the same of what `load` would accept, when there is no object with a
  header and the stage is none of `AtRisk`;
* `FreshInv`: headers and sidecars on disk are older than a generation that has no
  header yet, and nothing of that generation was handed out, so its first header may
  clear `scarred`;
* `RequestInv`: a cached prefix comes from a window and is no longer than the range.

`DiskFromFiles` is the step that matters: outside the windows of `AtRisk`, an object
that disappears leaves a directory from which `load` rebuilds it. Every disjunct of
`AtRisk` is used there or in the steps of a fresh generation. `ViewCached` wraps around `usize`
when a view starts behind the window; the proof shows that a view that fills reads the
right items nevertheless, for every word size.

`Sums_proofs` has the facts about sums that budgets need. Induction over the
length of a sequence is done on sets, not with an operator parameter: the
well-foundedness of `<` on `Nat` gives `LeastNatural`, that gives `SetInduction` (a
set with 0 and all successors below n contains `0..n`), and the set is then the set
of indices at which the recursive function has the property (`PartialDef`,
`PartialNat`, `PartialAgree`, `TotalAppend`, `TotalTail`).

`PoolLifecycle_proofs` proves, for every set of kinds, every set of programs and all
bounds (`KindsAssumption`: the three base kinds and any others; `ProgramsAssumption`,
`BudgetAssumption`, `BoundsAssumption`):

* `TypeCorrect`: `Spec => []TypeOK`
* `TakesAreCovered`: `Spec => []NeverExhausted`, from `BudgetAssumption`. What is proved
  is the way from the budget to the take: deficits against what a party's own directory
  holds, generation or extension, save, reload, aborts in between.
* `ItemsUsedOnce`: `Spec => []NeverReused`. It has no hypothesis on the kinds or on where
  a kill falls; what the code fails to record is in `lost`, and nothing else recurs.
* `PlansNeverDiverge`, `BatchesBelongTogether`: `Spec => []PlansAgree` and
  `Spec => []Aligned`, which speak of the time until `torn`.

*The argument.* `PartyInv` says of each party alone what its place in the loop
implies: how much of the program its sources still cover (`StageInv`, on partial sums
of the program's needs), that the header is not ahead of the source (`HeaderInv`),
that the items of this proof lie behind the cursor in disjoint ranges (`LogInv`) and
that everything used of a generation, but for the lost, lies behind the cursors that name
it, durable or in memory (`UseInv`). The hard actions are the aborts: `SafeDropped`,
`SafeKilled` and `SafeCut` show that neither a dropped, nor a killed, nor a half-saved
pool leaves a header behind what was used and is not lost. `Created` (the source was
generated by this process) is what tells a one-hot vector source whose path is recorded
from one whose path is not.
`SyncInv` relates the parties: unless torn, there are a directory `H` and a pool `S`
such that every party that has not started still has `H` and every other one is some
number of takes into a proof that began with `S`. `H` and `S` cannot be read off one
party, which is why the invariant quantifies over them. A party may finish before
another one has planned only if nothing was to be generated.

`Channel_proofs` proves, for any threads, scripts, budgets, capacities and window
(`ThreadsAssumption`, `LimitsAssumption`; messages may be larger than a budget, of
size 0, or none at all):

* `TypeCorrect`: `Spec => []TypeOK`
* `WriteBudgetKept`, `ReadBudgetKept`: `Spec => []WritePermitsConserved` and
  `Spec => []ReadPermitsConserved`
* `FifoDelivered`: `Spec => DeliversFifo`, the refinement of `Fifo`
* `EofIsLast`: `Spec => []NoEarlyEof`

*The argument.* `Typed` is the type invariant with what the budgets need: a sender
that is not idle holds or waits for exactly the permits of its next message, a
waiting one is queued once and lacks no more than it was promised (`SenderOK`,
`QueueOK`), a receiver waits exactly when its one job is queued or served. Upper
bounds on the free permits are not part of `Typed`: they follow from conservation.
Both conservation laws are sums over queues (`JobPermits`, `FramePermits`, `Lacks`,
`HeldPermits`), which `JobPermitsLaws`, `FramePermitsLaws` and the lemmas on
`OfSenders` reduce to what one step adds or removes. The hard step is a release of
the semaphore: `GrantSums` and `ReleaseFacts` show that what acquirers get and what
becomes free add up to what was released, and `LacksWithinHeld` that nobody is
promised more than exists.

For delivery the stream is given positions: `StartsOf(a)[i]` is where frame i + 1 of
the messages `a` starts. `Streaming` says that, while the reader and the server are
there, what the reader has of the frame it is in, the units on the wire and the
writer follow one another without a gap (`Reading`, `OnWire`, `InStep`). `AtHere`
(a position belongs to one unit only) then gives that the unit the reader takes is
the one it needs next, hence that completed frames are those of the first accepted
messages (`Framed`). `Endings` says why a task may have ended and `Drained` that the
reader stops on a live connection only with everything read, because a dead writer
whose handles are closed is at the end of the stream. Every part of `Delivery` has a
lemma for its step. Initial states and steps map to `Fifo`'s: `Enqueue` to `Accept`,
`ServeFrame` to `Deliver` by `Framed`, everything else to a stutter.

`Session_proofs` proves, for any number of lanes, forks, threads per worker, daBit
chunks, parallel calls, chunks and rounds, any channel capacity, with and without
bulk channels per fork, and any number of crashes and timeouts (`SessionAssumption`:
lanes, capacity, threads, lengths and rounds are positive):

* `TypeCorrect`: `Spec => []TypeOK`; in particular no queue exceeds its capacity
* `ForksStayPaired`: `Spec => []ForksPaired`
* `Invariance`: `Spec => []Inv`, the inductive invariant of both

*The argument.* `ForksPaired` says that no receive ever gives a message of another
call, chunk or round (`mixed = {}`). To show that of one receive, one has to know
every message that is in the queue, so the proof first says what two programs
exchange and then that the queue is the part of it that is under way.

`SessionPrograms_proofs` treats a program as a sequence of operations and `Hist(f, s)`
as what its operations contribute one after the other: the lane of each stream
opened with a peer (`LaneF`), or the messages emitted to or consumed from a peer on a
context. Programs are flattened sequences of parts, so what is shown of the parts
(`HistConcat`, `HistFlatten`) holds of the whole. `LaneTotal`: all workers use the
lanes with each peer in one order, `LaneSeq`, hence the n-th channel of both ends is
the same stream (`StreamIdOne`) and different contexts use different streams
(`StreamIdInjective`). `Where` locates every operation in the program.

Its last lemma is `MessagesAgree`: on every context, the sequence of all
messages that the program of q emits to p is the sequence that the program of p
consumes from q. It is the sum of the same fact for the key exchange, `sync_with_parties`,
each daBit chunk and each parallel call, whether it forks or runs in sequence.

`SessionPool_proofs` is about Rayon's pool alone. `PoolOK` says that the frames and jobs
of all threads are disjoint ranges of chunks, that only the chunk a frame is at has
begun and that a chunk that has begun uses the fork of its index. `JobSplit` shows that
splitting covers a job without overlap; every pool operation then moves one range from
one owner to another (`StealOK`, `OwnOK`, `StealMoreOK`, `FinishedOK`, `SkippedOK`). Which
thread runs a chunk, in which order and on top of which other one stays open.

`Inv` puts them together: `PcInv` and `StreamInv` and `ChanInv` (the channels are the
first ones of the program, up to the index), `RngInv` (which seeds and keys a worker
has at its index, and the positions its forks drew), `PoolInv`, `WireInv` and
`FlowInv`: for two workers and a context, `Queue` is what lies between the messages the
receiver has consumed and the ones the sender has emitted. The counts are those of
the program up to its index, and during a parallel call also those of the chunk on
that context (`ChunkSent`, `ChunkRecvd`). Two things make this delicate. A worker that
leaves or a chunk that fails stops sending in the middle and its peers go on, so
`Flow` claims nothing towards a receiver that has left and no upper end from a sender
that has. And on return from `par_chunks` the counts of the chunks become counts of
the program in one step (`ParCounts`). Each action has its lemma
(`LinkSteps`, `ChannelStep`, `SendSteps`, `RecvStep`, `ChunkSendStep`, `ChunkRecvStep`,
`StopSteps`, ...); quiet steps share `Walk` and steps that end a process share `Halt`.
TLC checked `Inv` on small instances before it was proved.

*Only model-checked:* everything else. All liveness (`EveryCallReturns`, `Reliable`,
`Finishes`) and what recursive definitions compute (words, tables, polynomials,
protocols on words) are out of this prover's reach and stay with TLC.

## 6. Findings

Runs that TLC refutes, with the repository's own words:

| Run | What the code does | What the repository says |
|---|---|---|
| `change_divisor` | in round 1 the prefix of the change-divisor table multiplies by `(1 - r_x)` where it should be `r_x` | "eq(x, 100...000) * eq(y, 111...111)" (`prefixes/change_divisor.rs:11`) |
| `shared_outputs` | `VirtualChangeDivisor` selects bit by bit between arithmetic shares; the remainder assertion fails for divisor 0 | "else: return divisor" (`virtual_change_divisor.rs:15`); "divisor == 0 \|\| remainder < divisor" |
| `session_nested` | closures of `par_chunks` that run Rayon iterators: chunks are suspended under one another in different orders and the three parties wait for ever (4 chunks on 2 threads, the ratio `SETTINGS.md` documents: 8 forks, 4 threads) | "Each party gets its own rayon thread pool to avoid deadlocks." (`test_utils.rs:75`) |

Properties that stand in the modules and that TLC refutes on the instance of the
run named (with other programs where that is said), when they are added to its
configuration:

* `HandoutNotZeroed` (`lazy_edabits`): items are punched out before the cursor is
  patched; after a kill in between the next proof uses zeros as shares ("the cursor
  is persisted crash-safely", `backing_store.rs:6`).
* `HandoutOwnItem` (`lazy_edabits`): P2 appends behind the end of a file that an
  interrupted extension left longer than the header's total: items are shifted.
* `ViewAlwaysFills` (`lazy_edabits`): a view behind the precache window underflows
  in `usize`.
* `BlockingSendCompletes` (`channel`): `blocking_send` returns once the job is
  queued, not once it is sent (`channel.rs:336`).

Met while modelling, and kept out of the properties by name:

* `SetupAbandoned` (`Session`): a worker that fails while forks are set up waits in
  its shutdown for "done" of a lower id that waits in `accept_bi` for its stream;
  both keep the connection alive.
* `lost` (`PoolLifecycle`): `LazyRandOhvs::save` does not record the header's path, so
  one-hot vectors of the process that generated them are used again by the next one
  (`rand_ohv.rs:156`; `LazyDaPoints::save` has the same shape); ring edaBits persist the
  cursor at P2 only (`edabits.rs:1456`), after which plans differ as well; P1's daBits are
  reused after a kill (`dabits.rs:345`).
* `OverflowDivisor` (`Tracer`): for the minimum divided by -1, `to_lookup_output` of
  `VirtualChangeDivisor` compares a zero-extended divisor with -1
  (`virtual_change_divisor.rs:33`, `60-66`) and yields the divisor where the emulator
  wrote 1; the constraint that rd is the lookup output fails.
* `DivisorInputs` (`Tracer`): `VirtualChangeDivisorW` takes truncated instruction inputs
  (`virtual_change_divisor_w.rs:30`), which the constraints equate with the whole registers
  (`constraints.rs:277-301`); they fail for negative operands of `DIVW` and `REMW`.
* `Unadvised` (`Tracer`): a division with x0 as destination is traced by its plain
  sequence (`jolt-tracer/src/instruction/mod.rs:540`), which nobody gave the advice that
  `DIV::trace` fills in, and `VirtualAdvice` panics.
* x0 (`ReadsSeeTracedWrites` leaves it out): an instruction with rd = x0 inside a sequence
  is traced with a nonzero write to x0, which the comment at
  `jolt-tracer/src/instruction/mod.rs:538` rules out.
* `BorrowMisread` (`Inlines`): the Montgomery inline tests its borrow with
  `SLTU(.., 1)` in the register form (`mont_mul/sequence_builder.rs`), which compares with
  register x1; the result is wrong for every product whose last subtraction that decides.
* `Misread` (`ReadRaf`): on shared indices the suffix of `VirtualXORROT` rotates within
  the ring of the suffix (`suffixes/bitwise.rs:122-141`, where `xor_rot.rs:12` rotates 64
  bits), the left shift of `VirtualRotrW` counts leading ones over 32 bits in suffixes that
  are shorter, and `VirtualRev8W` drops the upper word. `suffixes/mod.rs:4` calls them the
  "MPC equivalent" of jolt-core's.
* `IncrementsBudgetedElsewhere` (`ReadRaf`): in a 64-bit build the increments take 128-bit
  edaBits (`witness.rs:1167`, `1172`) and are budgeted under 64 bits
  (`preprocessing.rs:194`, doc at `88`), so a trace of identity lookups can exhaust the
  128-bit source. The daBits of lookup outputs (`future_ring.rs:383`) have no term of
  their own either; the worst table's suffixes leave enough of them.
* `Diverges` (`SharedTrace`): in a 64-bit build `VirtualMovsign`,
  `VirtualAssertValidDiv0`, `VirtualRev8W` and `VirtualROTRI` use 32-bit constants.
  `WitnessMirrorsVanilla` leaves out the instruction inputs of `VirtualChangeDivisorW` and
  `VirtualPow2I` and the index of the former.
* `calculate_advice_memory_evaluation` (`jolt-core/src/zkvm/ram/mod.rs:104`) reads
  block bits in the order opposite to the point's; the zk build does not use it.
* Settings: `NETWORK_FORKS` and `MPC_FORK_BULK_CHANNELS` default to 4 and 1 in the
  code, 8 and 0 in `provia-worker/SETTINGS.md`.

## 7. Plan

Every safety property of `LazyEdaBits`, `PoolLifecycle`, `Channel` and `Session` that a run
checks has a theorem. Proofs next: `TranscriptsAgree` of `ProveDag`, whose
stages are data of recursive operators and would first have to be written as
functions.

Worth modelling next: several workers per party (`extend`, `trim`, subnets) in
`Session`, and the 64-bit decoder of the tracer.

## 8. Not modelled

Round polynomials of the sumchecks other than read-RAF, curve arithmetic and the
Dory and BlindFold arguments (out of TLC's reach; their messages and order are in
`ProveDag`); the vanilla prover of `jolt-core` where ProviaVM replaces it; CSRs,
privilege modes, traps, page tables and devices of the emulator, and instruction
decoding; the bodies of the hash inlines beyond register discipline and rotations;
feature `reuse-preproc`, in-memory stores, write-back order after power loss;
segment plans of the edaBit transfer; the non-prefetching bulk channel; TLS bridge,
attestation, configuration, SDK, macros (I/O and code generation); the budget's terms of
feature `ring-msm`; the slabs in which witness generation casts operands. Not called by any part of the
repository and left out of `Rep3Calls`: `pow_public`, `r2f_preproc_many`,
`shift_l_public_by_shared`. The kinds of `ring-msm` are in
`PoolLifecycle` and its theorems but in no run of it; the validation of the daPoints'
column count is not modelled.
