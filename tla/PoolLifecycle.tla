--------------------------- MODULE PoolLifecycle ---------------------------
(***************************************************************************)
(* The preprocessing pools of the three parties across the iterations of   *)
(* the workers' prove loop.  Every party decides from its own directory,   *)
(* without asking the others, whether to generate a pool, to extend it or  *)
(* to use what is left, and takes items at its own pace; generation and    *)
(* extension are protocols that all three must run together.  A source is  *)
(* its header: generation of the seeds, total and cursor (the contents of  *)
(* the files are the subject of LazyEdaBits).                              *)
(*                                                                         *)
(* The kinds of source differ in when they make their cursor durable:      *)
(*   EdaBits    LazyEdaBits        DaBits   LazyDaBits                     *)
(*   RandOhvs   LazyRandOhvs       RingEda  LazyEdaBitsRing                *)
(*   WrapMasks  LazyWrapMasks      DaPoints LazyDaPoints                   *)
(* A build has the first three; feature ring-msm adds the other three.     *)
(* Feature reuse-preproc is off.                                           *)
(***************************************************************************)
EXTENDS Sums, FiniteSets

CONSTANTS
  Kinds,      \* the kinds of source the build uses
  Programs,   \* the takes of a proof, in program order: sequences of
              \* [kind, n]; every party runs the same program
  Budget(_),  \* compute_edabit_budget: items of each kind set aside for a program
  MaxItems,   \* bound: items of one generation
  MaxGen,     \* bound: generations of seeds
  MaxFaults   \* bound: aborts of the three workers

Party == 0..2

BaseKinds == {"EdaBits", "DaBits", "RandOhvs"}
AllKinds == BaseKinds \cup {"RingEda", "WrapMasks", "DaPoints"}

ASSUME KindsAssumption == BaseKinds \subseteq Kinds /\ Kinds \subseteq AllKinds
ASSUME ProgramsAssumption == Programs \subseteq Seq([kind : Kinds, n : Nat \ {0}])
\* What the takes of a program add up to.  The budget, a bound that is computed from
\* the trace length alone, must cover it (WithinBudget in ReadRaf).
Needs(prog, k) == [i \in 1..Len(prog) |-> IF prog[i].kind = k THEN prog[i].n ELSE 0]
ASSUME BudgetAssumption ==
  \A prog \in Programs \cup {<<>>} :
    /\ Budget(prog) \in [Kinds -> Nat]
    /\ \A k \in Kinds : Total(Needs(prog, k)) <= Budget(prog)[k]
ASSUME BoundsAssumption == MaxItems \in Nat /\ MaxGen \in Nat /\ MaxFaults \in Nat

VARIABLES
  disk,     \* disk[p][k]: the header of source k in party p's directory
  mem,      \* mem[p][k]: the source object of party p
  pc,       \* pc[p]: where party p is in its loop
  program,  \* the takes of the current proof
  plan,     \* plan[p]: what p decided to preprocess
  step,     \* step[p]: takes done in this proof
  log,      \* history: log[p], the items p used in this proof, in order
  used,     \* history: used[p], items p used in earlier proofs
  lost,     \* history: lost[p], those whose last use p's directory does not record
  gens,     \* generations of seeds so far
  faults,   \* aborts so far
  torn      \* history: a window of AtRisk was hit, or ring edaBits were used

vars == <<disk, mem, pc, program, plan, step, log, used, lost, gens, faults, torn>>

-----------------------------------------------------------------------------
(* The kinds *)

\* Fault: only P2 makes its cursor durable when items are taken.
PersistsOnTakeP2(k, p) == p = 2

\* take_batch calls persist_cursor.
PersistsOnTake(k, p) ==
  CASE k = "DaBits"  -> p # 1
    [] k = "RingEda" -> p = 2
    [] OTHER -> TRUE

\* Fault: LazyDaBits does not implement Drop.
PersistsOnDropNoDaBits(k) == k \in {"EdaBits", "RandOhvs"}

\* The type implements Drop.
PersistsOnDrop(k) == k \in {"EdaBits", "DaBits", "RandOhvs"}

\* Fault: saving a source for the first time does not record its path.
SaveSetsNoPath(k) == FALSE

\* save records the header's path in the object; without it persist_cursor
\* does nothing.
SaveSetsPath(k) == k \notin {"RandOhvs", "DaPoints"}

\* load takes a missing header for an empty source.
EmptyIfMissing(k) == k \notin {"EdaBits", "DaBits"}

\* A deficit is met by a new source of the full size, not by appending.
Replaced(k) == k \in {"RingEda", "WrapMasks", "DaPoints"}

\* Feature ring-msm: the worker saves the pool in every iteration.
RingMsm == \E k \in Kinds : Replaced(k)

-----------------------------------------------------------------------------
(* Headers, sources and budgets *)

Missing == [st |-> "missing", gen |-> 0, total |-> 0, cursor |-> 0]
Torn == [st |-> "torn", gen |-> 0, total |-> 0, cursor |-> 0]

NoSource == [gen |-> 0, total |-> 0, cursor |-> 0, path |-> FALSE]
NoPlan == [made |-> FALSE, fresh |-> FALSE, deficit |-> [k \in Kinds |-> 0]]

Loaded(h) == [gen |-> h.gen, total |-> h.total, cursor |-> h.cursor, path |-> h.st = "ok"]

\* Fault: what was taken still counts.
RemainingAll(s) == s.total

\* remaining of the sources.
Remaining(s) == s.total - s.cursor

\* Fault: the subtraction does not saturate.
PlainSub(a, b) == a - b

SaturatingSub(a, b) == IF a <= b THEN 0 ELSE a - b

\* update_cursor: patches a readable header, fails silently otherwise.
Patch(h, s) == IF s.path /\ h.st = "ok" THEN [h EXCEPT !.cursor = s.cursor] ELSE h

LoadSucceeds(d) == \A k \in Kinds : d[k].st = "ok" \/ (EmptyIfMissing(k) /\ d[k].st = "missing")

\* PreprocessingPool::load of the directory d, and what then has to be generated.
EmptyPool == [k \in Kinds |-> NoSource]
LoadPool(d) == IF LoadSucceeds(d) THEN [k \in Kinds |-> Loaded(d[k])] ELSE EmptyPool
PlanFor(d, prog) ==
  [made |-> TRUE,
   fresh |-> ~LoadSucceeds(d),
   deficit |-> IF LoadSucceeds(d)
               THEN [k \in Kinds |-> SaturatingSub(Budget(prog)[k], Remaining(Loaded(d[k])))]
               ELSE Budget(prog)]

-----------------------------------------------------------------------------

Init ==
  /\ disk = [p \in Party |-> [k \in Kinds |-> Missing]]
  /\ mem = [p \in Party |-> EmptyPool]
  /\ pc = [p \in Party |-> "idle"]
  /\ program = <<>>
  /\ plan = [p \in Party |-> NoPlan]
  /\ step = [p \in Party |-> 0]
  /\ log = [p \in Party |-> <<>>]
  /\ used = [p \in Party |-> {}]
  /\ lost = [p \in Party |-> {}]
  /\ gens = 0
  /\ faults = 0
  /\ torn = FALSE

\* The user's job reaches all workers (sync_with_coordinator): the trace
\* length, hence the program and the budget, is the same for all.
NewJob(prog) ==
  /\ \A p \in Party : pc[p] = "idle"
  /\ gens < MaxGen
  /\ \A p \in Party, k \in Kinds : disk[p][k].cursor + Budget(prog)[k] <= MaxItems
  /\ program' = prog
  /\ pc' = [p \in Party |-> "start"]
  /\ step' = [p \in Party |-> 0]
  /\ log' = [p \in Party |-> <<>>]
  /\ plan' = [p \in Party |-> NoPlan]
  /\ UNCHANGED <<disk, mem, used, lost, gens, faults, torn>>

AwaitUser == (\A p \in Party : pc[p] = "idle") /\ UNCHANGED vars

\* PreprocessingPool::load and the deficits, computed by each party alone.
Plan(p) ==
  /\ pc[p] = "start"
  /\ mem' = [mem EXCEPT ![p] = LoadPool(disk[p])]
  /\ plan' = [plan EXCEPT ![p] = PlanFor(disk[p], program)]
  /\ pc' = [pc EXCEPT ![p] = "planned"]
  /\ UNCHANGED <<disk, program, step, log, used, lost, gens, faults, torn>>

AllPlanned == \A p \in Party : pc[p] = "planned"
SamePlans == \A p, q \in Party : plan[p] = plan[q]
NothingToDo(pl) == ~pl.fresh /\ \A k \in Kinds : pl.deficit[k] = 0

\* preprocess_pool / extend_pool_batched and the ring-msm block after them,
\* run by the three parties in step; then every party saves its pool.  An
\* extension keeps the seeds; one-hot vectors can be added to an empty source.
Generated(s, k, pl, g) ==
  CASE pl.fresh -> [gen |-> g, total |-> pl.deficit[k], cursor |-> 0, path |-> FALSE]
    [] ~pl.fresh /\ pl.deficit[k] = 0 -> s
    [] ~pl.fresh /\ pl.deficit[k] > 0 /\ Replaced(k) ->
         [gen |-> g, total |-> pl.deficit[k] + Remaining(s), cursor |-> 0, path |-> FALSE]
    [] ~pl.fresh /\ pl.deficit[k] > 0 /\ ~Replaced(k) ->
         [s EXCEPT !.gen = IF @ = 0 THEN g ELSE @, !.total = @ + pl.deficit[k]]

Preprocess ==
  /\ AllPlanned
  /\ SamePlans
  /\ ~NothingToDo(plan[0])
  /\ gens' = gens + 1
  /\ mem' = [p \in Party |-> [k \in Kinds |-> Generated(mem[p][k], k, plan[p], gens + 1)]]
  /\ pc' = [p \in Party |-> "saving"]
  /\ UNCHANGED <<disk, program, plan, step, log, used, lost, faults, torn>>

\* "reusing cached preprocessing".
Reuse(p) ==
  /\ pc[p] = "planned"
  /\ NothingToDo(plan[p])
  /\ pc' = [pc EXCEPT ![p] = IF RingMsm THEN "saving" ELSE "proving"]
  /\ UNCHANGED <<disk, mem, program, plan, step, log, used, lost, gens, faults, torn>>

\* PreprocessingPool::save: the header of every source is written.
Header(m) == [st |-> "ok", gen |-> m.gen, total |-> m.total, cursor |-> m.cursor]

Saved(m, k) == [m EXCEPT !.path = @ \/ SaveSetsPath(k)]

Save(p) ==
  /\ pc[p] = "saving"
  /\ disk' = [disk EXCEPT ![p] = [k \in Kinds |-> Header(mem[p][k])]]
  /\ mem' = [mem EXCEPT ![p] = [k \in Kinds |-> Saved(mem[p][k], k)]]
  /\ pc' = [pc EXCEPT ![p] = "proving"]
  /\ UNCHANGED <<program, plan, step, log, used, lost, gens, faults, torn>>

\* take_batch: the next n items of source s, of kind k.
Batch(s, k, n) == {<<k, s.gen, i>> : i \in s.cursor .. s.cursor + n - 1}
Advanced(s, n) == [s EXCEPT !.cursor = @ + n]

\* The next take of the program.
Take(p) ==
  /\ pc[p] = "proving"
  /\ step[p] < Len(program)
  /\ LET k == program[step[p] + 1].kind
         n == program[step[p] + 1].n
         s == Advanced(mem[p][k], n)
     IN  /\ s.cursor <= s.total
         /\ mem' = [mem EXCEPT ![p][k] = s]
         /\ disk' = [disk EXCEPT ![p][k] = IF PersistsOnTake(k, p) THEN Patch(@, s) ELSE @]
         /\ log' = [log EXCEPT ![p] = Append(@, Batch(mem[p][k], k, n))]
  /\ step' = [step EXCEPT ![p] = @ + 1]
  /\ UNCHANGED <<pc, program, plan, used, lost, gens, faults, torn>>

Dropped(p) == [k \in Kinds |-> IF PersistsOnDrop(k) THEN Patch(disk[p][k], mem[p][k])
                                                  ELSE disk[p][k]]

LoggedItems(p) == UNION {log[p][i] : i \in DOMAIN log[p]}

(* What a party's directory does not record.  LazyRandOhvs and LazyDaPoints    *)
(* do not keep the path of the header they are first saved to, so the process *)
(* that creates such a source never patches its cursor; a ring edaBit source  *)
(* patches it at P2 only; the daBits of P1 patch it only when they are        *)
(* dropped.                                                                   *)

\* The source was created in this iteration of the loop, not loaded.
Created(p, k) == ~NothingToDo(plan[p]) /\ mem[p][k].gen = gens

Unrecorded(p, k, kill) ==
  \/ k \in {"RandOhvs", "DaPoints"} /\ Created(p, k)
  \/ k = "RingEda" /\ p # 2
  \/ k = "DaBits" /\ p = 1 /\ kill

UsedAfter(p) == used[p] \cup LoggedItems(p)
LostAfter(p, kill) ==
  (lost[p] \ LoggedItems(p)) \cup {x \in LoggedItems(p) : Unrecorded(p, x[1], kill)}

\* Ring edaBits were used: the cursors of the three directories part.
RingTaken(p) == \E i \in 1..step[p] : program[i].kind = "RingEda"

\* The proof is done; the pool goes out of scope.
Finish(p) ==
  /\ pc[p] = "proving"
  /\ step[p] = Len(program)
  /\ disk' = [disk EXCEPT ![p] = Dropped(p)]
  /\ mem' = [mem EXCEPT ![p] = EmptyPool]
  /\ pc' = [pc EXCEPT ![p] = "idle"]
  /\ used' = [used EXCEPT ![p] = UsedAfter(p)]
  /\ lost' = [lost EXCEPT ![p] = LostAfter(p, FALSE)]
  /\ torn' = (torn \/ RingTaken(p))
  /\ UNCHANGED <<program, plan, step, log, gens, faults>>

-----------------------------------------------------------------------------
(* Aborts.  When one worker dies the others' connections break and they end *)
(* with an error; each is either killed or drops its pool.  The sources are *)
(* saved in parallel, so a kill during pool.save finds any of their headers *)
(* still the old one, truncated, or already new; a fresh pool is saved for  *)
(* the first time while its replaced kinds are still empty.  (One choice is *)
(* made for all parties killed while saving: after such an abort only       *)
(* properties of single parties are claimed.)                               *)

\* The directories of the three parties may disagree after an abort here.
AtRisk(killed) ==
  \/ \E p \in Party : pc[p] = "saving"
  \/ \E p, q \in Party : step[p] # step[q]
  \/ /\ 1 \in killed
     /\ pc[1] = "proving"
     /\ \E i \in 1..step[1] : program[i].kind = "DaBits"
  \/ \E p \in Party : RingTaken(p)

\* All workers are gone: those not killed have dropped their pools.
AllDown(killed) ==
  /\ used' = [p \in Party |-> IF pc[p] = "idle" THEN used[p] ELSE UsedAfter(p)]
  /\ lost' = [p \in Party |-> IF pc[p] = "idle" THEN lost[p] ELSE LostAfter(p, p \in killed)]
  /\ pc' = [p \in Party |-> "idle"]
  /\ mem' = [p \in Party |-> EmptyPool]
  /\ plan' = [p \in Party |-> NoPlan]
  /\ step' = [p \in Party |-> 0]
  /\ log' = [p \in Party |-> <<>>]
  /\ UNCHANGED <<program, gens>>

Cut(p, how) ==
  [k \in Kinds |-> CASE how[k] = "old"  -> disk[p][k]
                    [] how[k] = "torn" -> Torn
                    [] how[k] = "new"  -> Header(mem[p][k])
                    [] how[k] = "blank" -> IF plan[p].fresh THEN Header(NoSource)
                                           ELSE disk[p][k]]

\* The choice only matters if a party is saving.
CutChoices ==
  IF \E p \in Party : pc[p] = "saving"
  THEN {how \in [Kinds -> {"old", "torn", "new", "blank"}] :
          \A k \in Kinds : how[k] = "blank" => Replaced(k)}
  ELSE {[k \in Kinds |-> "old"]}

Abort(killed, how) ==
  /\ \E p \in Party : pc[p] # "idle"
  /\ \A p \in Party : pc[p] = "saving" => p \in killed
  /\ faults < MaxFaults
  /\ faults' = faults + 1
  /\ disk' = [p \in Party |->
       CASE p \notin killed -> Dropped(p)
         [] p \in killed /\ pc[p] = "saving" -> Cut(p, how)
         [] OTHER -> disk[p]]
  /\ torn' = (torn \/ AtRisk(killed))
  /\ AllDown(killed)

InJob == {p \in Party : plan[p].made}

\* Parties with different plans exchange messages that do not match: the run
\* is lost and the workers end with an error.
Desynchronised ==
  /\ \E p \in Party : pc[p] # "idle"
  /\ \A p \in Party : pc[p] \notin {"start", "saving"}
  /\ \E p, q \in InJob : plan[p] # plan[q]
  /\ disk' = [p \in Party |-> Dropped(p)]
  /\ AllDown({})
  /\ UNCHANGED <<faults, torn>>

Next ==
  \/ AwaitUser
  \/ \E prog \in Programs : NewJob(prog)
  \/ \E p \in Party : Plan(p) \/ Reuse(p) \/ Save(p) \/ Take(p) \/ Finish(p)
  \/ Preprocess
  \/ \E killed \in SUBSET Party, how \in CutChoices : Abort(killed, how)
  \/ Desynchronised

Spec == Init /\ [][Next]_vars

-----------------------------------------------------------------------------
(* Properties *)

\* Types of all variables.
TypeOK ==
  /\ disk \in [Party -> [Kinds -> [st : {"missing", "torn", "ok"}, gen : Nat, total : Nat,
                                   cursor : Nat]]]
  /\ mem \in [Party -> [Kinds -> [gen : Nat, total : Nat, cursor : Nat, path : BOOLEAN]]]
  /\ pc \in [Party -> {"idle", "start", "planned", "saving", "proving"}]
  /\ program \in Programs \cup {<<>>}
  /\ plan \in [Party -> [made : BOOLEAN, fresh : BOOLEAN, deficit : [Kinds -> Nat]]]
  /\ step \in [Party -> Nat]
  /\ log \in [Party -> Seq(SUBSET (Kinds \X Nat \X Nat))]
  /\ used \in [Party -> SUBSET (Kinds \X Nat \X Nat)]
  /\ lost \in [Party -> SUBSET (Kinds \X Nat \X Nat)]
  /\ gens \in Nat
  /\ faults \in Nat
  /\ torn \in BOOLEAN

\* prove_loop: the parties decide alone what to preprocess, and must decide
\* the same ("Callers must invoke this function in the same order on all
\* parties"), unless an abort has hit one of the windows of AtRisk.
PlansAgree == ~torn => \A p, q \in InJob : plan[p] = plan[q]

\* The i-th take of a proof uses the same items at all parties: the shares
\* they combine belong together.
Aligned ==
  ~torn => \A p, q \in Party : \A i \in DOMAIN log[p] \cap DOMAIN log[q] :
             log[p][i] = log[q][i]

\* take_batch never finds its source exhausted: what a party has planned alone,
\* from its own directory, covers every take of the proof, whatever aborts
\* happened before.
NeverExhausted ==
  \A p \in Party : pc[p] = "proving" /\ step[p] < Len(program) =>
    LET take == program[step[p] + 1]
        s == mem[p][take.kind]
    IN  s.cursor + take.n <= s.total

\* No item a party used in an earlier proof, completed or aborted, is used again
\* ("re-using preprocessing randomness breaks security") unless its last use is one of
\* those the code leaves unrecorded, and none is used twice in one proof.
NeverReused ==
  \A p \in Party :
    /\ pc[p] = "proving" => LoggedItems(p) \cap used[p] \subseteq lost[p]
    /\ \A i, j \in DOMAIN log[p] : i # j => log[p][i] \cap log[p][j] = {}
=============================================================================
