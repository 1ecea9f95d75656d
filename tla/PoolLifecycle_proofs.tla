------------------------ MODULE PoolLifecycle_proofs ------------------------
(***************************************************************************)
(* Proofs about PoolLifecycle, for every set of kinds, every program and   *)
(* every number of aborts.                                                 *)
(***************************************************************************)
EXTENDS PoolLifecycle, Sums_proofs

-----------------------------------------------------------------------------
(* Each party by itself *)

\* What the first i takes of the program use of kind k.
Used(k, i) == Partial(Needs(program, k))[i]

\* What a party's place in the loop says of its pool, its plan and its log.
StageInv(p) ==
  /\ step[p] <= Len(program)
  /\ pc[p] \in {"idle", "start"} => mem[p] = EmptyPool
  /\ pc[p] = "start" => plan[p] = NoPlan
  /\ pc[p] \in {"start", "planned", "saving"} => step[p] = 0 /\ log[p] = <<>>
  /\ pc[p] = "planned" => mem[p] = LoadPool(disk[p]) /\ plan[p] = PlanFor(disk[p], program)
  /\ pc[p] \in {"saving", "proving"} =>
       \A k \in Kinds : Budget(program)[k] - Used(k, step[p]) <= Remaining(mem[p][k])

\* While a proof runs, the header describes the source in memory, except for a
\* cursor that is not made durable.
HeaderInv(p, k) ==
  /\ disk[p][k].cursor <= disk[p][k].total /\ disk[p][k].gen <= gens
  /\ disk[p][k].st = "missing" => disk[p][k] = Missing
  /\ mem[p][k].cursor <= mem[p][k].total /\ mem[p][k].gen <= gens
  /\ pc[p] = "proving" =>
       \/ /\ disk[p][k].st = "ok"
          /\ disk[p][k].gen = mem[p][k].gen /\ disk[p][k].total = mem[p][k].total
          /\ disk[p][k].cursor <= mem[p][k].cursor
          /\ SaveSetsPath(k) => mem[p][k].path
          /\ mem[p][k].path /\ PersistsOnTake(k, p) => disk[p][k].cursor = mem[p][k].cursor
       \/ disk[p][k].st = "missing" /\ mem[p][k] = NoSource
  /\ pc[p] \in {"saving", "proving"} =>
       Created(p, k) \/ mem[p][k].path \/ mem[p][k].total = 0

\* The items of the proof lie behind the cursor, in disjoint ranges.
LogInv(p) ==
  /\ pc[p] = "proving" =>
       \A i \in DOMAIN log[p] : \A x \in log[p][i] :
         x[2] = mem[p][x[1]].gen /\ x[3] < mem[p][x[1]].cursor
  /\ \A i, j \in DOMAIN log[p] : i # j => log[p][i] \cap log[p][j] = {}

\* A source that has items has a generation of its own.
Stamped(k, s) == ~EmptyIfMissing(k) \/ s.total > 0 => s.gen >= 1

\* What was used lies behind the cursor, durable or in memory, of its generation, unless
\* its last use went unrecorded.
UseInv(p, k) ==
  /\ disk[p][k].st = "ok" => Stamped(k, disk[p][k])
  /\ pc[p] \in {"saving", "proving"} => Stamped(k, mem[p][k])
  /\ \A x \in used[p] : x[1] = k => x[2] \in 1..gens
  /\ \A x \in used[p] \ lost[p] : x[1] = k =>
       /\ x[2] = disk[p][k].gen => x[3] < disk[p][k].cursor
       /\ x[2] = mem[p][k].gen => x[3] < mem[p][k].cursor
  /\ pc[p] = "proving" =>
       \A x \in LoggedItems(p) : x[1] = k => x \notin used[p] \ lost[p] /\ x[2] >= 1

PartyOK(p) ==
  /\ StageInv(p) /\ LogInv(p)
  /\ \A k \in Kinds : HeaderInv(p, k) /\ UseInv(p, k)

PartyInv == TypeOK /\ \A p \in Party : PartyOK(p)

-----------------------------------------------------------------------------
(* Programs, budgets and plans *)

Headers == [st : {"missing", "torn", "ok"}, gen : Nat, total : Nat, cursor : Nat]
Sources == [gen : Nat, total : Nat, cursor : Nat, path : BOOLEAN]
Plans == [made : BOOLEAN, fresh : BOOLEAN, deficit : [Kinds -> Nat]]
Items == Kinds \X Nat \X Nat
Takes == [kind : Kinds, n : Nat \ {0}]

\* The parts of TypeOK.
LEMMA Types ==
  TypeOK <=>
    /\ disk \in [Party -> [Kinds -> Headers]]
    /\ mem \in [Party -> [Kinds -> Sources]]
    /\ pc \in [Party -> {"idle", "start", "planned", "saving", "proving"}]
    /\ program \in Programs \cup {<<>>}
    /\ plan \in [Party -> Plans]
    /\ step \in [Party -> Nat]
    /\ log \in [Party -> Seq(SUBSET Items)]
    /\ used \in [Party -> SUBSET Items] /\ lost \in [Party -> SUBSET Items]
    /\ gens \in Nat /\ faults \in Nat /\ torn \in BOOLEAN
BY DEF TypeOK, Headers, Sources, Plans, Items

\* The same of the next state.
LEMMA TypesNext ==
  ASSUME /\ disk' \in [Party -> [Kinds -> Headers]]
         /\ mem' \in [Party -> [Kinds -> Sources]]
         /\ pc' \in [Party -> {"idle", "start", "planned", "saving", "proving"}]
         /\ program' \in Programs \cup {<<>>}
         /\ plan' \in [Party -> Plans]
         /\ step' \in [Party -> Nat]
         /\ log' \in [Party -> Seq(SUBSET Items)]
         /\ used' \in [Party -> SUBSET Items] /\ lost' \in [Party -> SUBSET Items]
         /\ gens' \in Nat /\ faults' \in Nat /\ torn' \in BOOLEAN
  PROVE  TypeOK'
BY DEF TypeOK, Headers, Sources, Plans, Items

\* Every program is a sequence of takes.
LEMMA JobType ==
  ASSUME NEW prog \in Programs \cup {<<>>}
  PROVE  prog \in Seq(Takes)
<1>1. Programs \subseteq Seq(Takes)
  BY ProgramsAssumption, Zenon DEF Takes
<1>2. <<>> \in Seq(Takes)
  OBVIOUS
<1>. QED  BY <1>1, <1>2

\* The job a party proves is one of them.
LEMMA ProgramType == TypeOK => program \in Seq(Takes) /\ program \in Programs \cup {<<>>}
BY JobType, Types

\* What each take of a program asks for of a kind is a number, and is what the take says.
LEMMA NeedsType ==
  ASSUME NEW prog \in Seq(Takes), NEW k \in Kinds
  PROVE  /\ Needs(prog, k) \in Seq(Nat) /\ Needs(prog, k) \in Seq(Int)
         /\ Len(Needs(prog, k)) = Len(prog)
         /\ \A i \in 1..Len(prog) :
              Needs(prog, k)[i] = IF prog[i].kind = k THEN prog[i].n ELSE 0
<1>1. Len(prog) \in Nat /\ \A i \in 1..Len(prog) : prog[i] \in Takes
  OBVIOUS
<1>2. \A t \in Takes : t.n \in Nat
  BY DEF Takes
<1>. QED  BY <1>1, <1>2 DEF Needs

\* The budget of a program is a number of items for each kind, which covers its takes.
LEMMA BudgetType ==
  ASSUME NEW prog \in Programs \cup {<<>>}
  PROVE  /\ Budget(prog) \in [Kinds -> Nat]
         /\ \A k \in Kinds : Budget(prog)[k] \in Nat
                              /\ Partial(Needs(prog, k))[Len(prog)] <= Budget(prog)[k]
<1>1. ASSUME NEW k \in Kinds
      PROVE  Total(Needs(prog, k)) = Partial(Needs(prog, k))[Len(prog)]
  BY JobType, NeedsType DEF Total
<1>. QED  BY <1>1, BudgetAssumption

\* The takes up to i use what those before used and what the i-th takes, and
\* all of them together the budget.
LEMMA UsedSteps ==
  ASSUME TypeOK, NEW k \in Kinds
  PROVE  /\ Used(k, 0) = 0
         /\ \A i \in 0..Len(program) : Used(k, i) \in Nat /\ Used(k, i) <= Budget(program)[k]
         /\ \A i \in 0..Len(program) - 1 :
              Used(k, i + 1) = Used(k, i) + (IF program[i + 1].kind = k THEN program[i + 1].n ELSE 0)
<1>. DEFINE f == Needs(program, k)  L == Len(program)
<1>1. program \in Seq(Takes) /\ L \in Nat /\ program \in Programs \cup {<<>>}
  BY ProgramType
<1>2. f \in Seq(Nat) /\ f \in Seq(Int) /\ Len(f) = L
      /\ \A i \in 1..L : f[i] = IF program[i].kind = k THEN program[i].n ELSE 0
  BY <1>1, NeedsType
<1>3. Budget(program)[k] \in Nat /\ Partial(f)[L] <= Budget(program)[k]
  BY <1>1, BudgetType
<1>. HIDE DEF f, L
<1>4. /\ Partial(f) \in [0 .. L -> Nat]
      /\ \A m, n \in 0 .. L : m <= n => Partial(f)[m] <= Partial(f)[n]
  BY <1>2, PartialNat
<1>5. Partial(f)[0] = 0 /\ \A n \in 1 .. L : Partial(f)[n] = Partial(f)[n - 1] + f[n]
  BY <1>2, PartialDef
<1>6. ASSUME NEW i \in 0..L
      PROVE  Partial(f)[i] \in Nat /\ Partial(f)[i] <= Budget(program)[k]
  <2>1. L \in 0..L /\ i <= L
    BY <1>1
  <2>. QED  BY <1>3, <1>4, <2>1
<1>7. ASSUME NEW i \in 0..L - 1
      PROVE  Partial(f)[i + 1] = Partial(f)[i]
                                   + (IF program[i + 1].kind = k THEN program[i + 1].n ELSE 0)
  <2>1. i + 1 \in 1..L /\ (i + 1) - 1 = i
    BY <1>1
  <2>. QED  BY <1>2, <1>5, <2>1
<1>. QED  BY <1>5, <1>6, <1>7 DEF Used, f, L

\* Programs that take nothing of kind k use nothing of it.
LEMMA UsedNothing ==
  ASSUME TypeOK, NEW k \in Kinds, NEW i \in 0..Len(program),
         \A j \in 1..i : program[j].kind # k
  PROVE  Used(k, i) = 0
<1>. DEFINE f == Needs(program, k)
<1>1. program \in Seq(Takes) /\ Len(program) \in Nat
  BY ProgramType
<1>2. f \in Seq(Int) /\ Len(f) = Len(program) /\ \A j \in 1..i : f[j] = 0
  BY <1>1, NeedsType
<1>3. i \in 0..Len(f)
  BY <1>2
<1>. HIDE DEF f
<1>4. Partial(f)[i] = 0
  BY <1>2, <1>3, PartialZero
<1>. QED  BY <1>4 DEF Used, f

\* A header read back describes a source.
LEMMA LoadedType ==
  ASSUME NEW h \in Headers
  PROVE  Loaded(h) \in Sources
BY DEF Loaded, Headers, Sources

\* Loading keeps the generation, the total and the cursor of the header.
LEMMA LoadedFields ==
  ASSUME NEW h
  PROVE  /\ Loaded(h).gen = h.gen /\ Loaded(h).total = h.total /\ Loaded(h).cursor = h.cursor
         /\ Loaded(h).path <=> h.st = "ok"
BY DEF Loaded

\* An empty source has nothing left, and no file.
LEMMA NoSourceFields ==
  /\ NoSource.gen = 0 /\ NoSource.total = 0 /\ NoSource.cursor = 0 /\ NoSource.path = FALSE
  /\ Missing.gen = 0 /\ Missing.total = 0 /\ Missing.cursor = 0 /\ Missing.st = "missing"
  /\ Torn.gen = 0 /\ Torn.total = 0 /\ Torn.cursor = 0 /\ Torn.st = "torn"
  /\ NoSource \in Sources /\ Missing \in Headers /\ Torn \in Headers
  /\ Loaded(Missing) = NoSource
BY DEF NoSource, Missing, Torn, Sources, Headers, Loaded

\* The pool of a party that has loaded nothing is a pool.
LEMMA EmptyPoolType == NoSource \in Sources /\ EmptyPool \in [Kinds -> Sources]
BY DEF EmptyPool, NoSource, Sources

\* What is loaded from a directory is a pool.
LEMMA PoolType ==
  ASSUME NEW d \in [Kinds -> Headers]
  PROVE  LoadPool(d) \in [Kinds -> Sources]
BY LoadedType, EmptyPoolType DEF LoadPool

\* The plan made from a directory is a plan.
LEMMA PlanType ==
  ASSUME NEW d \in [Kinds -> Headers], NEW prog \in Programs \cup {<<>>}
  PROVE  PlanFor(d, prog) \in Plans
<1>1. Budget(prog) \in [Kinds -> Nat]
  BY BudgetType
<1>2. ASSUME NEW k \in Kinds
      PROVE  SaturatingSub(Budget(prog)[k], Remaining(Loaded(d[k]))) \in Nat
  <2>1. Remaining(Loaded(d[k])) \in Int
    BY LoadedType DEF Remaining, Sources
  <2>2. Budget(prog)[k] \in Nat
    BY <1>1
  <2>. QED  BY <2>1, <2>2 DEF SaturatingSub
<1>. QED  BY <1>1, <1>2 DEF PlanFor, Plans

\* The plan of a party that has not planned is a plan.
LEMMA NoPlanType == NoPlan \in Plans
BY DEF NoPlan, Plans

\* Patching the cursor of a header gives a header.
LEMMA PatchType ==
  ASSUME NEW h \in Headers, NEW s \in Sources
  PROVE  Patch(h, s) \in Headers
BY DEF Patch, Headers, Sources

\* Saving a source writes a header.
LEMMA HeaderType ==
  ASSUME NEW s \in Sources
  PROVE  Header(s) \in Headers
BY DEF Header, Headers, Sources

-----------------------------------------------------------------------------
(* Steps of one party *)

\* A party keeps its invariant when nothing of it changes.
LEMMA Untouched ==
  ASSUME NEW p, PartyOK(p), program' = program, gens' = gens,
         disk'[p] = disk[p], mem'[p] = mem[p], pc'[p] = pc[p], plan'[p] = plan[p],
         step'[p] = step[p], log'[p] = log[p], used'[p] = used[p], lost'[p] = lost[p]
  PROVE  PartyOK(p)'
<1>1. StageInv(p)' /\ LogInv(p)'
  BY DEF PartyOK, StageInv, LogInv, Used
<1>2. ASSUME NEW k \in Kinds PROVE HeaderInv(p, k)' /\ UseInv(p, k)'
  BY DEF PartyOK, HeaderInv, UseInv, LoggedItems, Created
<1>. QED  BY <1>1, <1>2 DEF PartyOK

\* A new job finds every party idle, with its directory as the last one left it.
LEMMA NewJobStep ==
  ASSUME PartyInv, NEW prog \in Programs, NewJob(prog)
  PROVE  PartyInv'
<1>. USE DEF NewJob
<1>1. TypeOK'
  <2>1. <<>> \in Seq(SUBSET Items)
    OBVIOUS
  <2>. QED  BY <2>1, Types, TypesNext, NoPlanType DEF PartyInv
<1>2. ASSUME NEW p \in Party PROVE PartyOK(p)'
  <2>1. pc[p] = "idle" /\ pc'[p] = "start" /\ step'[p] = 0 /\ log'[p] = <<>> /\ plan'[p] = NoPlan
        /\ PartyOK(p)
    BY DEF PartyInv
  <2>2. Len(program') \in Nat
    BY <1>1, ProgramType
  <2>3. StageInv(p)'
    BY <2>1, <2>2 DEF PartyOK, StageInv
  <2>4. LogInv(p)'
    BY <2>1 DEF LogInv
  <2>5. ASSUME NEW k \in Kinds PROVE HeaderInv(p, k)' /\ UseInv(p, k)'
    BY <2>1 DEF PartyOK, HeaderInv, UseInv
  <2>. QED  BY <2>3, <2>4, <2>5 DEF PartyOK
<1>. QED  BY <1>1, <1>2 DEF PartyInv

\* What a directory says about the pool loaded from it.
LEMMA LoadPoolFacts ==
  ASSUME NEW d \in [Kinds -> Headers], NEW k \in Kinds
  PROVE  \/ LoadSucceeds(d) /\ LoadPool(d)[k] = Loaded(d[k])
         \/ ~LoadSucceeds(d) /\ LoadPool(d)[k] = NoSource
BY DEF LoadPool, EmptyPool

\* Planning loads the pool and changes nothing durable.
LEMMA PlanStep ==
  ASSUME PartyInv, NEW p \in Party, Plan(p)
  PROVE  PartyInv'
<1>. USE DEF Plan
<1>0. TypeOK /\ PartyOK(p) /\ disk[p] \in [Kinds -> Headers] /\ gens \in Nat
  BY Types DEF PartyInv
<1>1. TypeOK'
  <2>1. LoadPool(disk[p]) \in [Kinds -> Sources] /\ PlanFor(disk[p], program) \in Plans
    BY <1>0, PoolType, PlanType, ProgramType
  <2>. QED  BY <1>0, <2>1, Types, TypesNext
<1>2. /\ pc'[p] = "planned" /\ mem'[p] = LoadPool(disk[p])
      /\ plan'[p] = PlanFor(disk[p], program)
  BY <1>0, Types
<1>3. StageInv(p)' /\ LogInv(p)'
  BY <1>0, <1>2 DEF PartyOK, StageInv, LogInv
<1>4. ASSUME NEW k \in Kinds PROVE HeaderInv(p, k)' /\ UseInv(p, k)'
  <2>1. /\ mem'[p][k].cursor <= mem'[p][k].total /\ mem'[p][k].gen <= gens
        /\ \/ mem'[p][k].gen = disk[p][k].gen /\ mem'[p][k].cursor = disk[p][k].cursor
           \/ mem'[p][k].gen = 0
    <3>1. mem'[p][k] = Loaded(disk[p][k]) \/ mem'[p][k] = NoSource
      BY <1>0, <1>2, LoadPoolFacts
    <3>2. HeaderInv(p, k)
      BY <1>0 DEF PartyOK
    <3>3. CASE mem'[p][k] = Loaded(disk[p][k])
      BY <3>2, <3>3, LoadedFields, SMTT(60) DEF HeaderInv
    <3>4. CASE mem'[p][k] = NoSource
      BY <1>0, <3>4, NoSourceFields
    <3>. QED  BY <3>1, <3>3, <3>4
  <2>2. HeaderInv(p, k)'
    BY <1>0, <1>2, <2>1 DEF PartyOK, HeaderInv
  <2>3. UseInv(p, k)'
    BY <1>0, <1>2, <2>1 DEF PartyOK, UseInv
  <2>. QED  BY <2>2, <2>3
<1>5. ASSUME NEW q \in Party, q # p PROVE PartyOK(q)'
  BY <1>0, <1>5, Untouched, Types DEF PartyInv
<1>. QED  BY <1>1, <1>3, <1>4, <1>5 DEF PartyInv, PartyOK

\* A party that has nothing to generate has what the program needs.
LEMMA NothingToDoFacts ==
  ASSUME NEW d \in [Kinds -> Headers], NEW prog \in Programs \cup {<<>>}, NothingToDo(PlanFor(d, prog)),
         NEW k \in Kinds
  PROVE  /\ LoadSucceeds(d) /\ LoadPool(d)[k] = Loaded(d[k])
         /\ Budget(prog)[k] <= Remaining(Loaded(d[k]))
<1>1. LoadSucceeds(d) /\ SaturatingSub(Budget(prog)[k], Remaining(Loaded(d[k]))) = 0
  BY DEF NothingToDo, PlanFor
<1>2. Budget(prog)[k] \in Nat /\ Remaining(Loaded(d[k])) \in Int
  BY BudgetType, LoadedType DEF Remaining, Sources
<1>3. Budget(prog)[k] <= Remaining(Loaded(d[k]))
  BY <1>1, <1>2 DEF SaturatingSub
<1>. QED  BY <1>1, <1>3 DEF LoadPool

\* A party that generates nothing proves with the pool it loaded.
LEMMA ReuseStep ==
  ASSUME PartyInv, NEW p \in Party, Reuse(p)
  PROVE  PartyInv'
<1>. USE DEF Reuse
<1>0. TypeOK /\ PartyOK(p) /\ disk[p] \in [Kinds -> Headers] /\ program \in Seq(Takes)
      /\ program \in Programs \cup {<<>>}
  BY Types, ProgramType DEF PartyInv
<1>1. TypeOK'
  BY <1>0, Types, TypesNext
<1>2. /\ pc'[p] \in {"saving", "proving"} /\ step[p] = 0 /\ log[p] = <<>>
      /\ mem[p] = LoadPool(disk[p]) /\ NothingToDo(PlanFor(disk[p], program))
  BY <1>0, Types DEF PartyOK, StageInv
<1>3. ASSUME NEW k \in Kinds
      PROVE  /\ mem[p][k] = Loaded(disk[p][k])
             /\ Budget(program)[k] - Used(k, step[p]) <= Remaining(mem[p][k])
             /\ disk[p][k].st = "ok" \/ (EmptyIfMissing(k) /\ disk[p][k] = Missing)
  <2>1. LoadSucceeds(disk[p]) /\ mem[p][k] = Loaded(disk[p][k])
        /\ Budget(program)[k] <= Remaining(mem[p][k])
    BY <1>0, <1>2, NothingToDoFacts
  <2>2. Used(k, step[p]) = 0 /\ Budget(program)[k] \in Nat
    BY <1>0, <1>2, UsedSteps, BudgetType
  <2>3. disk[p][k].st = "ok" \/ (EmptyIfMissing(k) /\ disk[p][k] = Missing)
    BY <1>0, <2>1 DEF LoadSucceeds, PartyOK, HeaderInv
  <2>. QED  BY <2>1, <2>2, <2>3
<1>4. StageInv(p)'
  BY <1>0, <1>2, <1>3 DEF PartyOK, StageInv, Used
<1>5. LogInv(p)'
  BY <1>0, <1>2 DEF PartyOK, LogInv
<1>6. ASSUME NEW k \in Kinds PROVE HeaderInv(p, k)' /\ UseInv(p, k)'
  <2>0. HeaderInv(p, k) /\ UseInv(p, k) /\ disk[p][k] \in Headers
    BY <1>0 DEF PartyOK
  <2>1. /\ mem[p][k].gen = disk[p][k].gen /\ mem[p][k].total = disk[p][k].total
        /\ mem[p][k].cursor = disk[p][k].cursor /\ (mem[p][k].path <=> disk[p][k].st = "ok")
        /\ disk[p][k].cursor \in Nat
    BY <1>3, <2>0, LoadedFields DEF Headers
  <2>2. HeaderInv(p, k)'
    <3>1. CASE disk[p][k].st = "ok"
      BY <2>0, <2>1, <3>1 DEF HeaderInv
    <3>2. CASE disk[p][k] = Missing
      <4>1. mem[p][k] = NoSource /\ disk[p][k].st = "missing"
        BY <1>3, <3>2, NoSourceFields
      <4>2. mem[p][k].total = 0
        BY <4>1, NoSourceFields
      <4>. QED  BY <2>0, <2>1, <4>1, <4>2 DEF HeaderInv
    <3>. QED  BY <1>3, <3>1, <3>2
  <2>3. Stamped(k, mem[p][k])
    <3>1. CASE disk[p][k].st = "ok"
      BY <2>0, <2>1, <3>1 DEF UseInv, Stamped
    <3>2. CASE EmptyIfMissing(k) /\ disk[p][k] = Missing
      <4>1. mem[p][k].total = 0
        BY <2>1, <3>2 DEF Missing
      <4>. QED  BY <3>2, <4>1 DEF Stamped
    <3>. QED  BY <1>3, <3>1, <3>2
  <2>4. LoggedItems(p)' = {}
    BY <1>2 DEF LoggedItems
  <2>5. UseInv(p, k)'
    BY <1>0, <1>2, <2>3, <2>4 DEF PartyOK, UseInv
  <2>. QED  BY <2>2, <2>5
<1>7. ASSUME NEW q \in Party, q # p PROVE PartyOK(q)'
  BY <1>0, <1>7, Untouched, Types DEF PartyInv
<1>. QED  BY <1>1, <1>4, <1>5, <1>6, <1>7 DEF PartyInv, PartyOK

\* What the kinds do with their headers.
LEMMA KindFacts ==
  ASSUME NEW k \in Kinds
  PROVE  /\ k \in {"EdaBits", "DaBits", "RandOhvs", "RingEda", "WrapMasks", "DaPoints"}
         /\ EmptyIfMissing(k) <=> k \notin {"EdaBits", "DaBits"}
         /\ Replaced(k) <=> k \in {"RingEda", "WrapMasks", "DaPoints"}
         /\ SaveSetsPath(k) <=> k \notin {"RandOhvs", "DaPoints"}
         /\ PersistsOnDrop(k) <=> k \in {"EdaBits", "DaBits", "RandOhvs"}
<1>1. k \in AllKinds
  BY KindsAssumption
<1>. QED  BY <1>1 DEF SaveSetsPath, PersistsOnDrop, AllKinds, BaseKinds, EmptyIfMissing, Replaced

\* Which takes leave the cursor of the header behind.
LEMMA LeftBehind ==
  ASSUME NEW k, NEW p, ~PersistsOnTake(k, p)
  PROVE  (k = "DaBits" /\ p = 1) \/ (k = "RingEda" /\ p # 2)
<1>1. CASE k = "DaBits"
  BY <1>1 DEF PersistsOnTake
<1>2. CASE k = "RingEda"
  BY <1>2 DEF PersistsOnTake
<1>3. CASE k # "DaBits" /\ k # "RingEda"
  BY <1>3 DEF PersistsOnTake
<1>. QED  BY <1>1, <1>2, <1>3

\* What preprocessing makes of a loaded source covers the budget, and has either
\* seeds of its own or those and the cursor of the old source.
LEMMA GeneratedFacts ==
  ASSUME NEW d \in [Kinds -> Headers], NEW prog \in Programs \cup {<<>>}, NEW k \in Kinds,
         d[k].cursor <= d[k].total, NEW g \in Nat, d[k].gen <= g,
         NEW s, s = LoadPool(d)[k],
         NEW t, t = Generated(s, k, PlanFor(d, prog), g)
  PROVE  /\ t \in Sources
         /\ t.cursor <= t.total /\ t.gen <= g
         /\ Budget(prog)[k] <= Remaining(t)
         /\ \/ t.gen = g
            \/ /\ LoadSucceeds(d) /\ t.gen = s.gen /\ t.cursor = s.cursor /\ (t.path <=> s.path)
               /\ t = s \/ t.gen # 0
<1>. DEFINE b == Budget(prog)[k]
            pl == PlanFor(d, prog)
<1>1. b \in Nat
  BY BudgetType
<1>2. CASE ~LoadSucceeds(d)
  <2>1. pl.fresh /\ pl.deficit[k] = b
    BY <1>2 DEF PlanFor
  <2>2. t = [gen |-> g, total |-> b, cursor |-> 0, path |-> FALSE]
    BY <2>1 DEF Generated
  <2>. HIDE DEF pl
  <2>. QED  BY <1>1, <2>2 DEF Sources, Remaining
<1>3. CASE LoadSucceeds(d)
  <2>1. s = Loaded(d[k]) /\ s \in Sources
    BY <1>3, LoadedType DEF LoadPool
  <2>2. s.gen = d[k].gen /\ s.total = d[k].total /\ s.cursor = d[k].cursor
    BY <2>1, LoadedFields
  <2>. DEFINE r == Remaining(s)
  <2>3. r = s.total - s.cursor /\ r \in Nat
    BY <2>1, <2>2 DEF Remaining, Sources
  <2>4. ~pl.fresh /\ pl.deficit[k] = SaturatingSub(b, r)
    BY <1>3, <2>1 DEF PlanFor
  <2>. DEFINE c == pl.deficit[k]
  <2>5. c \in Nat /\ b <= r + c
    <3>. HIDE DEF r, pl
    <3>. QED  BY <1>1, <2>3, <2>4 DEF SaturatingSub
  <2>6. /\ c = 0 => t = s
        /\ c > 0 /\ Replaced(k) => t = [gen |-> g, total |-> c + r, cursor |-> 0, path |-> FALSE]
        /\ c > 0 /\ ~Replaced(k) => t = [s EXCEPT !.gen = IF @ = 0 THEN g ELSE @,
                                                         !.total = @ + c]
    BY <2>4, <2>5 DEF Generated
  <2>. HIDE DEF r, c, pl
  <2>7. CASE c = 0
    BY <1>1, <1>3, <2>1, <2>2, <2>3, <2>5, <2>6, <2>7 DEF Remaining, r
  <2>8. CASE c > 0 /\ Replaced(k)
    <3>1. t = [gen |-> g, total |-> c + r, cursor |-> 0, path |-> FALSE]
      BY <2>6, <2>8
    <3>. QED  BY <1>1, <2>3, <2>5, <3>1 DEF Remaining, Sources
  <2>9. CASE c > 0 /\ ~Replaced(k)
    <3>1. /\ t \in Sources /\ t.gen = (IF s.gen = 0 THEN g ELSE s.gen) /\ t.cursor = s.cursor
          /\ t.total = s.total + c /\ (t.path <=> s.path)
      <4>1. t = [s EXCEPT !.gen = IF s.gen = 0 THEN g ELSE s.gen, !.total = s.total + c]
        BY <2>6, <2>9
      <4>2. (IF s.gen = 0 THEN g ELSE s.gen) \in Nat /\ s.total + c \in Nat
        BY <2>1, <2>5 DEF Sources
      <4>. QED  BY <2>1, <4>1, <4>2 DEF Sources
    <3>2. s.total \in Nat /\ s.cursor \in Nat /\ s.gen \in Nat
      BY <2>1 DEF Sources
    <3>. QED  BY <1>1, <1>3, <2>2, <2>3, <2>5, <2>9, <3>1, <3>2 DEF Remaining
  <2>. QED  BY <2>5, <2>7, <2>8, <2>9
<1>. QED  BY <1>2, <1>3 DEF b

\* Generation tops every source up to what the program needs.
LEMMA PreprocessStep ==
  ASSUME PartyInv, Preprocess
  PROVE  PartyInv'
<1>0. TypeOK /\ program \in Seq(Takes) /\ gens \in Nat /\ gens' = gens + 1 /\ gens' \in Nat
      /\ program \in Programs \cup {<<>>}
  BY Types, ProgramType DEF PartyInv, Preprocess
<1>1. ASSUME NEW p \in Party
      PROVE  /\ disk[p] \in [Kinds -> Headers] /\ PartyOK(p) /\ StageInv(p)
             /\ pc[p] = "planned" /\ pc'[p] = "saving"
             /\ step'[p] = 0 /\ log'[p] = <<>> /\ log[p] = <<>>
             /\ mem[p] = LoadPool(disk[p]) /\ plan[p] = PlanFor(disk[p], program)
  <2>1. disk[p] \in [Kinds -> Headers] /\ PartyOK(p) /\ StageInv(p)
    BY <1>0, Types DEF PartyInv, PartyOK
  <2>2. pc[p] = "planned" /\ pc'[p] = "saving" /\ step'[p] = step[p] /\ log'[p] = log[p]
    BY DEF Preprocess, AllPlanned
  <2>. QED  BY <2>1, <2>2 DEF StageInv
<1>2. ASSUME NEW p \in Party, NEW k \in Kinds
      PROVE  /\ HeaderInv(p, k) /\ UseInv(p, k)
             /\ mem'[p][k] \in Sources
             /\ mem'[p][k].cursor <= mem'[p][k].total /\ mem'[p][k].gen <= gens'
             /\ Budget(program)[k] <= Remaining(mem'[p][k])
             /\ \/ mem'[p][k].gen = gens'
                \/ /\ LoadSucceeds(disk[p]) /\ mem'[p][k].gen = mem[p][k].gen
                   /\ mem'[p][k].cursor = mem[p][k].cursor
                   /\ mem'[p][k].path <=> mem[p][k].path
                   /\ mem'[p][k] = mem[p][k] \/ mem'[p][k].gen # 0
  <2>1. HeaderInv(p, k) /\ UseInv(p, k)
    BY <1>1 DEF PartyOK
  <2>2. mem'[p][k] = Generated(mem[p][k], k, PlanFor(disk[p], program), gens + 1)
    BY <1>1 DEF Preprocess
  <2>3. disk[p][k].cursor <= disk[p][k].total /\ disk[p][k].gen <= gens + 1
    <3>1. disk[p][k].gen \in Nat
      BY <1>1 DEF Headers
    <3>. QED  BY <1>0, <2>1, <3>1 DEF HeaderInv
  <2>4. mem[p][k] = LoadPool(disk[p])[k]
    BY <1>1
  <2>. QED  BY <1>0, <1>1, <2>1, <2>2, <2>3, <2>4, GeneratedFacts
<1>3. TypeOK'
  <2>1. mem' \in [Party -> [Kinds -> Sources]]
    <3>1. mem' = [p \in Party |-> [k \in Kinds |-> mem'[p][k]]]
      BY DEF Preprocess
    <3>. QED  BY <1>2, <3>1
  <2>. QED  BY <1>0, <2>1, Types, TypesNext DEF Preprocess
<1>4. ASSUME NEW p \in Party PROVE StageInv(p)'
  <2>1. ASSUME NEW k \in Kinds
        PROVE  Budget(program')[k] - Used(k, step[p])' <= Remaining(mem'[p][k])
    <3>1. Used(k, 0) = 0 /\ Budget(program)[k] \in Nat /\ program' = program
      BY <1>0, UsedSteps, BudgetType DEF Preprocess
    <3>2. Used(k, step[p])' = Used(k, 0)
      BY <1>1, <3>1 DEF Used
    <3>. QED  BY <1>2, <3>1, <3>2
  <2>2. Len(program') \in Nat
    BY <1>0 DEF Preprocess
  <2>. QED  BY <1>1, <2>1, <2>2 DEF StageInv
<1>5. ASSUME NEW p \in Party PROVE LogInv(p)'
  BY <1>1 DEF LogInv
<1>6. ASSUME NEW p \in Party, NEW k \in Kinds PROVE HeaderInv(p, k)'
  <2>1. disk'[p][k] = disk[p][k] /\ disk[p][k].gen \in Nat
    BY <1>1 DEF Preprocess, Headers
  <2>2. Created(p, k)' \/ mem'[p][k].path \/ mem'[p][k].total = 0
    <3>1. CASE mem'[p][k].gen = gens'
      <4>1. ~NothingToDo(plan'[p])
        <5>1. plan' = plan /\ plan[p] = plan[0] /\ ~NothingToDo(plan[0])
          BY DEF Preprocess, SamePlans, Party
        <5>. QED  BY <5>1
      <4>. QED  BY <3>1, <4>1 DEF Created
    <3>2. CASE /\ LoadSucceeds(disk[p]) /\ (mem'[p][k].path <=> mem[p][k].path)
               /\ mem'[p][k].gen = mem[p][k].gen
               /\ mem'[p][k] = mem[p][k] \/ mem'[p][k].gen # 0
      <4>1. mem[p][k] = Loaded(disk[p][k])
        BY <1>1, <3>2 DEF LoadPool
      <4>2. disk[p][k].st = "ok" \/ disk[p][k].st = "missing"
        BY <3>2 DEF LoadSucceeds
      <4>3. CASE disk[p][k].st = "ok"
        BY <3>2, <4>1, <4>3, LoadedFields
      <4>4. CASE disk[p][k].st = "missing"
        <5>1. mem[p][k] = NoSource
          BY <1>2, <4>1, <4>4, NoSourceFields DEF HeaderInv
        <5>. QED  BY <3>2, <5>1, NoSourceFields
      <4>. QED  BY <4>2, <4>3, <4>4
    <3>. QED  BY <1>2, <3>1, <3>2
  <2>. QED  BY <1>0, <1>1, <1>2, <2>1, <2>2 DEF HeaderInv
<1>7. ASSUME NEW p \in Party, NEW k \in Kinds PROVE UseInv(p, k)'
  <2>1. /\ disk[p][k].st = "ok" => Stamped(k, disk[p][k])
        /\ \A x \in used[p] : x[1] = k => x[2] \in 1..gens
        /\ \A x \in used[p] \ lost[p] : x[1] = k =>
             /\ x[2] = disk[p][k].gen => x[3] < disk[p][k].cursor
             /\ x[2] = mem[p][k].gen => x[3] < mem[p][k].cursor
    BY <1>2 DEF UseInv
  <2>2. Stamped(k, mem'[p][k])
    <3>1. CASE mem'[p][k].gen = gens'
      BY <1>0, <3>1 DEF Stamped
    <3>2. CASE /\ LoadSucceeds(disk[p]) /\ mem'[p][k].gen = mem[p][k].gen
               /\ mem'[p][k] = mem[p][k] \/ mem'[p][k].gen # 0
      <4>1. mem[p][k] = Loaded(disk[p][k]) /\ mem'[p][k].gen \in Nat
        <5>1. mem'[p][k] \in Sources
          BY <1>2
        <5>2. mem'[p][k].gen \in Nat
          BY <5>1 DEF Sources
        <5>. QED  BY <1>1, <3>2, <5>2 DEF LoadPool
      <4>2. CASE mem'[p][k].gen # 0
        BY <4>1, <4>2 DEF Stamped
      <4>3. CASE mem'[p][k] = mem[p][k] /\ disk[p][k].st = "ok"
        BY <2>1, <4>1, <4>3, LoadedFields DEF Stamped
      <4>4. CASE mem'[p][k] = mem[p][k] /\ EmptyIfMissing(k) /\ disk[p][k].st = "missing"
        <5>1. mem'[p][k] = NoSource
          BY <1>2, <4>1, <4>4, NoSourceFields DEF HeaderInv
        <5>. QED  BY <4>4, <5>1, NoSourceFields DEF Stamped
      <4>. QED  BY <3>2, <4>2, <4>3, <4>4 DEF LoadSucceeds
    <3>. QED  BY <1>2, <3>1, <3>2
  <2>3. ASSUME NEW x \in used[p], x[1] = k
        PROVE  /\ x[2] \in 1..gens' /\ x[2] # gens'
               /\ x \notin lost[p] /\ x[2] = mem'[p][k].gen => x[3] < mem'[p][k].cursor
    BY <1>0, <1>2, <2>1, <2>3
  <2>. QED  BY <1>1, <2>1, <2>2, <2>3 DEF UseInv, Preprocess
<1>. QED  BY <1>3, <1>4, <1>5, <1>6, <1>7 DEF PartyInv, PartyOK

\* A saved source is the source, with or without its path.
LEMMA SavedFields ==
  ASSUME NEW s \in Sources, NEW k
  PROVE  /\ Saved(s, k) \in Sources
         /\ Saved(s, k).gen = s.gen /\ Saved(s, k).total = s.total
         /\ Saved(s, k).cursor = s.cursor
         /\ Saved(s, k).path <=> s.path \/ SaveSetsPath(k)
<1>1. (s.path \/ SaveSetsPath(k)) \in BOOLEAN
  OBVIOUS
<1>. QED  BY <1>1 DEF Saved, Sources

\* Saving makes the headers describe the pool in memory.
LEMMA SaveStep ==
  ASSUME PartyInv, NEW p \in Party, Save(p)
  PROVE  PartyInv'
<1>0. TypeOK /\ PartyOK(p) /\ gens \in Nat /\ mem[p] \in [Kinds -> Sources]
  BY Types DEF PartyInv
<1>1. /\ pc[p] = "saving" /\ pc'[p] = "proving" /\ step'[p] = step[p] /\ log'[p] = log[p]
      /\ used'[p] = used[p] /\ lost'[p] = lost[p] /\ gens' = gens /\ program' = program
      /\ plan'[p] = plan[p]
      /\ disk'[p] = [k \in Kinds |-> Header(mem[p][k])]
      /\ mem'[p] = [k \in Kinds |-> Saved(mem[p][k], k)]
  BY <1>0, Types DEF Save
<1>2. ASSUME NEW k \in Kinds
      PROVE  /\ mem'[p][k] \in Sources /\ disk'[p][k] \in Headers
             /\ mem'[p][k].gen = mem[p][k].gen /\ mem'[p][k].total = mem[p][k].total
             /\ mem'[p][k].cursor = mem[p][k].cursor
             /\ mem'[p][k].path <=> mem[p][k].path \/ SaveSetsPath(k)
             /\ disk'[p][k].gen = mem[p][k].gen /\ disk'[p][k].total = mem[p][k].total
             /\ disk'[p][k].cursor = mem[p][k].cursor /\ disk'[p][k].st = "ok"
             /\ mem[p][k].cursor \in Nat
  <2>1. mem[p][k] \in Sources
    BY <1>0
  <2>2. disk'[p][k] = Header(mem[p][k]) /\ mem'[p][k] = Saved(mem[p][k], k)
    BY <1>1
  <2>3. disk'[p][k] \in Headers
    BY <2>1, <2>2, HeaderType
  <2>4. /\ mem'[p][k] \in Sources
        /\ mem'[p][k].gen = mem[p][k].gen /\ mem'[p][k].total = mem[p][k].total
        /\ mem'[p][k].cursor = mem[p][k].cursor
        /\ mem'[p][k].path <=> mem[p][k].path \/ SaveSetsPath(k)
        /\ mem[p][k].cursor \in Nat
    BY <2>1, <2>2, SavedFields DEF Sources
  <2>. QED  BY <2>2, <2>3, <2>4 DEF Header
<1>3. TypeOK'
  <2>1. mem'[p] \in [Kinds -> Sources] /\ disk'[p] \in [Kinds -> Headers]
    <3>1. \A k \in Kinds : mem'[p][k] \in Sources /\ disk'[p][k] \in Headers
      BY <1>2
    <3>2. /\ mem'[p] = [k \in Kinds |-> mem'[p][k]]
          /\ disk'[p] = [k \in Kinds |-> disk'[p][k]]
      BY <1>1
    <3>. QED  BY <3>1, <3>2
  <2>2. mem' = [mem EXCEPT ![p] = mem'[p]] /\ disk' = [disk EXCEPT ![p] = disk'[p]]
    BY <1>0, Types DEF Save
  <2>. QED  BY <1>0, <2>1, <2>2, Types, TypesNext DEF Save
<1>4. StageInv(p)'
  BY <1>0, <1>1, <1>2 DEF PartyOK, StageInv, Remaining, Used
<1>5. LogInv(p)'
  BY <1>0, <1>1 DEF PartyOK, StageInv, LogInv
<1>6. ASSUME NEW k \in Kinds PROVE HeaderInv(p, k)' /\ UseInv(p, k)'
  <2>1. HeaderInv(p, k) /\ UseInv(p, k)
    BY <1>0 DEF PartyOK
  <2>2. HeaderInv(p, k)'
    <3>1. /\ mem[p][k].cursor <= mem[p][k].total /\ mem[p][k].gen <= gens
          /\ Created(p, k) \/ mem[p][k].path \/ mem[p][k].total = 0
      BY <1>1, <2>1 DEF HeaderInv
    <3>. HIDE DEF HeaderInv
    <3>2. /\ disk'[p][k].cursor <= disk'[p][k].total /\ disk'[p][k].gen <= gens'
          /\ mem'[p][k].cursor <= mem'[p][k].total /\ mem'[p][k].gen <= gens'
          /\ disk'[p][k].st = "ok" /\ "ok" # "missing"
          /\ disk'[p][k].gen = mem'[p][k].gen /\ disk'[p][k].total = mem'[p][k].total
          /\ disk'[p][k].cursor = mem'[p][k].cursor /\ disk'[p][k].cursor <= mem'[p][k].cursor
          /\ SaveSetsPath(k) => mem'[p][k].path
          /\ Created(p, k)' \/ mem'[p][k].path \/ mem'[p][k].total = 0
      BY <1>1, <1>2, <3>1 DEF Created
    <3>. QED  BY <3>2 DEF HeaderInv
  <2>3. LoggedItems(p)' = {}
    BY <1>0, <1>1 DEF PartyOK, StageInv, LoggedItems
  <2>4. UseInv(p, k)'
    BY <1>1, <1>2, <2>1, <2>3 DEF UseInv, Stamped
  <2>. QED  BY <2>2, <2>4
<1>7. ASSUME NEW q \in Party, q # p PROVE PartyOK(q)'
  BY <1>0, <1>7, Untouched, Types DEF PartyInv, Save
<1>. QED  BY <1>3, <1>4, <1>5, <1>6, <1>7 DEF PartyInv, PartyOK

\* The cursor patch of a header.
LEMMA PatchFields ==
  ASSUME NEW h \in Headers, NEW s \in Sources
  PROVE  /\ Patch(h, s).st = h.st /\ Patch(h, s).gen = h.gen /\ Patch(h, s).total = h.total
         /\ Patch(h, s).cursor = IF s.path /\ h.st = "ok" THEN s.cursor ELSE h.cursor
         /\ h.st # "ok" => Patch(h, s) = h
BY DEF Patch, Headers

\* A take advances the cursor and nothing else of a source.
LEMMA AdvancedFields ==
  ASSUME NEW s \in Sources, NEW n \in Nat
  PROVE  /\ Advanced(s, n) \in Sources
         /\ Advanced(s, n).gen = s.gen /\ Advanced(s, n).total = s.total
         /\ Advanced(s, n).cursor = s.cursor + n /\ (Advanced(s, n).path <=> s.path)
BY DEF Advanced, Sources

\* The items of a batch are those from the cursor on.
LEMMA BatchItems ==
  ASSUME NEW k \in Kinds, NEW s \in Sources, NEW n \in Nat
  PROVE  /\ Batch(s, k, n) \in SUBSET Items
         /\ \A x \in Batch(s, k, n) :
              x[1] = k /\ x[2] = s.gen /\ x[3] \in Nat /\ s.cursor <= x[3] /\ x[3] < s.cursor + n
BY DEF Batch, Items, Sources

\* The next take of party p.
TakeKind(p) == program[step[p] + 1].kind
TakeCount(p) == program[step[p] + 1].n

\* The take a party is at is one of the program.
LEMMA TakeType ==
  ASSUME TypeOK, NEW p \in Party, step[p] < Len(program)
  PROVE  /\ step[p] \in 0..Len(program) - 1 /\ step[p] + 1 \in 0..Len(program)
         /\ TakeKind(p) \in Kinds /\ TakeCount(p) \in Nat \ {0}
         /\ \A k \in Kinds : Used(k, step[p] + 1) =
              Used(k, step[p]) + (IF TakeKind(p) = k THEN TakeCount(p) ELSE 0)
<1>0. program \in Seq(Takes) /\ Len(program) \in Nat /\ step[p] \in Nat
  BY ProgramType, Types
<1>1. step[p] \in 0..Len(program) - 1 /\ step[p] + 1 \in 1..Len(program)
  BY <1>0
<1>2. program[step[p] + 1] \in Takes
  BY <1>0, <1>1
<1>3. TakeKind(p) \in Kinds /\ TakeCount(p) \in Nat \ {0}
  BY <1>2 DEF Takes, TakeKind, TakeCount
<1>. QED  BY <1>0, <1>1, <1>3, UsedSteps DEF TakeKind, TakeCount

\* What a take changes, field by field.
LEMMA TakeFacts ==
  ASSUME TypeOK, NEW p \in Party, Take(p),
         NEW K, K = TakeKind(p), NEW N, N = TakeCount(p),
         NEW s, s = Advanced(mem[p][K], N)
  PROVE  /\ K \in Kinds /\ N \in Nat \ {0} /\ s \in Sources
         /\ s.cursor <= s.total
         /\ mem' = [mem EXCEPT ![p][K] = s]
         /\ mem'[p][K] = s /\ \A j \in Kinds \ {K} : mem'[p][j] = mem[p][j]
         /\ disk' \in [Party -> [Kinds -> Headers]] /\ disk'[p][K] \in Headers
         /\ disk'[p][K] = IF PersistsOnTake(K, p) THEN Patch(disk[p][K], s) ELSE disk[p][K]
         /\ \A j \in Kinds \ {K} : disk'[p][j] = disk[p][j]
         /\ disk'[p][K].gen = disk[p][K].gen /\ disk'[p][K].total = disk[p][K].total
         /\ disk'[p][K].st = disk[p][K].st
         /\ disk'[p][K].cursor = IF PersistsOnTake(K, p) /\ s.path /\ disk[p][K].st = "ok"
                                 THEN s.cursor ELSE disk[p][K].cursor
         /\ log'[p] = Append(log[p], Batch(mem[p][K], K, N))
         /\ \A q \in Party \ {p} : mem'[q] = mem[q] /\ disk'[q] = disk[q] /\ log'[q] = log[q]
<1>1. K \in Kinds /\ N \in Nat \ {0}
  BY TakeType DEF Take
<1>2. /\ s.cursor <= s.total
      /\ mem' = [mem EXCEPT ![p][K] = s]
      /\ disk' = [disk EXCEPT ![p][K] = IF PersistsOnTake(K, p) THEN Patch(@, s) ELSE @]
      /\ log' = [log EXCEPT ![p] = Append(@, Batch(mem[p][K], K, N))]
  BY DEF Take, TakeKind, TakeCount
<1>3. /\ mem \in [Party -> [Kinds -> Sources]] /\ disk \in [Party -> [Kinds -> Headers]]
      /\ log \in [Party -> Seq(SUBSET Items)]
      /\ mem[p][K] \in Sources /\ disk[p][K] \in Headers
  BY <1>1, Types
<1>4. s \in Sources
  BY <1>1, <1>3, AdvancedFields
<1>. DEFINE h == IF PersistsOnTake(K, p) THEN Patch(disk[p][K], s) ELSE disk[p][K]
<1>5. h \in Headers
  BY <1>3, <1>4, PatchType
<1>6. disk' = [disk EXCEPT ![p][K] = h]
  BY <1>2
<1>7. /\ h.gen = disk[p][K].gen /\ h.total = disk[p][K].total /\ h.st = disk[p][K].st
      /\ h.cursor = IF PersistsOnTake(K, p) /\ s.path /\ disk[p][K].st = "ok"
                    THEN s.cursor ELSE disk[p][K].cursor
  <2>1. CASE PersistsOnTake(K, p)
    BY <1>3, <1>4, <2>1, PatchFields
  <2>2. CASE ~PersistsOnTake(K, p)
    BY <2>2
  <2>. QED  BY <2>1, <2>2
<1>. HIDE DEF h
<1>8. disk'[p][K] = h /\ (\A j \in Kinds \ {K} : disk'[p][j] = disk[p][j])
      /\ disk' \in [Party -> [Kinds -> Headers]]
  BY <1>1, <1>3, <1>5, <1>6
<1>9. mem'[p][K] = s /\ (\A j \in Kinds \ {K} : mem'[p][j] = mem[p][j])
  BY <1>1, <1>2, <1>3
<1>10. log'[p] = Append(log[p], Batch(mem[p][K], K, N))
  BY <1>2, <1>3
<1>11. \A q \in Party \ {p} : mem'[q] = mem[q] /\ disk'[q] = disk[q] /\ log'[q] = log[q]
  BY <1>2, <1>3
<1>12. disk'[p][K] = IF PersistsOnTake(K, p) THEN Patch(disk[p][K], s) ELSE disk[p][K]
  BY <1>8 DEF h
<1>. QED  BY <1>1, <1>2, <1>4, <1>5, <1>7, <1>8, <1>9, <1>10, <1>11, <1>12

\* Taking a batch off a source that covers the rest of the program leaves one
\* that covers the rest after it.
LEMMA TakeStage ==
  ASSUME PartyInv, NEW p \in Party, Take(p)
  PROVE  StageInv(p)'
<1>. DEFINE K == TakeKind(p)  N == TakeCount(p)  s == Advanced(mem[p][K], N)
<1>0. TypeOK /\ PartyOK(p) /\ pc[p] = "proving" /\ pc'[p] = "proving" /\ program' = program
      /\ step'[p] = step[p] + 1 /\ step[p] < Len(program) /\ program \in Seq(Takes)
      /\ program \in Programs \cup {<<>>}
  BY Types, ProgramType DEF PartyInv, Take
<1>1. step[p] \in 0..Len(program) - 1 /\ step[p] + 1 \in 0..Len(program)
  BY <1>0, TakeType
<1>2. ASSUME NEW k \in Kinds
      PROVE  Budget(program)[k] - Used(k, step[p] + 1) <= Remaining(mem'[p][k])
  <2>1. /\ Used(k, step[p] + 1) = Used(k, step[p]) + (IF K = k THEN N ELSE 0)
        /\ Used(k, step[p]) \in Nat /\ Budget(program)[k] \in Nat /\ N \in Nat
    BY <1>0, <1>1, TakeType, UsedSteps, BudgetType
  <2>2. Budget(program)[k] - Used(k, step[p]) <= Remaining(mem[p][k])
    BY <1>0 DEF PartyOK, StageInv
  <2>3. mem[p][k] \in Sources
    BY <1>0, Types
  <2>4. CASE K = k
    <3>1. mem'[p][k] = Advanced(mem[p][k], N)
      BY <1>0, <2>4, TakeFacts
    <3>. HIDE DEF K, N
    <3>2. mem'[p][k].total = mem[p][k].total /\ mem'[p][k].cursor = mem[p][k].cursor + N
      <4>1. N \in Nat
        BY <2>1
      <4>. QED  BY <2>3, <3>1, <4>1, AdvancedFields
    <3>3. mem[p][k].total \in Nat /\ mem[p][k].cursor \in Nat
      BY <2>3 DEF Sources
    <3>. QED  BY <2>1, <2>2, <2>4, <3>2, <3>3 DEF Remaining
  <2>5. CASE K # k
    <3>1. mem'[p][k] = mem[p][k]
      BY <1>0, <2>5, TakeFacts
    <3>. QED  BY <2>1, <2>2, <2>5, <3>1
  <2>. QED  BY <2>4, <2>5
<1>3. \A k \in Kinds : Budget(program)'[k] - Used(k, step[p])' <= Remaining(mem[p][k])'
  BY <1>0, <1>2 DEF Used, Remaining
<1>4. step'[p] <= Len(program')
  BY <1>0, <1>1
<1>. QED  BY <1>0, <1>3, <1>4 DEF StageInv

\* The batch taken lies past every earlier one of the proof.
LEMMA TakeLog ==
  ASSUME PartyInv, NEW p \in Party, Take(p)
  PROVE  LogInv(p)'
<1>. DEFINE K == TakeKind(p)  N == TakeCount(p)  B == Batch(mem[p][K], K, N)
<1>0. TypeOK /\ PartyOK(p) /\ pc[p] = "proving" /\ step[p] < Len(program)
      /\ log[p] \in Seq(SUBSET Items) /\ mem[p] \in [Kinds -> Sources]
  BY Types DEF PartyInv, Take
<1>1. K \in Kinds /\ N \in Nat \ {0} /\ mem[p][K] \in Sources
  BY <1>0, TakeType
<1>2. mem'[p][K] = Advanced(mem[p][K], N) /\ (\A j \in Kinds \ {K} : mem'[p][j] = mem[p][j])
      /\ log'[p] = Append(log[p], B)
  BY <1>0, TakeFacts
<1>3. mem'[p][K].gen = mem[p][K].gen /\ mem'[p][K].cursor = mem[p][K].cursor + N
      /\ mem[p][K].cursor \in Nat
  BY <1>1, <1>2, AdvancedFields DEF Sources
<1>4. \A x \in B : x[1] = K /\ x[2] = mem[p][K].gen /\ x[3] \in Nat
                   /\ mem[p][K].cursor <= x[3] /\ x[3] < mem[p][K].cursor + N
  BY <1>1, BatchItems
<1>. HIDE DEF K, N, B
<1>5. ASSUME NEW i \in DOMAIN log[p], NEW x \in log[p][i]
      PROVE  /\ x[1] \in Kinds /\ x[3] \in Nat
             /\ x[2] = mem[p][x[1]].gen /\ x[3] < mem[p][x[1]].cursor
             /\ x[2] = mem'[p][x[1]].gen /\ x[3] < mem'[p][x[1]].cursor
             /\ x \notin B
  <2>1. x \in Items
    BY <1>0
  <2>2. x[2] = mem[p][x[1]].gen /\ x[3] < mem[p][x[1]].cursor
    BY <1>0 DEF PartyOK, LogInv
  <2>3. x[1] \in Kinds /\ x[3] \in Nat
    BY <2>1 DEF Items
  <2>4. CASE x[1] = K
    BY <1>1, <1>3, <1>4, <2>2, <2>3, <2>4
  <2>5. CASE x[1] # K
    BY <1>2, <1>4, <2>2, <2>3, <2>5
  <2>. QED  BY <2>2, <2>3, <2>4, <2>5
<1>6. DOMAIN log'[p] = 1..Len(log[p]) + 1 /\ DOMAIN log[p] = 1..Len(log[p]) /\ Len(log[p]) \in Nat
      /\ log'[p][Len(log[p]) + 1] = B
      /\ \A i \in 1..Len(log[p]) : log'[p][i] = log[p][i]
  BY <1>0, <1>2
<1>7. ASSUME NEW i \in DOMAIN log'[p], NEW x \in log'[p][i]
      PROVE  x[2] = mem'[p][x[1]].gen /\ x[3] < mem'[p][x[1]].cursor
  <2>1. CASE i \in DOMAIN log[p]
    BY <1>5, <1>6, <2>1
  <2>2. CASE i = Len(log[p]) + 1
    BY <1>3, <1>4, <1>6, <2>2
  <2>. QED  BY <1>6, <2>1, <2>2
<1>8. ASSUME NEW i \in DOMAIN log'[p], NEW j \in DOMAIN log'[p], i # j
      PROVE  log'[p][i] \cap log'[p][j] = {}
  <2>1. CASE i \in DOMAIN log[p] /\ j \in DOMAIN log[p]
    BY <1>0, <1>6, <1>8, <2>1 DEF PartyOK, LogInv
  <2>2. CASE i \in DOMAIN log[p] /\ j = Len(log[p]) + 1
    BY <1>5, <1>6, <2>2
  <2>3. CASE j \in DOMAIN log[p] /\ i = Len(log[p]) + 1
    BY <1>5, <1>6, <2>3
  <2>. QED  BY <1>6, <1>8, <2>1, <2>2, <2>3
<1>. QED  BY <1>7, <1>8 DEF LogInv

\* A take keeps the header behind the source, and the used items behind both cursors.
LEMMA TakeHeader ==
  ASSUME PartyInv, NEW p \in Party, Take(p), NEW k \in Kinds
  PROVE  HeaderInv(p, k)' /\ UseInv(p, k)'
<1>. DEFINE K == TakeKind(p)  N == TakeCount(p)  s == Advanced(mem[p][K], N)
            B == Batch(mem[p][K], K, N)
<1>0. TypeOK /\ PartyOK(p) /\ pc[p] = "proving" /\ pc'[p] = "proving" /\ step[p] < Len(program)
      /\ mem[p] \in [Kinds -> Sources] /\ disk[p] \in [Kinds -> Headers]
      /\ log[p] \in Seq(SUBSET Items) /\ used[p] \in SUBSET Items
      /\ used' = used /\ lost' = lost /\ plan' = plan /\ gens' = gens /\ gens \in Nat
  BY Types DEF PartyInv, Take
<1>1. /\ K \in Kinds /\ N \in Nat \ {0} /\ s \in Sources /\ s.cursor <= s.total
      /\ mem'[p][K] = s /\ (\A j \in Kinds \ {K} : mem'[p][j] = mem[p][j])
      /\ \A j \in Kinds \ {K} : disk'[p][j] = disk[p][j]
      /\ disk'[p][K].gen = disk[p][K].gen /\ disk'[p][K].total = disk[p][K].total
      /\ disk'[p][K].st = disk[p][K].st
      /\ disk'[p][K].cursor = IF PersistsOnTake(K, p) /\ s.path /\ disk[p][K].st = "ok"
                              THEN s.cursor ELSE disk[p][K].cursor
      /\ log'[p] = Append(log[p], B)
  BY <1>0, TakeFacts
<1>2. HeaderInv(p, K) /\ UseInv(p, K) /\ HeaderInv(p, k) /\ UseInv(p, k)
  BY <1>0, <1>1 DEF PartyOK
<1>3. /\ s.gen = mem[p][K].gen /\ s.total = mem[p][K].total
      /\ s.cursor = mem[p][K].cursor + N /\ (s.path <=> mem[p][K].path)
      /\ mem[p][K].cursor \in Nat /\ mem[p][K].total \in Nat /\ mem[p][K].gen \in Nat
      /\ disk[p][K].cursor \in Nat
  <2>1. mem[p][K] \in Sources /\ disk[p][K] \in Headers
    BY <1>0, <1>1
  <2>. HIDE DEF K
  <2>. QED  BY <1>1, <2>1, AdvancedFields DEF Sources, Headers
<1>4. \A x \in B : x[1] = K /\ x[2] = mem[p][K].gen /\ x[3] \in Nat /\ mem[p][K].cursor <= x[3]
  BY <1>0, <1>1, BatchItems
<1>5. LoggedItems(p)' = LoggedItems(p) \cup B
  <2>1. DOMAIN log'[p] = 1..Len(log[p]) + 1 /\ DOMAIN log[p] = 1..Len(log[p]) /\ Len(log[p]) \in Nat
        /\ log'[p][Len(log[p]) + 1] = B
        /\ \A i \in 1..Len(log[p]) : log'[p][i] = log[p][i]
    <3>. HIDE DEF B
    <3>. QED  BY <1>0, <1>1
  <2>. HIDE DEF B
  <2>2. \A i : i \in DOMAIN log'[p] <=> i \in DOMAIN log[p] \/ i = Len(log[p]) + 1
    BY <2>1
  <2>3. \A i \in DOMAIN log[p] : log'[p][i] = log[p][i]
    BY <2>1
  <2>4. Len(log[p]) + 1 \in DOMAIN log'[p] /\ log'[p][Len(log[p]) + 1] = B
    BY <2>1
  <2>. QED  BY <2>2, <2>3, <2>4, Zenon DEF LoggedItems
<1>. HIDE DEF K, N, s, B
<1>6. /\ disk[p][K].st = "ok" /\ disk[p][K].gen = mem[p][K].gen
      /\ disk[p][K].total = mem[p][K].total /\ disk[p][K].cursor <= mem[p][K].cursor
      /\ SaveSetsPath(K) => mem[p][K].path
  <2>1. ~(mem[p][K] = NoSource)
    BY <1>1, <1>3, NoSourceFields
  <2>. QED  BY <1>0, <1>2, <2>1 DEF HeaderInv
<1>7. CASE k # K
  <2>1. mem'[p][k] = mem[p][k] /\ disk'[p][k] = disk[p][k]
    BY <1>1, <1>7
  <2>2. HeaderInv(p, k)'
    BY <1>0, <1>2, <2>1 DEF HeaderInv, Created
  <2>3. \A x \in LoggedItems(p)' : x[1] = k => x \in LoggedItems(p)
    BY <1>4, <1>5, <1>7
  <2>4. UseInv(p, k)'
    BY <1>0, <1>2, <2>1, <2>3 DEF UseInv
  <2>. QED  BY <2>2, <2>4
<1>8. CASE k = K
  <2>1. HeaderInv(p, k)'
    <3>1. disk[p][k].cursor <= disk[p][k].total /\ disk[p][k].gen <= gens
          /\ mem[p][k].gen <= gens
      BY <1>0, <1>2, <1>8 DEF HeaderInv
    <3>3. Created(p, k)' \/ mem'[p][k].path \/ mem'[p][k].total = 0
      <4>1. Created(p, k) \/ mem[p][k].path \/ mem[p][k].total = 0
        BY <1>0, <1>2 DEF HeaderInv
      <4>. QED  BY <1>0, <1>1, <1>3, <1>8, <4>1 DEF Created
    <3>2. /\ disk'[p][k].cursor <= disk'[p][k].total /\ disk'[p][k].gen <= gens'
          /\ mem'[p][k].cursor <= mem'[p][k].total /\ mem'[p][k].gen <= gens'
          /\ disk'[p][k].st = "ok" /\ "ok" # "missing"
          /\ disk'[p][k].gen = mem'[p][k].gen /\ disk'[p][k].total = mem'[p][k].total
          /\ disk'[p][k].cursor <= mem'[p][k].cursor
          /\ SaveSetsPath(k) => mem'[p][k].path
          /\ mem'[p][k].path /\ PersistsOnTake(k, p) => disk'[p][k].cursor = mem'[p][k].cursor
      BY <1>0, <1>1, <1>3, <1>6, <1>8, <3>1, SMTT(60)
    <3>. QED  BY <3>2, <3>3 DEF HeaderInv
  <2>2. /\ Stamped(k, disk[p][k]) /\ Stamped(k, mem[p][k])
        /\ \A x \in used[p] : x[1] = k => x[2] \in 1..gens
        /\ \A x \in used[p] \ lost[p] : x[1] = k =>
             /\ x[2] = disk[p][k].gen => x[3] < disk[p][k].cursor
             /\ x[2] = mem[p][k].gen => x[3] < mem[p][k].cursor
        /\ \A x \in LoggedItems(p) : x[1] = k => x \notin used[p] \ lost[p] /\ x[2] >= 1
    BY <1>0, <1>2, <1>6, <1>8 DEF UseInv
  <2>3. Stamped(k, disk'[p][k]) /\ Stamped(k, mem'[p][k])
    BY <1>1, <1>3, <1>8, <2>2 DEF Stamped
  <2>4. ASSUME NEW x \in used[p] \ lost[p], x[1] = k
        PROVE  /\ x[2] = disk'[p][k].gen => x[3] < disk'[p][k].cursor
               /\ x[2] = mem'[p][k].gen => x[3] < mem'[p][k].cursor
    <3>1. x[3] \in Nat
      BY <1>0 DEF Items
    <3>. QED  BY <1>0, <1>1, <1>3, <1>6, <1>8, <2>2, <2>4, <3>1, SMTT(60)
  <2>5. ASSUME NEW x \in B PROVE x \notin used[p] \ lost[p] /\ x[2] >= 1
    <3>1. mem[p][k].gen >= 1
      BY <1>1, <1>3, <1>8, <2>2 DEF Stamped
    <3>. QED  BY <1>3, <1>4, <1>8, <2>2, <3>1
  <2>6. UseInv(p, k)'
    BY <1>0, <1>5, <2>2, <2>3, <2>4, <2>5 DEF UseInv
  <2>. QED  BY <2>1, <2>6
<1>. QED  BY <1>7, <1>8

\* A take keeps the invariant: the three lemmas above together.
LEMMA TakeStep ==
  ASSUME PartyInv, NEW p \in Party, Take(p)
  PROVE  PartyInv'
<1>. DEFINE K == TakeKind(p)  N == TakeCount(p)  s == Advanced(mem[p][K], N)
            B == Batch(mem[p][K], K, N)
<1>0. TypeOK /\ step[p] < Len(program)
  BY DEF PartyInv, Take
<1>1. /\ K \in Kinds /\ N \in Nat \ {0} /\ s \in Sources /\ mem' = [mem EXCEPT ![p][K] = s]
      /\ disk' \in [Party -> [Kinds -> Headers]]
      /\ \A q \in Party \ {p} : mem'[q] = mem[q] /\ disk'[q] = disk[q] /\ log'[q] = log[q]
  BY <1>0, TakeFacts
<1>2. TypeOK'
  <2>1. mem[p][K] \in Sources /\ log[p] \in Seq(SUBSET Items) /\ step[p] \in Nat
    BY <1>0, <1>1, Types
  <2>2. B \in SUBSET Items
    BY <1>1, <2>1, BatchItems
  <2>3. log' = [log EXCEPT ![p] = Append(@, B)]
    BY DEF Take, TakeKind, TakeCount
  <2>. HIDE DEF K, N, s, B
  <2>4. Append(log[p], B) \in Seq(SUBSET Items)
    BY <2>1, <2>2
  <2>5. log' \in [Party -> Seq(SUBSET Items)] /\ mem' \in [Party -> [Kinds -> Sources]]
    BY <1>0, <1>1, <2>3, <2>4, Types
  <2>6. step' = [step EXCEPT ![p] = step[p] + 1]
        /\ pc' = pc /\ program' = program /\ plan' = plan /\ used' = used /\ lost' = lost
        /\ gens' = gens /\ faults' = faults /\ torn' = torn
    BY DEF Take
  <2>7. step' \in [Party -> Nat]
    <3>1. step \in [Party -> Nat] /\ step[p] + 1 \in Nat
      BY <1>0, <2>1, Types
    <3>. QED  BY <2>6, <3>1
  <2>8. /\ pc' \in [Party -> {"idle", "start", "planned", "saving", "proving"}]
        /\ program' \in Programs \cup {<<>>} /\ plan' \in [Party -> Plans]
        /\ used' \in [Party -> SUBSET Items] /\ lost' \in [Party -> SUBSET Items]
        /\ gens' \in Nat /\ faults' \in Nat /\ torn' \in BOOLEAN
    BY <1>0, <2>6, Types
  <2>. QED  BY <1>1, <2>5, <2>7, <2>8, TypesNext
<1>3. PartyOK(p)'
  BY TakeStage, TakeLog, TakeHeader DEF PartyOK
<1>4. ASSUME NEW q \in Party, q # p PROVE PartyOK(q)'
  BY <1>0, <1>1, <1>4, Untouched, Types DEF PartyInv, Take
<1>. QED  BY <1>2, <1>3, <1>4 DEF PartyInv

-----------------------------------------------------------------------------
(* The end of a run: what a party leaves in its directory *)

\* A header that offers no item of U again but those of L.
Safe(k, h, U, L) ==
  /\ h \in Headers
  /\ h.cursor <= h.total /\ h.gen <= gens
  /\ h.st = "missing" => h = Missing
  /\ h.st = "ok" => Stamped(k, h)
  /\ \A x \in U : x[1] = k => x[2] \in 1..gens
  /\ \A x \in U \ L : x[1] = k /\ x[2] = h.gen => x[3] < h.cursor

\* What party p has used, and what its directory does not record, when it goes down.
UsedUp(p) == IF pc[p] = "idle" THEN used[p] ELSE UsedAfter(p)
LostUp(p, kill) == IF pc[p] = "idle" THEN lost[p] ELSE LostAfter(p, kill)

\* The headers on disk are safe to go down with.
LEMMA SafeOld ==
  ASSUME PartyInv, NEW p \in Party, NEW k \in Kinds
  PROVE  Safe(k, disk[p][k], used[p], lost[p])
<1>1. HeaderInv(p, k) /\ UseInv(p, k) /\ disk[p][k] \in Headers
  BY Types DEF PartyInv, PartyOK
<1>. QED  BY <1>1 DEF Safe, HeaderInv, UseInv

\* A header is as safe as another one with the same fields.
LEMMA SafeFields ==
  ASSUME NEW k, NEW U, NEW L, NEW h, Safe(k, h, U, L), NEW g \in Headers,
         g.st = h.st, g.gen = h.gen, g.total = h.total, g.cursor = h.cursor
  PROVE  Safe(k, g, U, L)
<1>1. g = h
  BY DEF Safe, Headers
<1>. QED  BY <1>1

\* The items of the proof so far.
LEMMA LoggedType ==
  ASSUME PartyInv, NEW p \in Party
  PROVE  /\ LoggedItems(p) \subseteq Items
         /\ pc[p] = "proving" =>
              \A x \in LoggedItems(p) : x[2] = mem[p][x[1]].gen /\ x[3] < mem[p][x[1]].cursor
         /\ pc[p] \in {"start", "planned", "saving"} => LoggedItems(p) = {}
<1>1. TypeOK /\ PartyOK(p)
  BY DEF PartyInv
<1>2. log[p] \in Seq(SUBSET Items)
  BY <1>1, Types
<1>3. \A i \in DOMAIN log[p] : log[p][i] \in SUBSET Items
  BY <1>2
<1>4. LoggedItems(p) \subseteq Items
  BY <1>3 DEF LoggedItems
<1>5. pc[p] = "proving" =>
        \A x \in LoggedItems(p) : x[2] = mem[p][x[1]].gen /\ x[3] < mem[p][x[1]].cursor
  BY <1>1 DEF PartyOK, LogInv, LoggedItems
<1>6. pc[p] \in {"start", "planned", "saving"} => LoggedItems(p) = {}
  BY <1>1 DEF PartyOK, StageInv, LoggedItems
<1>. QED  BY <1>4, <1>5, <1>6

\* What dropping the pool leaves of a header.
LEMMA DroppedField ==
  ASSUME PartyInv, NEW p \in Party, NEW k \in Kinds
  PROVE  /\ Dropped(p)[k] \in Headers
         /\ Dropped(p)[k].st = disk[p][k].st /\ Dropped(p)[k].gen = disk[p][k].gen
         /\ Dropped(p)[k].total = disk[p][k].total
         /\ Dropped(p)[k].cursor =
              IF PersistsOnDrop(k) /\ mem[p][k].path /\ disk[p][k].st = "ok"
              THEN mem[p][k].cursor ELSE disk[p][k].cursor
<1>1. disk[p][k] \in Headers /\ mem[p][k] \in Sources
  BY Types DEF PartyInv
<1>2. CASE PersistsOnDrop(k)
  BY <1>1, <1>2, PatchType, PatchFields DEF Dropped
<1>3. CASE ~PersistsOnDrop(k)
  BY <1>1, <1>3 DEF Dropped
<1>. QED  BY <1>2, <1>3

\* A party that has taken nothing has nothing more to record.
LEMMA NothingLogged ==
  ASSUME PartyInv, NEW p \in Party, pc[p] # "proving", NEW kill
  PROVE  UsedUp(p) = used[p] /\ LostUp(p, kill) = lost[p]
<1>1. pc[p] \in {"idle", "start", "planned", "saving"}
  BY Types DEF PartyInv
<1>2. pc[p] # "idle" => LoggedItems(p) = {}
  BY <1>1, LoggedType
<1>. QED  BY <1>2 DEF UsedUp, LostUp, UsedAfter, LostAfter

\* A party that goes down in a proof leaves a safe header if its cursor has not moved back,
\* and is past the items of the proof that count as recorded.
LEMMA SafeProof ==
  ASSUME PartyInv, NEW p \in Party, pc[p] = "proving", NEW k \in Kinds, NEW kill,
         NEW h \in Headers, h.st = disk[p][k].st, h.gen = disk[p][k].gen,
         h.total = disk[p][k].total,
         h.cursor = disk[p][k].cursor \/ (mem[p][k].path /\ disk[p][k].st = "ok"
                                           /\ h.cursor = mem[p][k].cursor),
         mem[p][k].path /\ disk[p][k].st = "ok" /\ ~Unrecorded(p, k, kill) =>
           h.cursor = mem[p][k].cursor
  PROVE  Safe(k, h, UsedUp(p), LostUp(p, kill))
<1>. DEFINE LI == LoggedItems(p)
<1>0. TypeOK /\ PartyOK(p) /\ HeaderInv(p, k) /\ UseInv(p, k)
      /\ disk[p][k] \in Headers /\ mem[p][k] \in Sources /\ gens \in Nat
  BY Types DEF PartyInv, PartyOK
<1>1. /\ UsedUp(p) = used[p] \cup LI
      /\ LostUp(p, kill) = (lost[p] \ LI) \cup {x \in LI : Unrecorded(p, x[1], kill)}
  BY DEF UsedUp, LostUp, UsedAfter, LostAfter
<1>2. ASSUME NEW x \in LI, x[1] = k
      PROVE  x[2] = mem[p][k].gen /\ x[3] < mem[p][k].cursor /\ x[3] \in Nat /\ x[2] \in 1..gens
  <2>1. x \in Items /\ x[2] = mem[p][k].gen /\ x[3] < mem[p][k].cursor
    BY <1>2, LoggedType
  <2>2. x[2] >= 1 /\ x[2] <= gens
    BY <1>0, <1>2, <2>1 DEF UseInv, HeaderInv
  <2>. QED  BY <1>0, <2>1, <2>2 DEF Items
<1>3. Safe(k, disk[p][k], used[p], lost[p])
  BY SafeOld
<1>4. disk[p][k].cursor <= h.cursor /\ h.cursor <= h.total
  <2>1. disk[p][k].cursor \in Nat
    BY <1>0 DEF Headers
  <2>2. disk[p][k].cursor <= disk[p][k].total
    BY <1>0 DEF HeaderInv
  <2>3. CASE h.cursor = disk[p][k].cursor
    BY <2>1, <2>2, <2>3
  <2>4. CASE disk[p][k].st = "ok" /\ h.cursor = mem[p][k].cursor
    BY <1>0, <2>1, <2>4 DEF HeaderInv
  <2>. QED  BY <2>3, <2>4
<1>5. ASSUME NEW x \in LI, x[1] = k, ~Unrecorded(p, k, kill)
      PROVE  x[3] < h.cursor
  <2>1. mem[p][k].total # 0 /\ mem[p][k] # NoSource
    <3>1. mem[p][k].cursor \in Nat /\ mem[p][k].total \in Nat
      BY <1>0 DEF Sources
    <3>2. mem[p][k].cursor <= mem[p][k].total
      BY <1>0 DEF HeaderInv
    <3>. QED  BY <1>2, <1>5, <3>1, <3>2, NoSourceFields
  <2>2. disk[p][k].st = "ok" /\ (SaveSetsPath(k) => mem[p][k].path)
        /\ (Created(p, k) \/ mem[p][k].path)
    BY <1>0, <2>1 DEF HeaderInv
  <2>3. mem[p][k].path
    BY <1>5, <2>2, KindFacts DEF Unrecorded
  <2>. QED  BY <1>2, <1>5, <2>2, <2>3
<1>. HIDE DEF LI
<1>6. ASSUME NEW x \in UsedUp(p), x[1] = k PROVE x[2] \in 1..gens
  BY <1>0, <1>1, <1>2, <1>6 DEF UseInv
<1>7. ASSUME NEW x \in UsedUp(p) \ LostUp(p, kill), x[1] = k, x[2] = h.gen PROVE x[3] < h.cursor
  <2>1. CASE x \in LI
    BY <1>1, <1>5, <1>7, <2>1
  <2>2. CASE x \notin LI
    <3>1. x \in used[p] \ lost[p] /\ x[3] < disk[p][k].cursor
      BY <1>1, <1>3, <1>7, <2>2 DEF Safe
    <3>2. x[3] \in Nat /\ disk[p][k].cursor \in Nat /\ h.cursor \in Nat
      <4>1. x \in Items
        BY <1>0, <3>1, Types
      <4>. QED  BY <1>0, <4>1 DEF Items, Headers
    <3>. QED  BY <1>4, <3>1, <3>2
  <2>. QED  BY <2>1, <2>2
<1>8. h.gen <= gens /\ (h.st = "missing" => h = Missing) /\ (h.st = "ok" => Stamped(k, h))
  <2>1. disk[p][k].st = "missing" => h = Missing
    <3>1. ASSUME disk[p][k].st = "missing" PROVE h = Missing
      <4>1. h.cursor = disk[p][k].cursor /\ disk[p][k] = Missing
        BY <1>0, <3>1 DEF HeaderInv
      <4>2. h = disk[p][k]
        BY <1>0, <4>1 DEF Headers
      <4>. QED  BY <4>1, <4>2
    <3>. QED  BY <3>1
  <2>. QED  BY <1>0, <1>3, <2>1 DEF Safe, Stamped
<1>. QED  BY <1>4, <1>6, <1>7, <1>8 DEF Safe

\* Dropping the pool leaves safe headers: unless the use goes unrecorded, the cursor is past
\* every item of the proof, patched on every take or on the drop.
LEMMA SafeDropped ==
  ASSUME PartyInv, NEW p \in Party, pc[p] # "saving", NEW k \in Kinds
  PROVE  Safe(k, Dropped(p)[k], UsedUp(p), LostUp(p, FALSE))
<1>. DEFINE h == Dropped(p)[k]
<1>0. TypeOK /\ PartyOK(p) /\ HeaderInv(p, k)
      /\ disk[p][k] \in Headers /\ mem[p][k] \in Sources
      /\ pc[p] \in {"idle", "start", "planned", "proving"}
  BY Types DEF PartyInv, PartyOK
<1>1. /\ h \in Headers /\ h.st = disk[p][k].st /\ h.gen = disk[p][k].gen
      /\ h.total = disk[p][k].total
      /\ h.cursor = IF PersistsOnDrop(k) /\ mem[p][k].path /\ disk[p][k].st = "ok"
                    THEN mem[p][k].cursor ELSE disk[p][k].cursor
  BY DroppedField
<1>. HIDE DEF h
<1>3. CASE pc[p] \in {"idle", "start", "planned"}
  <2>1. UsedUp(p) = used[p] /\ LostUp(p, FALSE) = lost[p]
    BY <1>3, NothingLogged
  <2>2. h.cursor = disk[p][k].cursor
    <3>1. CASE pc[p] \in {"idle", "start"}
      <4>1. mem[p][k] = NoSource
        BY <1>0, <3>1 DEF PartyOK, StageInv, EmptyPool
      <4>. QED  BY <1>1, <4>1, NoSourceFields
    <3>2. CASE pc[p] = "planned"
      <4>1. mem[p] = LoadPool(disk[p]) /\ disk[p] \in [Kinds -> Headers]
        BY <1>0, <3>2, Types DEF PartyOK, StageInv
      <4>2. mem[p][k] = Loaded(disk[p][k]) \/ mem[p][k] = NoSource
        BY <4>1, LoadPoolFacts
      <4>. QED  BY <1>1, <4>2, LoadedFields, NoSourceFields
    <3>. QED  BY <1>3, <3>1, <3>2
  <2>3. Safe(k, h, used[p], lost[p])
    BY <1>1, <2>2, SafeOld, SafeFields
  <2>. QED  BY <2>1, <2>3 DEF h
<1>4. CASE pc[p] = "proving"
  <2>1. \/ h.cursor = disk[p][k].cursor
        \/ mem[p][k].path /\ disk[p][k].st = "ok" /\ h.cursor = mem[p][k].cursor
    BY <1>1
  <2>2. ASSUME mem[p][k].path, disk[p][k].st = "ok", ~Unrecorded(p, k, FALSE)
        PROVE  h.cursor = mem[p][k].cursor
    <3>1. PersistsOnDrop(k) \/ PersistsOnTake(k, p)
      BY <2>2, KindFacts, LeftBehind DEF Unrecorded
    <3>2. PersistsOnTake(k, p) => disk[p][k].cursor = mem[p][k].cursor
      BY <1>0, <1>4, <2>2 DEF HeaderInv
    <3>. QED  BY <1>1, <2>2, <3>1, <3>2
  <2>. QED  BY <1>1, <1>4, <2>1, <2>2, SafeProof DEF h
<1>. QED  BY <1>0, <1>3, <1>4

\* A party killed while it does not save leaves the header of the last patch.
LEMMA SafeKilled ==
  ASSUME PartyInv, NEW p \in Party, NEW k \in Kinds
  PROVE  Safe(k, disk[p][k], UsedUp(p), LostUp(p, TRUE))
<1>1. CASE pc[p] # "proving"
  <2>1. UsedUp(p) = used[p] /\ LostUp(p, TRUE) = lost[p]
    BY <1>1, NothingLogged
  <2>. QED  BY <2>1, SafeOld
<1>2. CASE pc[p] = "proving"
  <2>0. HeaderInv(p, k) /\ disk[p][k] \in Headers
    BY Types DEF PartyInv, PartyOK
  <2>1. ASSUME mem[p][k].path, disk[p][k].st = "ok", ~Unrecorded(p, k, TRUE)
        PROVE  disk[p][k].cursor = mem[p][k].cursor
    <3>1. PersistsOnTake(k, p)
      BY <2>1, LeftBehind DEF Unrecorded
    <3>2. "ok" # "missing"
      OBVIOUS
    <3>. QED  BY <1>2, <2>0, <2>1, <3>1, <3>2 DEF HeaderInv
  <2>. QED  BY <1>2, <2>0, <2>1, SafeProof
<1>. QED  BY <1>1, <1>2

\* A party cut down while it saves leaves safe headers: old, torn, or of the new sources.
LEMMA SafeCut ==
  ASSUME PartyInv, NEW p \in Party, pc[p] = "saving", NEW k \in Kinds,
         NEW how \in CutChoices
  PROVE  Safe(k, Cut(p, how)[k], used[p], lost[p])
<1>0. HeaderInv(p, k) /\ UseInv(p, k) /\ mem[p][k] \in Sources /\ gens \in Nat
  BY Types DEF PartyInv, PartyOK
<1>1. how \in [Kinds -> {"old", "torn", "new", "blank"}] /\ (how[k] = "blank" => Replaced(k))
  BY DEF CutChoices
<1>2. Safe(k, disk[p][k], used[p], lost[p])
  BY SafeOld
<1>3. Safe(k, Torn, used[p], lost[p])
  <2>1. ASSUME NEW x \in used[p], x[1] = k PROVE x[2] \in 1..gens /\ x[2] # 0
    BY <1>0, <2>1 DEF UseInv
  <2>. QED  BY <1>0, <2>1, NoSourceFields DEF Safe
<1>4. Safe(k, Header(mem[p][k]), used[p], lost[p])
  <2>. DEFINE h == Header(mem[p][k])
  <2>1. /\ h \in Headers /\ h.gen = mem[p][k].gen /\ h.total = mem[p][k].total
        /\ h.cursor = mem[p][k].cursor /\ h.st = "ok"
    BY <1>0, HeaderType DEF Header
  <2>. HIDE DEF h
  <2>2. h.cursor <= h.total /\ h.gen <= gens
    BY <1>0, <2>1 DEF HeaderInv
  <2>3. /\ Stamped(k, h)
        /\ \A x \in used[p] : x[1] = k => x[2] \in 1..gens
        /\ \A x \in used[p] \ lost[p] : x[1] = k /\ x[2] = h.gen => x[3] < h.cursor
    BY <1>0, <2>1 DEF UseInv, Stamped
  <2>4. Safe(k, h, used[p], lost[p])
    BY <2>1, <2>2, <2>3 DEF Safe
  <2>. QED  BY <2>4 DEF h
<1>5. Replaced(k) => Safe(k, Header(NoSource), used[p], lost[p])
  <2>. DEFINE h == Header(NoSource)
  <2>1. h \in Headers /\ h.gen = 0 /\ h.total = 0 /\ h.cursor = 0 /\ h.st = "ok"
    BY NoSourceFields, HeaderType DEF Header
  <2>. HIDE DEF h
  <2>2. ASSUME NEW x \in used[p], x[1] = k PROVE x[2] \in 1..gens /\ x[2] # 0
    BY <1>0, <2>2 DEF UseInv
  <2>3. Replaced(k) => Stamped(k, h)
    BY <2>1, KindFacts DEF Stamped
  <2>4. Replaced(k) => Safe(k, h, used[p], lost[p])
    BY <1>0, <2>1, <2>2, <2>3 DEF Safe
  <2>. QED  BY <2>4 DEF h
<1>6. Cut(p, how)[k] \in {disk[p][k], Torn, Header(mem[p][k])}
      \/ (how[k] = "blank" /\ Cut(p, how)[k] = Header(NoSource))
  <2>1. CASE how[k] = "old"
    BY <2>1 DEF Cut
  <2>2. CASE how[k] = "torn"
    BY <2>2 DEF Cut
  <2>3. CASE how[k] = "new"
    BY <2>3 DEF Cut
  <2>4. CASE how[k] = "blank"
    BY <2>4 DEF Cut
  <2>. QED  BY <1>1, <2>1, <2>2, <2>3, <2>4
<1>. QED  BY <1>1, <1>2, <1>3, <1>4, <1>5, <1>6

\* A party that has gone down, leaving safe headers, keeps its invariant.
LEMMA Down ==
  ASSUME PartyInv, NEW p \in Party, gens' = gens, program' = program,
         pc'[p] = "idle", mem'[p] = EmptyPool, step'[p] \in {step[p], 0},
         log'[p] \in {log[p], <<>>},
         \A k \in Kinds : Safe(k, disk'[p][k], used'[p], lost'[p])
  PROVE  PartyOK(p)'
<1>0. PartyOK(p) /\ gens \in Nat /\ Len(program) \in Nat
  BY Types, ProgramType DEF PartyInv
<1>1. StageInv(p)'
  BY <1>0 DEF PartyOK, StageInv
<1>2. LogInv(p)'
  BY <1>0 DEF PartyOK, LogInv
<1>3. ASSUME NEW k \in Kinds PROVE HeaderInv(p, k)' /\ UseInv(p, k)'
  <2>1. mem'[p][k] = NoSource
    BY DEF EmptyPool
  <2>2. Safe(k, disk'[p][k], used'[p], lost'[p])
    OBVIOUS
  <2>3. HeaderInv(p, k)'
    BY <1>0, <2>1, <2>2, NoSourceFields DEF Safe, HeaderInv
  <2>4. UseInv(p, k)'
    BY <1>0, <2>1, <2>2, NoSourceFields DEF Safe, UseInv
  <2>. QED  BY <2>3, <2>4
<1>. QED  BY <1>1, <1>2, <1>3 DEF PartyOK

\* A directory stays one when the pool is dropped.
LEMMA DroppedType ==
  ASSUME PartyInv, NEW p \in Party
  PROVE  Dropped(p) \in [Kinds -> Headers]
<1>1. \A k \in Kinds : Dropped(p)[k] \in Headers
  BY DroppedField
<1>2. Dropped(p) = [k \in Kinds |-> Dropped(p)[k]]
  BY DEF Dropped
<1>. QED  BY <1>1, <1>2

\* A directory stays one when the save is cut.
LEMMA CutType ==
  ASSUME PartyInv, NEW p \in Party, pc[p] = "saving", NEW how \in CutChoices
  PROVE  Cut(p, how) \in [Kinds -> Headers]
<1>1. \A k \in Kinds : Cut(p, how)[k] \in Headers
  BY SafeCut DEF Safe
<1>. DEFINE H(k) == CASE how[k] = "old"  -> disk[p][k]
                      [] how[k] = "torn" -> Torn
                      [] how[k] = "new"  -> Header(mem[p][k])
                      [] how[k] = "blank" -> IF plan[p].fresh THEN Header(NoSource)
                                             ELSE disk[p][k]
<1>2. Cut(p, how) = [k \in Kinds |-> H(k)]
  BY DEF Cut
<1>. HIDE DEF H
<1>. QED  BY <1>1, <1>2

\* What a party has used and what its directory does not record are items.
LEMMA AfterType ==
  ASSUME PartyInv, NEW p \in Party, NEW kill
  PROVE  UsedAfter(p) \in SUBSET Items /\ LostAfter(p, kill) \in SUBSET Items
<1>1. LoggedItems(p) \in SUBSET Items /\ used[p] \in SUBSET Items /\ lost[p] \in SUBSET Items
  BY LoggedType, Types DEF PartyInv
<1>. QED  BY <1>1 DEF UsedAfter, LostAfter

\* Finishing a proof drops the pool.
LEMMA FinishStep ==
  ASSUME PartyInv, NEW p \in Party, Finish(p)
  PROVE  PartyInv'
<1>0. TypeOK /\ pc[p] = "proving"
  BY DEF PartyInv, Finish
<1>1. /\ disk'[p] = Dropped(p) /\ mem'[p] = EmptyPool /\ pc'[p] = "idle"
      /\ used'[p] = UsedAfter(p) /\ lost'[p] = LostAfter(p, FALSE) /\ step' = step /\ log' = log
      /\ gens' = gens /\ program' = program
  BY <1>0, Types DEF Finish
<1>2. TypeOK'
  <2>1. UsedAfter(p) \in SUBSET Items /\ LostAfter(p, FALSE) \in SUBSET Items
    BY <1>0, AfterType
  <2>2. torn' \in BOOLEAN
    BY <1>0, Types DEF Finish, RingTaken
  <2>. QED  BY <1>0, <2>1, <2>2, DroppedType, EmptyPoolType, Types, TypesNext DEF Finish
<1>3. \A k \in Kinds : Safe(k, disk'[p][k], used'[p], lost'[p])
  <2>1. used'[p] = UsedUp(p) /\ lost'[p] = LostUp(p, FALSE)
    BY <1>0, <1>1 DEF UsedUp, LostUp
  <2>. QED  BY <1>0, <1>1, <2>1, SafeDropped
<1>4. PartyOK(p)'
  BY <1>1, <1>3, Down
<1>5. ASSUME NEW q \in Party, q # p PROVE PartyOK(q)'
  BY <1>0, <1>5, Untouched, Types DEF PartyInv, Finish
<1>. QED  BY <1>2, <1>4, <1>5 DEF PartyInv

\* All parties go down, with the directories disk'.
LEMMA AllDownStep ==
  ASSUME PartyInv, NEW killed \in SUBSET Party, AllDown(killed),
         disk' \in [Party -> [Kinds -> Headers]], faults' \in Nat, torn' \in BOOLEAN,
         \A p \in Party, k \in Kinds : Safe(k, disk'[p][k], used'[p], lost'[p])
  PROVE  PartyInv'
<1>1. TypeOK'
  <2>1. TypeOK
    BY DEF PartyInv
  <2>2. used' \in [Party -> SUBSET Items] /\ lost' \in [Party -> SUBSET Items]
    <3>1. ASSUME NEW p \in Party
          PROVE  /\ UsedAfter(p) \in SUBSET Items /\ LostAfter(p, p \in killed) \in SUBSET Items
                 /\ used[p] \in SUBSET Items /\ lost[p] \in SUBSET Items
      BY <2>1, AfterType, Types
    <3>. QED  BY <3>1 DEF AllDown
  <2>3. <<>> \in Seq(SUBSET Items)
    OBVIOUS
  <2>. QED  BY <2>1, <2>2, <2>3, EmptyPoolType, NoPlanType, Types, TypesNext DEF AllDown
<1>2. ASSUME NEW p \in Party PROVE PartyOK(p)'
  <2>1. /\ gens' = gens /\ program' = program /\ pc'[p] = "idle" /\ mem'[p] = EmptyPool
        /\ step'[p] = 0 /\ log'[p] = <<>>
    BY DEF AllDown
  <2>. QED  BY <2>1, Down
<1>. QED  BY <1>1, <1>2 DEF PartyInv

\* An abort takes all parties down: killed ones without the drop of their pool, or in mid-save.
LEMMA AbortStep ==
  ASSUME PartyInv, NEW killed \in SUBSET Party, NEW how \in CutChoices, Abort(killed, how)
  PROVE  PartyInv'
<1>1. AllDown(killed) /\ faults' \in Nat /\ torn' \in BOOLEAN
  <2>1. faults \in Nat /\ torn \in BOOLEAN
    BY Types DEF PartyInv
  <2>2. AtRisk(killed) \in BOOLEAN
    BY DEF AtRisk
  <2>. QED  BY <2>1, <2>2 DEF Abort
<1>2. ASSUME NEW p \in Party
      PROVE  /\ disk'[p] \in [Kinds -> Headers]
             /\ \A k \in Kinds : Safe(k, disk'[p][k], used'[p], lost'[p])
  <2>1. CASE p \notin killed
    <3>1. pc[p] # "saving" /\ disk'[p] = Dropped(p)
      BY <2>1 DEF Abort
    <3>2. used'[p] = UsedUp(p) /\ lost'[p] = LostUp(p, FALSE)
      BY <1>1, <2>1 DEF AllDown, UsedUp, LostUp, LostAfter, Unrecorded
    <3>. QED  BY <3>1, <3>2, SafeDropped, DroppedType
  <2>2. CASE p \in killed /\ pc[p] = "saving"
    <3>1. disk'[p] = Cut(p, how)
      BY <2>2 DEF Abort
    <3>2. used'[p] = used[p] /\ lost'[p] = lost[p]
      <4>1. used'[p] = UsedUp(p) /\ lost'[p] = LostUp(p, p \in killed)
        BY <1>1 DEF AllDown, UsedUp, LostUp
      <4>. QED  BY <2>2, <4>1, NothingLogged
    <3>. QED  BY <2>2, <3>1, <3>2, SafeCut, CutType
  <2>3. CASE p \in killed /\ pc[p] # "saving"
    <3>1. disk'[p] = disk[p]
      BY <2>3 DEF Abort
    <3>2. used'[p] = UsedUp(p) /\ lost'[p] = LostUp(p, TRUE)
      BY <1>1, <2>3 DEF AllDown, UsedUp, LostUp, LostAfter, Unrecorded
    <3>3. disk[p] \in [Kinds -> Headers]
      BY Types DEF PartyInv
    <3>. QED  BY <3>1, <3>2, <3>3, SafeKilled
  <2>. QED  BY <2>1, <2>2, <2>3
<1>3. disk' \in [Party -> [Kinds -> Headers]]
  <2>1. disk' = [p \in Party |-> disk'[p]]
    BY DEF Abort
  <2>. QED  BY <1>2, <2>1
<1>. QED  BY <1>1, <1>2, <1>3, AllDownStep

\* Parties whose plans differ fail together.
LEMMA DesynchronisedStep ==
  ASSUME PartyInv, Desynchronised
  PROVE  PartyInv'
<1>1. AllDown({}) /\ faults' \in Nat /\ torn' \in BOOLEAN
  BY Types DEF PartyInv, Desynchronised
<1>2. ASSUME NEW p \in Party
      PROVE  /\ disk'[p] \in [Kinds -> Headers]
             /\ \A k \in Kinds : Safe(k, disk'[p][k], used'[p], lost'[p])
  <2>1. pc[p] # "saving" /\ disk'[p] = Dropped(p)
    BY DEF Desynchronised
  <2>2. used'[p] = UsedUp(p) /\ lost'[p] = LostUp(p, FALSE)
    BY <1>1 DEF AllDown, UsedUp, LostUp, LostAfter, Unrecorded
  <2>. QED  BY <2>1, <2>2, SafeDropped, DroppedType
<1>3. disk' \in [Party -> [Kinds -> Headers]]
  <2>1. disk' = [p \in Party |-> disk'[p]]
    BY DEF Desynchronised
  <2>. QED  BY <1>2, <2>1
<1>4. {} \in SUBSET Party
  OBVIOUS
<1>. QED  BY <1>1, <1>2, <1>3, <1>4, AllDownStep

\* The invariant holds of the empty directories a deployment starts with.
LEMMA InitPartyInv == Init => PartyInv
<1>. SUFFICES ASSUME Init PROVE PartyInv
  OBVIOUS
<1>1. TypeOK
  <2>1. <<>> \in Seq(SUBSET Items)
    OBVIOUS
  <2>. QED  BY <2>1, NoSourceFields, EmptyPoolType, NoPlanType, Types DEF Init
<1>2. ASSUME NEW p \in Party PROVE PartyOK(p)
  <2>1. StageInv(p) /\ LogInv(p)
    BY DEF Init, StageInv, LogInv
  <2>2. ASSUME NEW k \in Kinds PROVE HeaderInv(p, k) /\ UseInv(p, k)
    <3>1. /\ disk[p][k] = Missing /\ mem[p][k] = NoSource /\ pc[p] = "idle" /\ gens = 0
          /\ used[p] = {} /\ lost[p] = {}
      BY DEF Init, EmptyPool
    <3>. QED  BY <3>1, NoSourceFields DEF HeaderInv, UseInv
  <2>. QED  BY <2>1, <2>2 DEF PartyOK
<1>. QED  BY <1>1, <1>2 DEF PartyInv

\* The invariant depends on nothing but the variables.
LEMMA PartyInvStutter ==
  ASSUME PartyInv, UNCHANGED vars
  PROVE  PartyInv'
<1>. USE DEF vars
<1>1. TypeOK'
  BY DEF PartyInv, TypeOK
<1>2. ASSUME NEW p \in Party PROVE PartyOK(p)'
  BY Untouched DEF PartyInv
<1>. QED  BY <1>1, <1>2 DEF PartyInv

\* Every step keeps the invariant of the parties.
LEMMA PartyInvStep == PartyInv /\ [Next]_vars => PartyInv'
<1>. SUFFICES ASSUME PartyInv, [Next]_vars PROVE PartyInv'
  OBVIOUS
<1>1. CASE UNCHANGED vars
  BY <1>1, PartyInvStutter
<1>2. CASE AwaitUser
  BY <1>2, PartyInvStutter DEF AwaitUser
<1>3. CASE \E prog \in Programs : NewJob(prog)
  BY <1>3, NewJobStep
<1>4. ASSUME NEW p \in Party, Plan(p) \/ Reuse(p) \/ Save(p) \/ Take(p) \/ Finish(p)
      PROVE  PartyInv'
  BY <1>4, PlanStep, ReuseStep, SaveStep, TakeStep, FinishStep
<1>5. CASE Preprocess
  BY <1>5, PreprocessStep
<1>6. CASE \E killed \in SUBSET Party, how \in CutChoices : Abort(killed, how)
  BY <1>6, AbortStep
<1>7. CASE Desynchronised
  BY <1>7, DesynchronisedStep
<1>. QED  BY <1>1, <1>2, <1>3, <1>4, <1>5, <1>6, <1>7 DEF Next

\* At every point of every sequence of jobs and aborts, each party has a pool that covers
\* the rest of its program, a header not ahead of its source, and its used items behind
\* the cursors (pool.rs: load, generate, save, take, drop).
THEOREM PartyInvariant == Spec => []PartyInv
BY InitPartyInv, PartyInvStep, PTL DEF Spec

\* Every reachable state is well typed: headers, sources, plans and logs of pool.rs.
THEOREM TypeCorrect == Spec => []TypeOK
<1>1. PartyInv => TypeOK
  BY DEF PartyInv
<1>. QED  BY <1>1, PartyInvariant, PTL

\* A source that covers the rest of the program covers the next take.
LEMMA CoveredTakes == PartyInv => NeverExhausted
<1>. SUFFICES ASSUME PartyInv, NEW p \in Party, pc[p] = "proving", step[p] < Len(program)
              PROVE  mem[p][TakeKind(p)].cursor + TakeCount(p) <= mem[p][TakeKind(p)].total
  BY DEF NeverExhausted, TakeCount, TakeKind
<1>. DEFINE k == TakeKind(p)
<1>1. TypeOK /\ program \in Seq(Takes) /\ program \in Programs \cup {<<>>} /\ StageInv(p)
  BY ProgramType DEF PartyInv, PartyOK
<1>2. /\ step[p] \in 0..Len(program) - 1 /\ step[p] + 1 \in 0..Len(program)
      /\ k \in Kinds /\ TakeCount(p) \in Nat
      /\ Used(k, step[p] + 1) = Used(k, step[p]) + TakeCount(p)
  BY <1>1, TakeType
<1>3. Budget(program)[k] - Used(k, step[p]) <= Remaining(mem[p][k])
  BY <1>1, <1>2 DEF StageInv
<1>4. /\ Used(k, step[p] + 1) <= Budget(program)[k] /\ Used(k, step[p]) \in Nat
      /\ Budget(program)[k] \in Nat
  <2>1. step[p] \in 0..Len(program)
    BY <1>2
  <2>. QED  BY <1>1, <1>2, <2>1, UsedSteps, BudgetType
<1>5. mem[p][k].cursor \in Nat /\ mem[p][k].total \in Nat
  <2>1. mem[p][k] \in Sources
    BY <1>1, <1>2, Types
  <2>. QED  BY <2>1 DEF Sources
<1>. HIDE DEF k
<1>6. mem[p][k].cursor + TakeCount(p) <= mem[p][k].total
  <2>1. Budget(program)[k] - Used(k, step[p]) <= mem[p][k].total - mem[p][k].cursor
    BY <1>3 DEF Remaining
  <2>2. \A b, u, n, t, c \in Nat : u + n <= b /\ b - u <= t - c => c + n <= t
    OBVIOUS
  <2>3. Used(k, step[p]) + TakeCount(p) <= Budget(program)[k]
    BY <1>2, <1>4
  <2>. QED  BY <1>2, <1>4, <1>5, <2>1, <2>2, <2>3
<1>. QED  BY <1>6 DEF k

\* No take of a planned proof finds its source exhausted: what plan_generation decides from
\* the headers and what the prover takes later never part, whatever aborts came between.
THEOREM TakesAreCovered == Spec => []NeverExhausted
BY CoveredTakes, PartyInvariant, PTL

\* The items of the proof are not among the used ones, but for the lost.
LEMMA BehindTheCursor == PartyInv => NeverReused
<1>. SUFFICES ASSUME PartyInv, NEW p \in Party
              PROVE  /\ pc[p] = "proving" => LoggedItems(p) \cap used[p] \subseteq lost[p]
                     /\ \A i, j \in DOMAIN log[p] : i # j => log[p][i] \cap log[p][j] = {}
  BY DEF NeverReused
<1>1. PartyOK(p)
  BY DEF PartyInv
<1>2. ASSUME pc[p] = "proving", NEW x \in LoggedItems(p) \cap used[p]
      PROVE  x \in lost[p]
  <2>1. x \in Items
    BY LoggedType
  <2>2. x[1] \in Kinds
    BY <2>1 DEF Items
  <2>3. UseInv(p, x[1])
    BY <1>1, <2>2 DEF PartyOK
  <2>. QED  BY <1>2, <2>3 DEF UseInv
<1>. QED  BY <1>1, <1>2 DEF PartyOK, LogInv

\* Whatever proofs end, fail or are killed, and wherever a save is cut, a party hands an item
\* out a second time only if its last use was one of those that Unrecorded names: of a one-hot
\* vector or daPoint by the process that created the source, of ring edaBits at P0 and P1, of
\* daBits by a P1 that was killed (take_batch, persist_cursor and drop of the sources).
THEOREM ItemsUsedOnce == Spec => []NeverReused
BY BehindTheCursor, PartyInvariant, PTL

-----------------------------------------------------------------------------
(* The parties together: as long as no abort has hit a window of AtRisk, the *)
(* three of them follow one run.                                             *)

\* A directory no abort has cut: still empty, or all there.
Uniform(d) == (\A k \in Kinds : d[k] = Missing) \/ (\A k \in Kinds : d[k].st = "ok")

\* The i-th take of a proof that began with the pool S.
Taken(S, i) ==
  Batch(Advanced(S[program[i].kind], Used(program[i].kind, i - 1)), program[i].kind, program[i].n)

\* The header of S[k] after i takes that were made durable or not.
HeaderAt(S, k, i, durable) ==
  [st |-> "ok", gen |-> S[k].gen, total |-> S[k].total,
   cursor |-> S[k].cursor + (IF S[k].path /\ durable THEN Used(k, i) ELSE 0)]

Early(p) == pc[p] \in {"start", "planned"}

\* Party p follows the run that started from the directory H and proves with
\* the pool S.
Follows(p, H, S) ==
  /\ Early(p) => disk[p] = H
  /\ ~Early(p) =>
       /\ plan[p] = PlanFor(H, program)
       /\ log[p] = [i \in 1..step[p] |-> Taken(S, i)]
  /\ pc[p] = "saving" => \A k \in Kinds : Saved(mem[p][k], k) = S[k]
  /\ pc[p] = "proving" =>
       \A k \in Kinds :
         /\ mem[p][k] = Advanced(S[k], Used(k, step[p]))
         /\ disk[p][k] = HeaderAt(S, k, step[p], PersistsOnTake(k, p))
  /\ pc[p] = "idle" =>
       /\ step[p] = Len(program)
       /\ \A k \in Kinds : disk[p][k] = HeaderAt(S, k, step[p], TRUE)

Together(H, S) ==
  /\ H \in [Kinds -> Headers] /\ S \in [Kinds -> Sources]
  /\ Uniform(H)
  /\ NothingToDo(PlanFor(H, program)) => S = LoadPool(H)
  /\ \A p \in Party : Follows(p, H, S)
  /\ (\E p, q \in Party : Early(p) /\ ~Early(q)) => NothingToDo(PlanFor(H, program))

\* Nobody runs, and the directories are the same.
Quiet ==
  /\ \A p \in Party : pc[p] = "idle"
  /\ \A p \in Party : Uniform(disk[p])
  /\ \A p, q \in Party : disk[p] = disk[q] /\ log[p] = log[q] /\ plan[p] = plan[q]

SyncInv ==
  ~torn => Quiet \/ ((\E p \in Party : pc[p] # "idle") /\ \E H, S : Together(H, S))

\* Parties that follow one run have the same plan and the same batches.
LEMMA PlansFollow ==
  ASSUME PartyInv, SyncInv
  PROVE  PlansAgree /\ Aligned
<1>. SUFFICES ASSUME ~torn PROVE PlansAgree /\ Aligned
  BY DEF PlansAgree, Aligned
<1>1. CASE Quiet
  <2>1. PlansAgree
    BY <1>1 DEF Quiet, PlansAgree, InJob
  <2>2. Aligned
    BY <1>1 DEF Quiet, Aligned
  <2>. QED  BY <2>1, <2>2
<1>2. CASE \E H, S : Together(H, S)
  <2>1. PICK H, S : Together(H, S)
    BY <1>2
  <2>2. ASSUME NEW p \in Party
        PROVE  /\ p \in InJob => plan[p] = PlanFor(H, program)
               /\ \A i \in DOMAIN log[p] : log[p][i] = Taken(S, i)
    <3>1. Follows(p, H, S) /\ StageInv(p)
      BY <2>1 DEF Together, PartyInv, PartyOK
    <3>2. CASE Early(p)
      <4>1. log[p] = <<>>
        BY <3>1, <3>2 DEF Early, StageInv
      <4>2. p \in InJob => plan[p] = PlanFor(H, program)
        <5>1. CASE pc[p] = "start"
          BY <3>1, <5>1 DEF StageInv, InJob, NoPlan
        <5>2. CASE pc[p] = "planned"
          BY <3>1, <3>2, <5>2 DEF StageInv, Follows
        <5>. QED  BY <3>2, <5>1, <5>2 DEF Early
      <4>. QED  BY <4>1, <4>2
    <3>3. CASE ~Early(p)
      BY <3>1, <3>3 DEF Follows
    <3>. QED  BY <3>2, <3>3
  <2>3. PlansAgree
    <3>1. \A p \in InJob : p \in Party
      BY DEF InJob
    <3>. QED  BY <2>2, <3>1 DEF PlansAgree
  <2>4. Aligned
    BY <2>2 DEF Aligned
  <2>. QED  BY <2>3, <2>4
<1>. QED  BY <1>1, <1>2 DEF SyncInv

\* A party keeps following when nothing of it changes.
LEMMA KeepsFollowing ==
  ASSUME NEW q, NEW H, NEW S, Follows(q, H, S), program' = program,
         disk'[q] = disk[q], mem'[q] = mem[q], pc'[q] = pc[q], plan'[q] = plan[q],
         step'[q] = step[q], log'[q] = log[q]
  PROVE  Follows(q, H, S)'
<1>1. /\ \A i : Taken(S, i)' = Taken(S, i)
      /\ \A k, i, d : HeaderAt(S, k, i, d)' = HeaderAt(S, k, i, d)
      /\ \A k, i : Used(k, i)' = Used(k, i)
      /\ PlanFor(H, program)' = PlanFor(H, program)
      /\ Early(q)' <=> Early(q)
  BY DEF Taken, HeaderAt, Used, Early
<1>2. (log[q] = [i \in 1..step[q] |-> Taken(S, i)]) =>
      (log'[q] = [i \in 1..step'[q] |-> Taken(S, i)'])
  BY <1>1
<1>3. \A k : Used(k, step[q])' = Used(k, step[q])
  BY <1>1 DEF Used
<1>4. \A k : /\ HeaderAt(S, k, step[q], TRUE)' = HeaderAt(S, k, step[q], TRUE)
              /\ HeaderAt(S, k, step[q], PersistsOnTake(k, q))' =
                   HeaderAt(S, k, step[q], PersistsOnTake(k, q))
  BY <1>3 DEF HeaderAt
<1>5. pc[q] = "idle" =>
        step'[q] = Len(program') /\ \A k \in Kinds : disk'[q][k] = HeaderAt(S, k, step[q], TRUE)'
  BY <1>4 DEF Follows
<1>. QED  BY <1>1, <1>2, <1>3, <1>4, <1>5 DEF Follows

\* The fields of a header after some takes.
LEMMA HeaderAtFields ==
  ASSUME NEW S, NEW k, NEW i, NEW d
  PROVE  /\ HeaderAt(S, k, i, d).st = "ok" /\ HeaderAt(S, k, i, d).gen = S[k].gen
         /\ HeaderAt(S, k, i, d).total = S[k].total
         /\ HeaderAt(S, k, i, d).cursor =
              S[k].cursor + (IF S[k].path /\ d THEN Used(k, i) ELSE 0)
         /\ DOMAIN HeaderAt(S, k, i, d) = {"st", "gen", "total", "cursor"}
BY DEF HeaderAt

\* Headers with the same fields are the same.
LEMMA SameHeader ==
  ASSUME NEW g \in Headers, NEW h \in Headers,
         g.st = h.st, g.gen = h.gen, g.total = h.total, g.cursor = h.cursor
  PROVE  g = h
BY DEF Headers

\* Sources with the same fields are the same.
LEMMA SameSource ==
  ASSUME NEW r \in Sources, NEW s \in Sources,
         r.gen = s.gen, r.total = s.total, r.cursor = s.cursor, r.path <=> s.path
  PROVE  r = s
BY DEF Sources

\* A header after some takes is a header.
LEMMA HeaderAtType ==
  ASSUME TypeOK, NEW S \in [Kinds -> Sources], NEW k \in Kinds, NEW i \in 0..Len(program), NEW d
  PROVE  HeaderAt(S, k, i, d) \in Headers
<1>1. Used(k, i) \in Nat
  BY UsedSteps
<1>2. S[k].gen \in Nat /\ S[k].total \in Nat /\ S[k].cursor \in Nat
  BY DEF Sources
<1>3. S[k].cursor + (IF S[k].path /\ d THEN Used(k, i) ELSE 0) \in Nat
  BY <1>1, <1>2
<1>. QED  BY <1>2, <1>3 DEF HeaderAt, Headers

\* A uniform directory can be loaded exactly if it is all there.
LEMMA UniformLoads ==
  ASSUME NEW H \in [Kinds -> Headers], Uniform(H), LoadSucceeds(H), NEW k \in Kinds
  PROVE  H[k].st = "ok" /\ LoadPool(H)[k] = Loaded(H[k])
<1>1. \A j \in Kinds : H[j].st = "ok"
  <2>1. "EdaBits" \in Kinds /\ ~EmptyIfMissing("EdaBits")
    BY KindsAssumption DEF BaseKinds, EmptyIfMissing
  <2>. QED  BY <2>1, NoSourceFields DEF Uniform, LoadSucceeds
<1>. QED  BY <1>1 DEF LoadPool

\* The header of a source just loaded.
LEMMA LoadedHeader ==
  ASSUME TypeOK, NEW H \in [Kinds -> Headers], Uniform(H), LoadSucceeds(H),
         NEW k \in Kinds, NEW d
  PROVE  /\ H[k] = HeaderAt(LoadPool(H), k, 0, d)
         /\ Saved(LoadPool(H)[k], k) = LoadPool(H)[k]
<1>. DEFINE S == LoadPool(H)
<1>1. H[k].st = "ok" /\ S[k] = Loaded(H[k]) /\ H[k] \in Headers
  BY UniformLoads
<1>2. S \in [Kinds -> Sources] /\ 0 \in 0..Len(program) /\ Used(k, 0) = 0
  BY PoolType, UsedSteps, ProgramType
<1>3. /\ S[k].gen = H[k].gen /\ S[k].total = H[k].total /\ S[k].cursor = H[k].cursor
      /\ S[k].path
  BY <1>1, LoadedFields
<1>. HIDE DEF S
<1>4. S[k] \in Sources /\ H[k].cursor \in Nat
  BY <1>1, <1>2 DEF Headers
<1>5. HeaderAt(S, k, 0, d) \in Headers
  BY <1>2, HeaderAtType
<1>6. H[k] = HeaderAt(S, k, 0, d)
  BY <1>1, <1>2, <1>3, <1>4, <1>5, HeaderAtFields, SameHeader
<1>7. Saved(S[k], k) = S[k]
  BY <1>3, <1>4, SavedFields, SameSource
<1>. QED  BY <1>6, <1>7 DEF S

\* Taking nothing changes nothing.
LEMMA AdvancedZero ==
  ASSUME NEW s \in Sources
  PROVE  Advanced(s, 0) = s
<1>1. s.cursor \in Nat /\ s.cursor + 0 = s.cursor
  BY DEF Sources
<1>. QED  BY <1>1, AdvancedFields, SameSource

\* A new job starts a run from the one directory the parties share.
LEMMA SyncNewJob ==
  ASSUME PartyInv, SyncInv, NEW prog \in Programs, NewJob(prog)
  PROVE  SyncInv'
<1>. SUFFICES ASSUME ~torn PROVE SyncInv'
  BY DEF SyncInv, NewJob
<1>1. Quiet
  BY DEF SyncInv, NewJob
<1>. DEFINE H == disk[0]
<1>2. 0 \in Party /\ disk' = disk
  BY DEF Party, NewJob
<1>3. H \in [Kinds -> Headers] /\ LoadPool(H) \in [Kinds -> Sources] /\ Uniform(H)
      /\ \A p \in Party : disk[p] = H
  BY <1>1, <1>2, Types, PoolType DEF PartyInv, Quiet
<1>4. \A p \in Party : pc'[p] = "start"
  BY DEF NewJob
<1>5. PICK H1 : H1 = H
  OBVIOUS
<1>. HIDE DEF H
<1>6. \A p \in Party : Follows(p, H1, LoadPool(H1))'
  BY <1>2, <1>3, <1>4, <1>5 DEF Follows, Early
<1>7. Together(H1, LoadPool(H1))'
  BY <1>3, <1>4, <1>5, <1>6 DEF Together, Early
<1>8. \E p \in Party : pc'[p] # "idle"
  BY <1>2, <1>4
<1>9. \E H2, S2 : Together(H2, S2)'
  BY <1>7
<1>. QED  BY <1>8, <1>9 DEF SyncInv

\* One party moves on, still following the run.
LEMMA SyncMove ==
  ASSUME NEW p \in Party, NEW H, NEW S, Together(H, S), program' = program,
         \A q \in Party \ {p} :
           /\ disk'[q] = disk[q] /\ mem'[q] = mem[q] /\ pc'[q] = pc[q] /\ plan'[q] = plan[q]
           /\ step'[q] = step[q] /\ log'[q] = log[q],
         Follows(p, H, S)', Early(p)' => Early(p),
         Early(p) /\ ~Early(p)' => NothingToDo(PlanFor(H, program))
  PROVE  Together(H, S)'
<1>1. ASSUME NEW q \in Party PROVE Follows(q, H, S)'
  <2>1. CASE q = p
    BY <2>1
  <2>2. CASE q # p
    BY <2>2, KeepsFollowing DEF Together
  <2>. QED  BY <2>1, <2>2
<1>2. \A q \in Party \ {p} : Early(q)' <=> Early(q)
  BY DEF Early
<1>3. (\E a, b \in Party : Early(a)' /\ ~Early(b)') => NothingToDo(PlanFor(H, program))
  BY <1>2 DEF Together
<1>. QED  BY <1>1, <1>3 DEF Together

\* The plan of every party is that of the directory the run started from.
LEMMA SyncPlan ==
  ASSUME PartyInv, SyncInv, NEW p \in Party, Plan(p)
  PROVE  SyncInv'
<1>. SUFFICES ASSUME ~torn PROVE SyncInv'
  BY DEF SyncInv, Plan
<1>0. TypeOK /\ pc[p] = "start" /\ pc'[p] = "planned" /\ disk' = disk /\ program' = program
  BY Types DEF PartyInv, Plan
<1>1. PICK H, S : Together(H, S)
  BY <1>0 DEF SyncInv, Quiet
<1>2. \A q \in Party \ {p} :
        /\ disk'[q] = disk[q] /\ mem'[q] = mem[q] /\ pc'[q] = pc[q] /\ plan'[q] = plan[q]
        /\ step'[q] = step[q] /\ log'[q] = log[q]
  BY <1>0, Types DEF Plan
<1>3. disk[p] = H /\ Early(p) /\ Early(p)'
  BY <1>0, <1>1 DEF Together, Follows, Early
<1>4. Follows(p, H, S)'
  BY <1>0, <1>3 DEF Follows
<1>5. Together(H, S)'
  BY <1>0, <1>1, <1>2, <1>3, <1>4, SyncMove
<1>. QED  BY <1>0, <1>5 DEF SyncInv

\* The party that reuses its pool proves with what every other one loads.
LEMMA SyncReuse ==
  ASSUME PartyInv, SyncInv, NEW p \in Party, Reuse(p)
  PROVE  SyncInv'
<1>. SUFFICES ASSUME ~torn PROVE SyncInv'
  BY DEF SyncInv, Reuse
<1>0. /\ TypeOK /\ StageInv(p) /\ pc[p] = "planned" /\ pc'[p] \in {"saving", "proving"}
      /\ disk' = disk /\ mem' = mem /\ plan' = plan /\ step' = step /\ log' = log
      /\ program' = program /\ NothingToDo(plan[p]) /\ program \in Seq(Takes)
  BY Types, ProgramType DEF PartyInv, PartyOK, Reuse
<1>1. PICK H, S : Together(H, S)
  BY <1>0 DEF SyncInv, Quiet
<1>2. \A q \in Party \ {p} : pc'[q] = pc[q]
  BY <1>0, Types DEF Reuse
<1>3. disk[p] = H /\ Early(p) /\ ~Early(p)'
  BY <1>0, <1>1 DEF Together, Follows, Early
<1>4. /\ mem[p] = LoadPool(H) /\ plan[p] = PlanFor(H, program) /\ step[p] = 0 /\ log[p] = <<>>
      /\ NothingToDo(PlanFor(H, program)) /\ S = LoadPool(H)
      /\ H \in [Kinds -> Headers] /\ Uniform(H) /\ S \in [Kinds -> Sources]
  BY <1>0, <1>1, <1>3 DEF StageInv, Together
<1>5. LoadSucceeds(H)
  BY <1>4 DEF NothingToDo, PlanFor
<1>6. ASSUME NEW k \in Kinds
      PROVE  /\ Saved(mem[p][k], k) = S[k]
             /\ mem[p][k] = Advanced(S[k], Used(k, step[p]))
             /\ disk[p][k] = HeaderAt(S, k, step[p], PersistsOnTake(k, p))
  <2>1. Saved(S[k], k) = S[k] /\ H[k] = HeaderAt(S, k, 0, PersistsOnTake(k, p))
    BY <1>0, <1>4, <1>5, LoadedHeader
  <2>2. Used(k, 0) = 0 /\ S[k] \in Sources
    BY <1>0, <1>4, UsedSteps
  <2>3. Advanced(S[k], 0) = S[k]
    BY <2>2, AdvancedZero
  <2>. QED  BY <1>3, <1>4, <2>1, <2>2, <2>3
<1>7. log[p] = [i \in 1..step[p] |-> Taken(S, i)]
  <2>1. <<>> = [i \in 1..0 |-> Taken(S, i)]
    OBVIOUS
  <2>. QED  BY <1>4, <2>1
<1>8. Follows(p, H, S)'
  <2>1. /\ PlanFor(H, program)' = PlanFor(H, program)
        /\ \A i : Taken(S, i)' = Taken(S, i)
        /\ \A k : Used(k, step[p])' = Used(k, step[p])
    BY <1>0 DEF Taken, Used
  <2>2. \A k : HeaderAt(S, k, step[p], PersistsOnTake(k, p))' =
                 HeaderAt(S, k, step[p], PersistsOnTake(k, p))
    BY <2>1 DEF HeaderAt
  <2>3. log'[p] = [i \in 1..step'[p] |-> Taken(S, i)']
    BY <1>0, <1>7, <2>1
  <2>4. plan'[p] = PlanFor(H, program)' /\ pc'[p] # "idle"
    BY <1>0, <1>4
  <2>5. ASSUME NEW k \in Kinds
        PROVE  /\ Saved(mem'[p][k], k) = S[k]
               /\ mem'[p][k] = Advanced(S[k], Used(k, step[p])')
               /\ disk'[p][k] = HeaderAt(S, k, step[p], PersistsOnTake(k, p))'
    BY <1>0, <1>6, <2>1, <2>2
  <2>. QED  BY <1>3, <2>3, <2>4, <2>5 DEF Follows
<1>9. Together(H, S)'
  BY <1>0, <1>1, <1>2, <1>3, <1>4, <1>8, SyncMove
<1>10. pc'[p] # "idle"
  BY <1>0
<1>. QED  BY <1>9, <1>10 DEF SyncInv

\* Generation is joint: every party gets the same sources.
LEMMA SyncPreprocess ==
  ASSUME PartyInv, SyncInv, Preprocess
  PROVE  SyncInv'
<1>. SUFFICES ASSUME ~torn PROVE SyncInv'
  BY DEF SyncInv, Preprocess
<1>0. /\ TypeOK /\ program' = program /\ plan' = plan /\ step' = step /\ log' = log
      /\ gens + 1 \in Nat /\ program \in Programs \cup {<<>>} /\ 0 \in Party
  BY Types, ProgramType DEF PartyInv, Preprocess, Party
<1>1. \A p \in Party : pc[p] = "planned" /\ pc'[p] = "saving" /\ Early(p) /\ ~Early(p)'
  BY DEF Preprocess, AllPlanned, Early
<1>2. PICK H, S0 : Together(H, S0)
  BY <1>0, <1>1 DEF SyncInv, Quiet
<1>3. H \in [Kinds -> Headers] /\ Uniform(H)
  BY <1>2 DEF Together
<1>4. ASSUME NEW p \in Party
      PROVE  /\ disk[p] = H /\ mem[p] = LoadPool(H) /\ plan[p] = PlanFor(H, program)
             /\ step[p] = 0 /\ log[p] = <<>>
  <2>1. disk[p] = H
    BY <1>1, <1>2 DEF Together, Follows
  <2>2. StageInv(p)
    BY DEF PartyInv, PartyOK
  <2>. QED  BY <1>1, <2>1, <2>2 DEF StageInv
<1>5. ~NothingToDo(PlanFor(H, program))
  BY <1>0, <1>4 DEF Preprocess
<1>. DEFINE G(k) == Generated(LoadPool(H)[k], k, PlanFor(H, program), gens + 1)
<1>6. PICK g : g = gens + 1 /\ g \in Nat
  BY <1>0
<1>7. PICK S : S = [k \in Kinds |-> Saved(G(k), k)]
  OBVIOUS
<1>8. ASSUME NEW p \in Party, NEW k \in Kinds
      PROVE  mem'[p][k] = G(k) /\ G(k) \in Sources /\ Saved(G(k), k) \in Sources
  <2>1. mem'[p][k] = G(k)
    BY <1>4 DEF Preprocess
  <2>2. HeaderInv(p, k) /\ disk[p][k] \in Headers /\ gens \in Nat
    BY Types DEF PartyInv, PartyOK
  <2>3. H[k].cursor <= H[k].total /\ H[k].gen <= gens + 1
    BY <1>4, <2>2 DEF HeaderInv, Headers
  <2>4. G(k) \in Sources
    BY <1>0, <1>3, <2>3, GeneratedFacts
  <2>. QED  BY <2>1, <2>4, SavedFields
<1>. HIDE DEF G
<1>9. S \in [Kinds -> Sources]
  BY <1>0, <1>7, <1>8
<1>10. \A p \in Party : Follows(p, H, S)'
  <2>. SUFFICES ASSUME NEW p \in Party PROVE Follows(p, H, S)'
    OBVIOUS
  <2>1. \A k \in Kinds : Saved(mem'[p][k], k) = S[k]
    BY <1>7, <1>8
  <2>2. log'[p] = [i \in 1..step'[p] |-> Taken(S, i)']
    <3>1. <<>> = [i \in 1..0 |-> Taken(S, i)']
      OBVIOUS
    <3>. QED  BY <1>0, <1>4, <3>1
  <2>3. plan'[p] = PlanFor(H, program)'
    BY <1>0, <1>4
  <2>4. pc'[p] = "saving" /\ ~Early(p)'
    BY <1>1
  <2>. QED  BY <2>1, <2>2, <2>3, <2>4 DEF Follows
<1>11. Together(H, S)'
  <2>1. ~NothingToDo(PlanFor(H, program))'
    BY <1>0, <1>5
  <2>2. ~\E a, b \in Party : Early(a)' /\ ~Early(b)'
    BY <1>1
  <2>. QED  BY <1>3, <1>9, <1>10, <2>1, <2>2 DEF Together
<1>12. pc'[0] # "idle"
  BY <1>0, <1>1
<1>. QED  BY <1>0, <1>11, <1>12 DEF SyncInv

\* The pool saved is the pool all parties prove with.
LEMMA SyncSave ==
  ASSUME PartyInv, SyncInv, NEW p \in Party, Save(p)
  PROVE  SyncInv'
<1>. SUFFICES ASSUME ~torn PROVE SyncInv'
  BY DEF SyncInv, Save
<1>0. /\ TypeOK /\ StageInv(p) /\ pc[p] = "saving" /\ pc'[p] = "proving"
      /\ plan' = plan /\ step' = step /\ log' = log /\ program' = program
      /\ disk'[p] = [k \in Kinds |-> Header(mem[p][k])]
      /\ mem'[p] = [k \in Kinds |-> Saved(mem[p][k], k)]
  BY Types DEF PartyInv, PartyOK, Save
<1>1. PICK H, S : Together(H, S)
  BY <1>0 DEF SyncInv, Quiet
<1>2. \A q \in Party \ {p} : disk'[q] = disk[q] /\ mem'[q] = mem[q] /\ pc'[q] = pc[q]
  BY <1>0, Types DEF Save
<1>3. ~Early(p) /\ ~Early(p)'
  BY <1>0 DEF Early
<1>4. /\ plan[p] = PlanFor(H, program) /\ log[p] = [i \in 1..step[p] |-> Taken(S, i)]
      /\ \A k \in Kinds : Saved(mem[p][k], k) = S[k]
      /\ S \in [Kinds -> Sources] /\ step[p] = 0
  BY <1>0, <1>1, <1>3 DEF Together, Follows, StageInv
<1>5. ASSUME NEW k \in Kinds
      PROVE  /\ mem'[p][k] = Advanced(S[k], Used(k, step[p])')
             /\ disk'[p][k] = HeaderAt(S, k, step[p], PersistsOnTake(k, p))'
  <2>1. Used(k, 0) = 0 /\ S[k] \in Sources /\ mem[p][k] \in Sources /\ 0 \in 0..Len(program)
    BY <1>0, <1>4, UsedSteps, Types, ProgramType
  <2>2. mem'[p][k] = S[k] /\ Advanced(S[k], 0) = S[k]
    BY <1>0, <1>4, <2>1, AdvancedZero
  <2>3. Used(k, step[p])' = 0
    BY <1>0, <1>4, <2>1 DEF Used
  <2>4. /\ S[k].gen = mem[p][k].gen /\ S[k].total = mem[p][k].total
        /\ S[k].cursor = mem[p][k].cursor
    BY <1>4, <2>1, SavedFields
  <2>. DEFINE h == HeaderAt(S, k, 0, PersistsOnTake(k, p))
  <2>5. h \in Headers /\ h.st = "ok" /\ h.gen = S[k].gen /\ h.total = S[k].total
        /\ h.cursor = S[k].cursor
    <3>1. S[k].cursor \in Nat
      BY <2>1 DEF Sources
    <3>2. h \in Headers
      BY <1>0, <1>4, <2>1, HeaderAtType
    <3>. QED  BY <2>1, <3>1, <3>2, HeaderAtFields
  <2>. HIDE DEF h
  <2>6. disk'[p][k] = Header(mem[p][k]) /\ Header(mem[p][k]) \in Headers
    BY <1>0, <2>1, HeaderType
  <2>7. Header(mem[p][k]) = h
    BY <2>4, <2>5, <2>6, SameHeader DEF Header
  <2>8. HeaderAt(S, k, step[p], PersistsOnTake(k, p))' = h
    BY <1>0, <1>4, <2>1, <2>3 DEF HeaderAt, h
  <2>. QED  BY <2>2, <2>3, <2>6, <2>7, <2>8
<1>6. Follows(p, H, S)'
  <2>1. \A i : Taken(S, i)' = Taken(S, i)
    BY <1>0 DEF Taken, Used
  <2>2. log'[p] = [i \in 1..step'[p] |-> Taken(S, i)'] /\ plan'[p] = PlanFor(H, program)'
    BY <1>0, <1>4, <2>1
  <2>. QED  BY <1>0, <1>3, <1>5, <2>2 DEF Follows
<1>7. Together(H, S)'
  BY <1>0, <1>1, <1>2, <1>3, <1>6, SyncMove
<1>. QED  BY <1>0, <1>7 DEF SyncInv

\* Two takes advance a source as one of their sum does.
LEMMA AdvancedTwice ==
  ASSUME NEW s \in Sources, NEW m \in Nat, NEW n \in Nat
  PROVE  Advanced(Advanced(s, m), n) = Advanced(s, m + n)
<1>1. Advanced(s, m) \in Sources
  BY AdvancedFields
<1>2. Advanced(Advanced(s, m), n) \in Sources /\ Advanced(s, m + n) \in Sources
  BY <1>1, AdvancedFields
<1>3. s.cursor \in Nat
  BY DEF Sources
<1>4. Advanced(Advanced(s, m), n).cursor = Advanced(s, m + n).cursor
  <2>1. Advanced(Advanced(s, m), n).cursor = Advanced(s, m).cursor + n
    BY <1>1, AdvancedFields
  <2>2. Advanced(s, m).cursor = s.cursor + m
    BY AdvancedFields
  <2>3. m + n \in Nat /\ (s.cursor + m) + n = s.cursor + (m + n)
    BY <1>3
  <2>4. Advanced(s, m + n).cursor = s.cursor + (m + n)
    BY <2>3, AdvancedFields
  <2>. QED  BY <2>1, <2>2, <2>3, <2>4
<1>5. /\ Advanced(Advanced(s, m), n).gen = Advanced(s, m + n).gen
      /\ Advanced(Advanced(s, m), n).total = Advanced(s, m + n).total
      /\ Advanced(Advanced(s, m), n).path <=> Advanced(s, m + n).path
  <2>1. /\ Advanced(Advanced(s, m), n).gen = Advanced(s, m).gen
        /\ Advanced(Advanced(s, m), n).total = Advanced(s, m).total
        /\ Advanced(Advanced(s, m), n).path <=> Advanced(s, m).path
    BY <1>1, AdvancedFields
  <2>2. /\ Advanced(s, m).gen = s.gen /\ Advanced(s, m).total = s.total
        /\ Advanced(s, m).path <=> s.path
    BY AdvancedFields
  <2>3. m + n \in Nat
    OBVIOUS
  <2>4. /\ Advanced(s, m + n).gen = s.gen /\ Advanced(s, m + n).total = s.total
        /\ Advanced(s, m + n).path <=> s.path
    BY <2>3, AdvancedFields
  <2>. QED  BY <2>1, <2>2, <2>4
<1>. QED  BY <1>2, <1>4, <1>5, SameSource

\* The batch a party takes is the one every other party takes at the same step.
LEMMA SyncTake ==
  ASSUME PartyInv, SyncInv, NEW p \in Party, Take(p)
  PROVE  SyncInv'
<1>. SUFFICES ASSUME ~torn PROVE SyncInv'
  BY DEF SyncInv, Take
<1>0. /\ TypeOK /\ pc[p] = "proving" /\ pc' = pc /\ plan' = plan /\ program' = program
      /\ step'[p] = step[p] + 1 /\ (\A q \in Party \ {p} : step'[q] = step[q])
      /\ step[p] < Len(program)
  BY Types DEF PartyInv, Take
<1>1. PICK H, S : Together(H, S)
  BY <1>0 DEF SyncInv, Quiet
<1>. DEFINE K == TakeKind(p)  N == TakeCount(p)  s == Advanced(mem[p][K], N)
<1>2. /\ K \in Kinds /\ N \in Nat \ {0} /\ s \in Sources
      /\ mem'[p][K] = s /\ (\A j \in Kinds \ {K} : mem'[p][j] = mem[p][j])
      /\ disk'[p][K] \in Headers
      /\ \A j \in Kinds \ {K} : disk'[p][j] = disk[p][j]
      /\ disk'[p][K].gen = disk[p][K].gen /\ disk'[p][K].total = disk[p][K].total
      /\ disk'[p][K].st = disk[p][K].st
      /\ disk'[p][K].cursor = IF PersistsOnTake(K, p) /\ s.path /\ disk[p][K].st = "ok"
                              THEN s.cursor ELSE disk[p][K].cursor
      /\ log'[p] = Append(log[p], Batch(mem[p][K], K, N))
      /\ \A q \in Party \ {p} : mem'[q] = mem[q] /\ disk'[q] = disk[q] /\ log'[q] = log[q]
  BY <1>0, TakeFacts
<1>3. ~Early(p) /\ ~Early(p)'
  BY <1>0 DEF Early
<1>4. /\ plan[p] = PlanFor(H, program) /\ log[p] = [i \in 1..step[p] |-> Taken(S, i)]
      /\ S \in [Kinds -> Sources]
      /\ \A k \in Kinds : /\ mem[p][k] = Advanced(S[k], Used(k, step[p]))
                          /\ disk[p][k] = HeaderAt(S, k, step[p], PersistsOnTake(k, p))
  BY <1>0, <1>1, <1>3 DEF Together, Follows
<1>5. step[p] \in 0..Len(program) - 1 /\ step[p] + 1 \in 0..Len(program)
      /\ step[p] \in 0..Len(program) /\ step[p] \in Nat
      /\ \A k \in Kinds : Used(k, step[p] + 1) = Used(k, step[p]) + (IF K = k THEN N ELSE 0)
  <2>1. Len(program) \in Nat
    BY <1>0, ProgramType
  <2>. QED  BY <1>0, <2>1, TakeType
<1>6. ASSUME NEW k \in Kinds PROVE Used(k, step[p]) \in Nat /\ Used(k, step[p])' = Used(k, step[p] + 1)
                                   /\ Used(k, step[p] + 1) \in Nat
  BY <1>0, <1>5, UsedSteps DEF Used
<1>7. ASSUME NEW k \in Kinds
      PROVE  /\ mem'[p][k] = Advanced(S[k], Used(k, step[p])')
             /\ disk'[p][k] = HeaderAt(S, k, step[p], PersistsOnTake(k, p))'
  <2>1. HeaderAt(S, k, step[p], PersistsOnTake(k, p))' =
          HeaderAt(S, k, step[p] + 1, PersistsOnTake(k, p))
    BY <1>6 DEF HeaderAt
  <2>2. CASE k # K
    <3>1. mem'[p][k] = mem[p][k] /\ disk'[p][k] = disk[p][k]
      BY <1>2, <2>2
    <3>2. Used(k, step[p] + 1) = Used(k, step[p])
      BY <1>5, <1>6, <2>2
    <3>3. HeaderAt(S, k, step[p] + 1, PersistsOnTake(k, p)) =
            HeaderAt(S, k, step[p], PersistsOnTake(k, p))
      BY <3>2 DEF HeaderAt
    <3>. QED  BY <1>4, <1>6, <2>1, <3>1, <3>2, <3>3
  <2>3. CASE k = K
    <3>1. Used(k, step[p] + 1) = Used(k, step[p]) + N /\ S[k] \in Sources
      BY <1>4, <1>5, <2>3
    <3>2. s = Advanced(S[k], Used(k, step[p] + 1))
      <4>1. mem[p][k] = Advanced(S[k], Used(k, step[p])) /\ N \in Nat
        BY <1>2, <1>4
      <4>2. s = Advanced(Advanced(S[k], Used(k, step[p])), N)
        BY <2>3, <4>1
      <4>. HIDE DEF K, N, s
      <4>3. Advanced(Advanced(S[k], Used(k, step[p])), N) = Advanced(S[k], Used(k, step[p]) + N)
        BY <1>6, <3>1, <4>1, AdvancedTwice
      <4>. QED  BY <3>1, <4>2, <4>3
    <3>. HIDE DEF K, N, s
    <3>3. s.cursor = S[k].cursor + Used(k, step[p] + 1) /\ (s.path <=> S[k].path)
          /\ S[k].cursor \in Nat
      BY <1>6, <3>1, <3>2, AdvancedFields DEF Sources
    <3>. DEFINE h == HeaderAt(S, k, step[p], PersistsOnTake(k, p))
                g == HeaderAt(S, k, step[p] + 1, PersistsOnTake(k, p))
    <3>4. /\ h.st = "ok" /\ h.gen = S[k].gen /\ h.total = S[k].total
          /\ h.cursor = S[k].cursor
                          + (IF S[k].path /\ PersistsOnTake(k, p) THEN Used(k, step[p]) ELSE 0)
          /\ g.st = "ok" /\ g.gen = S[k].gen /\ g.total = S[k].total
          /\ g.cursor = S[k].cursor
                          + (IF S[k].path /\ PersistsOnTake(k, p) THEN Used(k, step[p] + 1) ELSE 0)
      BY HeaderAtFields
    <3>5. g \in Headers
      BY <1>0, <1>4, <1>5, HeaderAtType
    <3>6. disk[p][k] = h
      BY <1>4
    <3>. HIDE DEF g, h
    <3>7. disk'[p][k].cursor = g.cursor
      <4>1. CASE PersistsOnTake(k, p) /\ S[k].path
        BY <1>2, <2>3, <3>3, <3>4, <3>6, <4>1
      <4>2. CASE ~(PersistsOnTake(k, p) /\ S[k].path)
        BY <1>2, <2>3, <3>3, <3>4, <3>6, <4>2
      <4>. QED  BY <4>1, <4>2
    <3>8. disk'[p][k].st = g.st /\ disk'[p][k].gen = g.gen /\ disk'[p][k].total = g.total
          /\ disk'[p][k] \in Headers
      BY <1>2, <2>3, <3>4, <3>6
    <3>9. disk'[p][k] = g
      BY <3>5, <3>7, <3>8, SameHeader
    <3>10. mem'[p][k] = Advanced(S[k], Used(k, step[p])')
      BY <1>2, <1>6, <2>3, <3>2
    <3>. QED  BY <2>1, <3>9, <3>10 DEF g
  <2>. QED  BY <2>2, <2>3
<1>8. log'[p] = [i \in 1..step'[p] |-> Taken(S, i)']
  <2>1. Batch(mem[p][K], K, N) = Taken(S, step[p] + 1)
    <3>1. mem[p][K] = Advanced(S[K], Used(K, step[p])) /\ (step[p] + 1) - 1 = step[p]
      BY <1>2, <1>4, <1>5
    <3>. QED  BY <3>1 DEF Taken, TakeKind, TakeCount
  <2>2. \A i : Taken(S, i)' = Taken(S, i)
    BY <1>0 DEF Taken, Used
  <2>. HIDE DEF K, N, s
  <2>3. Append([i \in 1..step[p] |-> Taken(S, i)], Taken(S, step[p] + 1)) =
          [i \in 1..step[p] + 1 |-> Taken(S, i)]
    BY <1>5
  <2>. QED  BY <1>0, <1>2, <1>4, <2>1, <2>2, <2>3, ZenonT(60)
<1>9. Follows(p, H, S)'
  <2>1. plan'[p] = PlanFor(H, program)' /\ pc'[p] = "proving"
    BY <1>0, <1>4
  <2>. QED  BY <1>3, <1>7, <1>8, <2>1 DEF Follows
<1>10. Together(H, S)'
  BY <1>0, <1>1, <1>2, <1>3, <1>9, SyncMove
<1>. QED  BY <1>0, <1>10 DEF SyncInv

\* What a party leaves behind when it drops its pool.
LEMMA DroppedAt ==
  ASSUME PartyInv, NEW H, NEW S, Together(H, S), NEW p \in Party, pc[p] # "saving",
         pc[p] = "proving" => ~RingTaken(p)
  PROVE  /\ Early(p) => Dropped(p) = H /\ disk[p] = H
         /\ ~Early(p) => \A k \in Kinds : Dropped(p)[k] = HeaderAt(S, k, step[p], TRUE)
<1>0. /\ TypeOK /\ StageInv(p) /\ Follows(p, H, S)
      /\ H \in [Kinds -> Headers] /\ S \in [Kinds -> Sources] /\ disk[p] \in [Kinds -> Headers]
      /\ step[p] \in 0..Len(program)
  <2>1. TypeOK /\ StageInv(p)
    BY DEF PartyInv, PartyOK
  <2>2. Len(program) \in Nat /\ step[p] \in Nat /\ disk[p] \in [Kinds -> Headers]
    BY <2>1, Types, ProgramType
  <2>. QED  BY <2>1, <2>2 DEF Together, StageInv
<1>1. ASSUME Early(p) PROVE Dropped(p) = H /\ disk[p] = H
  <2>1. disk[p] = H
    BY <1>0, <1>1 DEF Follows
  <2>2. ASSUME NEW k \in Kinds PROVE Dropped(p)[k] = H[k]
    <3>1. mem[p][k] = Loaded(H[k]) \/ mem[p][k] = NoSource
      <4>1. CASE pc[p] = "start"
        BY <1>0, <4>1 DEF StageInv, EmptyPool
      <4>2. CASE pc[p] = "planned"
        <5>1. mem[p] = LoadPool(H)
          BY <1>0, <2>1, <4>2 DEF StageInv
        <5>. QED  BY <1>0, <5>1, LoadPoolFacts
      <4>. QED  BY <1>1, <4>1, <4>2 DEF Early
    <3>2. mem[p][k].path => mem[p][k].cursor = H[k].cursor
      BY <3>1, LoadedFields, NoSourceFields
    <3>3. H[k] \in Headers /\ disk[p][k] = H[k]
      BY <1>0, <2>1
    <3>. QED  BY <3>2, <3>3, DroppedField, SameHeader
  <2>3. Dropped(p) = [k \in Kinds |-> Dropped(p)[k]] /\ H = [k \in Kinds |-> H[k]]
    BY <1>0 DEF Dropped
  <2>. QED  BY <2>1, <2>2, <2>3
<1>2. ASSUME ~Early(p), NEW k \in Kinds
      PROVE  Dropped(p)[k] = HeaderAt(S, k, step[p], TRUE)
  <2>. DEFINE g == HeaderAt(S, k, step[p], TRUE)
  <2>1. /\ g \in Headers /\ g.st = "ok" /\ g.gen = S[k].gen /\ g.total = S[k].total
        /\ g.cursor = S[k].cursor + (IF S[k].path THEN Used(k, step[p]) ELSE 0)
    <3>1. g \in Headers
      BY <1>0, HeaderAtType
    <3>. QED  BY <3>1 DEF HeaderAt
  <2>2. S[k] \in Sources /\ S[k].cursor \in Nat /\ Used(k, step[p]) \in Nat
    BY <1>0, UsedSteps DEF Sources
  <2>3. CASE pc[p] = "idle"
    <3>1. mem[p][k] = NoSource /\ disk[p][k] = g
      BY <1>0, <2>3 DEF StageInv, EmptyPool, Follows
    <3>. HIDE DEF g
    <3>2. Dropped(p)[k] = g
      BY <2>1, <3>1, NoSourceFields, DroppedField, SameHeader
    <3>. QED  BY <3>2 DEF g
  <2>4. CASE pc[p] = "proving"
    <3>. DEFINE h == HeaderAt(S, k, step[p], PersistsOnTake(k, p))
    <3>1. mem[p][k] = Advanced(S[k], Used(k, step[p])) /\ disk[p][k] = h
      BY <1>0, <2>4 DEF Follows
    <3>2. /\ h.st = "ok" /\ h.gen = S[k].gen /\ h.total = S[k].total
          /\ h.cursor = S[k].cursor
                          + (IF S[k].path /\ PersistsOnTake(k, p) THEN Used(k, step[p]) ELSE 0)
      BY HeaderAtFields
    <3>. HIDE DEF g, h
    <3>3. mem[p][k].cursor = S[k].cursor + Used(k, step[p]) /\ (mem[p][k].path <=> S[k].path)
      <4>. DEFINE n == Used(k, step[p])
      <4>1. n \in Nat /\ mem[p][k] = Advanced(S[k], n)
        BY <2>2, <3>1
      <4>. HIDE DEF n
      <4>2. Advanced(S[k], n).cursor = S[k].cursor + n /\ (Advanced(S[k], n).path <=> S[k].path)
        BY <2>2, <4>1, AdvancedFields
      <4>. QED  BY <4>1, <4>2 DEF n
    <3>4. PersistsOnDrop(k) \/ PersistsOnTake(k, p) \/ Used(k, step[p]) = 0
      <4>1. CASE k = "RingEda"
        BY <1>0, <2>4, <4>1, UsedNothing DEF RingTaken
      <4>2. CASE k # "RingEda"
        BY <4>2, KindFacts, LeftBehind
      <4>. QED  BY <4>1, <4>2
    <3>5. Dropped(p)[k].cursor = g.cursor
      <4>1. Dropped(p)[k].cursor = IF PersistsOnDrop(k) /\ mem[p][k].path
                                   THEN mem[p][k].cursor ELSE h.cursor
        BY <3>1, <3>2, DroppedField
      <4>2. CASE S[k].path
        BY <2>1, <2>2, <3>2, <3>3, <3>4, <4>1, <4>2
      <4>3. CASE ~S[k].path
        BY <2>1, <3>2, <3>3, <4>1, <4>3
      <4>. QED  BY <4>2, <4>3
    <3>6. Dropped(p)[k] = g
      BY <2>1, <3>1, <3>2, <3>5, DroppedField, SameHeader
    <3>. QED  BY <3>6 DEF g
  <2>5. pc[p] \in {"idle", "proving"}
    BY <1>0, <1>2, Types DEF Early
  <2>. QED  BY <2>3, <2>4, <2>5
<1>. QED  BY <1>1, <1>2

\* What a killed party leaves behind, outside the windows of AtRisk.
LEMMA KilledAt ==
  ASSUME PartyInv, NEW H, NEW S, Together(H, S), NEW p \in Party,
         pc[p] # "saving", ~Early(p),
         p = 1 /\ pc[p] = "proving" => \A i \in 1..step[p] : program[i].kind # "DaBits",
         pc[p] = "proving" => ~RingTaken(p),
         NEW k \in Kinds
  PROVE  disk[p][k] = HeaderAt(S, k, step[p], TRUE)
<1>0. TypeOK /\ StageInv(p) /\ Follows(p, H, S) /\ step[p] \in 0..Len(program)
  <2>1. TypeOK /\ StageInv(p)
    BY DEF PartyInv, PartyOK
  <2>2. Len(program) \in Nat /\ step[p] \in Nat
    BY <2>1, Types, ProgramType
  <2>. QED  BY <2>1, <2>2 DEF Together, StageInv
<1>1. CASE pc[p] = "idle"
  BY <1>0, <1>1 DEF Follows
<1>2. CASE pc[p] = "proving"
  <2>1. disk[p][k] = HeaderAt(S, k, step[p], PersistsOnTake(k, p))
    BY <1>0, <1>2 DEF Follows
  <2>2. CASE PersistsOnTake(k, p)
    BY <2>1, <2>2 DEF HeaderAt
  <2>3. CASE ~PersistsOnTake(k, p)
    <3>1. (k = "DaBits" /\ p = 1) \/ k = "RingEda"
      BY <2>3, LeftBehind
    <3>2. Used(k, step[p]) = 0
      BY <1>0, <1>2, <3>1, UsedNothing DEF RingTaken
    <3>. QED  BY <2>1, <2>3, <3>2 DEF HeaderAt
  <2>. QED  BY <2>2, <2>3
<1>3. pc[p] \in {"idle", "proving"}
  BY <1>0, Types DEF Early
<1>. QED  BY <1>1, <1>2, <1>3

\* Directories that are all the same function.
LEMMA SameDirectories ==
  ASSUME NEW d \in [Party -> [Kinds -> Headers]], NEW E \in [Kinds -> Headers],
         \A p \in Party, k \in Kinds : d[p][k] = E[k]
  PROVE  \A p \in Party : d[p] = E
<1>. SUFFICES ASSUME NEW p \in Party PROVE d[p] = E
  OBVIOUS
<1>1. d[p] \in [Kinds -> Headers] /\ \A k \in Kinds : d[p][k] = E[k]
  OBVIOUS
<1>. QED  BY <1>1

\* The directory after i takes.
LEMMA EndDirectory ==
  ASSUME TypeOK, NEW S \in [Kinds -> Sources], NEW n \in 0..Len(program)
  PROVE  /\ [k \in Kinds |-> HeaderAt(S, k, n, TRUE)] \in [Kinds -> Headers]
         /\ Uniform([k \in Kinds |-> HeaderAt(S, k, n, TRUE)])
<1>1. \A k \in Kinds : HeaderAt(S, k, n, TRUE) \in Headers
  BY HeaderAtType
<1>2. \A k \in Kinds : HeaderAt(S, k, n, TRUE).st = "ok"
  BY DEF HeaderAt
<1>. QED  BY <1>1, <1>2 DEF Uniform

\* Parties that finish leave the same directories.
LEMMA SyncFinish ==
  ASSUME PartyInv, PartyInv', SyncInv, NEW p \in Party, Finish(p)
  PROVE  SyncInv'
<1>. SUFFICES ASSUME ~torn, ~RingTaken(p) PROVE SyncInv'
  BY DEF SyncInv, Finish
<1>0. /\ TypeOK /\ pc[p] = "proving" /\ pc'[p] = "idle" /\ program' = program
      /\ plan' = plan /\ step' = step /\ log' = log /\ step[p] = Len(program)
      /\ disk'[p] = Dropped(p) /\ Len(program) \in Nat
  BY Types, ProgramType DEF PartyInv, Finish
<1>1. PICK H, S : Together(H, S)
  BY <1>0 DEF SyncInv, Quiet
<1>2. \A q \in Party \ {p} : disk'[q] = disk[q] /\ mem'[q] = mem[q] /\ pc'[q] = pc[q]
  BY <1>0, Types DEF Finish
<1>3. ~Early(p) /\ ~Early(p)'
  BY <1>0 DEF Early
<1>4. /\ plan[p] = PlanFor(H, program) /\ log[p] = [i \in 1..step[p] |-> Taken(S, i)]
      /\ S \in [Kinds -> Sources]
  BY <1>1, <1>3 DEF Together, Follows
<1>5. /\ \A i : Taken(S, i)' = Taken(S, i)
      /\ \A k : Used(k, step[p])' = Used(k, step[p])
  BY <1>0 DEF Taken, Used
<1>6. \A k \in Kinds : disk'[p][k] = HeaderAt(S, k, step[p], TRUE)'
  <2>1. \A k \in Kinds : disk'[p][k] = HeaderAt(S, k, step[p], TRUE)
    BY <1>0, <1>1, <1>3, DroppedAt
  <2>. QED  BY <1>5, <2>1 DEF HeaderAt
<1>7. Follows(p, H, S)'
  <2>1. log'[p] = [i \in 1..step'[p] |-> Taken(S, i)'] /\ plan'[p] = PlanFor(H, program)'
    BY <1>0, <1>4, <1>5
  <2>. QED  BY <1>0, <1>3, <1>6, <2>1 DEF Follows
<1>8. Together(H, S)'
  BY <1>0, <1>1, <1>2, <1>3, <1>7, SyncMove
<1>9. ASSUME \A q \in Party : pc'[q] = "idle" PROVE Quiet'
  <2>. DEFINE E == [k \in Kinds |-> HeaderAt(S, k, Len(program), TRUE)]
  <2>1. ASSUME NEW q \in Party
        PROVE  /\ step'[q] = Len(program) /\ plan'[q] = PlanFor(H, program)
               /\ log'[q] = [i \in 1..Len(program) |-> Taken(S, i)]
               /\ \A k \in Kinds : disk'[q][k] = HeaderAt(S, k, Len(program), TRUE)
    <3>1. Follows(q, H, S)' /\ ~Early(q)' /\ pc'[q] = "idle"
      BY <1>8, <1>9 DEF Together, Early
    <3>2. /\ step'[q] = Len(program) /\ plan'[q] = PlanFor(H, program)
          /\ log'[q] = [i \in 1..step'[q] |-> Taken(S, i)']
          /\ \A k \in Kinds : disk'[q][k] = HeaderAt(S, k, step[q], TRUE)'
      BY <1>0, <3>1 DEF Follows
    <3>3. log'[q] = [i \in 1..Len(program) |-> Taken(S, i)]
      BY <1>5, <3>2
    <3>4. \A k \in Kinds : HeaderAt(S, k, step[q], TRUE)' = HeaderAt(S, k, Len(program), TRUE)
      BY <1>0, <3>2 DEF HeaderAt, Used
    <3>. QED  BY <3>2, <3>3, <3>4
  <2>2. E \in [Kinds -> Headers] /\ Uniform(E)
    <3>1. Len(program) \in 0..Len(program)
      BY <1>0
    <3>. QED  BY <1>0, <1>4, <3>1, EndDirectory, Zenon
  <2>3. disk' \in [Party -> [Kinds -> Headers]]
    BY DEF PartyInv, TypeOK, Headers
  <2>4. \A q \in Party, k \in Kinds : disk'[q][k] = E[k]
    BY <2>1
  <2>. HIDE DEF E
  <2>5. \A q \in Party : disk'[q] = E
    BY <2>2, <2>3, <2>4, SameDirectories
  <2>6. \A q, r \in Party : disk'[q] = disk'[r] /\ log'[q] = log'[r] /\ plan'[q] = plan'[r]
    BY <2>1, <2>5
  <2>. QED  BY <1>9, <2>2, <2>5, <2>6 DEF Quiet
<1>. QED  BY <1>8, <1>9 DEF SyncInv

\* After an abort outside the windows of AtRisk the directories are the same.
LEMMA SyncAbort ==
  ASSUME PartyInv, PartyInv', SyncInv, NEW killed \in SUBSET Party, NEW how,
         Abort(killed, how)
  PROVE  SyncInv'
<1>. SUFFICES ASSUME ~torn, ~AtRisk(killed) PROVE Quiet'
  BY Types DEF SyncInv, Abort, PartyInv
<1>0. /\ TypeOK /\ 0 \in Party /\ Len(program) \in Nat
      /\ \A p \in Party : pc[p] # "saving"
      /\ \A p, q \in Party : step[p] = step[q]
      /\ \A p \in Party : ~RingTaken(p)
      /\ disk' \in [Party -> [Kinds -> Headers]]
  <2>1. disk' \in [Party -> [Kinds -> Headers]]
    BY DEF PartyInv, TypeOK, Headers
  <2>. QED  BY <2>1, ProgramType DEF PartyInv, AtRisk, Party
<1>1. PICK H, S : Together(H, S)
  BY DEF SyncInv, Quiet, Abort
<1>2. H \in [Kinds -> Headers] /\ S \in [Kinds -> Sources] /\ Uniform(H)
  BY <1>1 DEF Together
<1>. DEFINE n == step[0]
            E == [k \in Kinds |-> HeaderAt(S, k, n, TRUE)]
<1>3. n \in 0..Len(program) /\ \A p \in Party : step[p] = n
  <2>1. StageInv(0)
    BY <1>0 DEF PartyInv, PartyOK
  <2>2. step[0] \in Nat /\ step[0] <= Len(program)
    BY <1>0, <2>1, Types DEF StageInv
  <2>. QED  BY <1>0, <2>2
<1>4. ASSUME NEW p \in Party, NEW k \in Kinds
      PROVE  disk'[p][k] = IF Early(p) THEN H[k] ELSE E[k]
  <2>1. pc[p] # "saving" /\ ~RingTaken(p) /\ step[p] = n
    BY <1>0, <1>3
  <2>2. disk'[p] = IF p \in killed THEN disk[p] ELSE Dropped(p)
    <3>1. CASE p \in killed
      BY <2>1, <3>1 DEF Abort
    <3>2. CASE p \notin killed
      BY <3>2 DEF Abort
    <3>. QED  BY <3>1, <3>2
  <2>3. CASE Early(p)
    BY <1>0, <1>1, <2>1, <2>2, <2>3, DroppedAt
  <2>4. CASE ~Early(p) /\ p \notin killed
    <3>1. Dropped(p)[k] = HeaderAt(S, k, step[p], TRUE)
      <4>. HIDE DEF n, E
      <4>. QED  BY <1>1, <2>1, <2>4, DroppedAt
    <3>. QED  BY <2>1, <2>2, <2>4, <3>1
  <2>5. CASE ~Early(p) /\ p \in killed
    <3>1. p = 1 /\ pc[p] = "proving" => \A i \in 1..step[p] : program[i].kind # "DaBits"
      BY <2>5 DEF AtRisk
    <3>2. disk[p][k] = HeaderAt(S, k, step[p], TRUE)
      BY <1>0, <1>1, <2>1, <2>5, <3>1, KilledAt
    <3>. QED  BY <2>1, <2>2, <2>5, <3>2
  <2>. QED  BY <2>3, <2>4, <2>5
<1>5. E \in [Kinds -> Headers] /\ Uniform(E)
  BY <1>0, <1>2, <1>3, EndDirectory
<1>6. ASSUME NEW a \in Party, NEW b \in Party, Early(a), ~Early(b), NEW k \in Kinds
      PROVE  H[k] = E[k]
  <2>1. NothingToDo(PlanFor(H, program)) /\ S = LoadPool(H)
    BY <1>1, <1>6 DEF Together
  <2>2. LoadSucceeds(H)
    BY <2>1 DEF NothingToDo, PlanFor
  <2>3. n = 0
    <3>1. StageInv(a)
      BY DEF PartyInv, PartyOK
    <3>2. step[a] = 0
      BY <1>6, <3>1 DEF StageInv, Early
    <3>. QED  BY <1>3, <3>2
  <2>4. H[k] = HeaderAt(S, k, 0, TRUE)
    BY <1>0, <1>2, <2>1, <2>2, LoadedHeader, ZenonT(60)
  <2>. QED  BY <2>3, <2>4
<1>. HIDE DEF n, E
<1>7. PICK D \in {H, E} : \A p \in Party, k \in Kinds : disk'[p][k] = D[k]
  <2>1. CASE \A p \in Party : Early(p)
    BY <1>4, <2>1
  <2>2. CASE \A p \in Party : ~Early(p)
    BY <1>4, <2>2
  <2>3. CASE \E a, b \in Party : Early(a) /\ ~Early(b)
    BY <1>4, <1>6, <2>3
  <2>. QED  BY <2>1, <2>2, <2>3
<1>8. \A p \in Party : disk'[p] = D
  BY <1>0, <1>2, <1>5, <1>7, SameDirectories
<1>9. \A p \in Party : pc'[p] = "idle" /\ log'[p] = <<>> /\ plan'[p] = NoPlan
  BY DEF Abort, AllDown
<1>10. Uniform(D)
  BY <1>2, <1>5, <1>7
<1>. QED  BY <1>8, <1>9, <1>10 DEF Quiet

\* Every step keeps the parties together, or marks the run torn.
LEMMA SyncInvStep == PartyInv /\ PartyInv' /\ SyncInv /\ [Next]_vars => SyncInv'
<1>. SUFFICES ASSUME PartyInv, PartyInv', SyncInv, [Next]_vars PROVE SyncInv'
  OBVIOUS
<1>1. ASSUME UNCHANGED vars PROVE SyncInv'
  <2>. SUFFICES ASSUME ~torn PROVE SyncInv'
    BY <1>1 DEF SyncInv, vars
  <2>1. CASE Quiet
    <3>1. Quiet'
      BY <1>1, <2>1 DEF Quiet, vars
    <3>. QED  BY <3>1 DEF SyncInv
  <2>2. CASE ~Quiet
    <3>1. PICK H, S : Together(H, S)
      BY <2>2 DEF SyncInv
    <3>2. \A q \in Party : Follows(q, H, S)'
      BY <1>1, <3>1, KeepsFollowing DEF Together, vars
    <3>3. Together(H, S)'
      BY <1>1, <3>1, <3>2 DEF Together, Early, vars
    <3>4. \E q \in Party : pc'[q] # "idle"
      BY <1>1, <2>2 DEF SyncInv, vars
    <3>. QED  BY <3>3, <3>4 DEF SyncInv
  <2>. QED  BY <2>1, <2>2
<1>2. CASE AwaitUser
  BY <1>1, <1>2 DEF AwaitUser
<1>3. CASE \E prog \in Programs : NewJob(prog)
  BY <1>3, SyncNewJob
<1>4. ASSUME NEW p \in Party, Plan(p) \/ Reuse(p) \/ Save(p) \/ Take(p) \/ Finish(p)
      PROVE  SyncInv'
  BY <1>4, SyncPlan, SyncReuse, SyncSave, SyncTake, SyncFinish
<1>5. CASE Preprocess
  BY <1>5, SyncPreprocess
<1>6. CASE \E killed \in SUBSET Party, how \in CutChoices : Abort(killed, how)
  BY <1>6, SyncAbort
<1>7. ASSUME Desynchronised PROVE SyncInv'
  <2>1. CASE torn
    BY <1>7, <2>1 DEF Desynchronised, SyncInv
  <2>2. CASE ~torn
    BY <1>7, <2>2, PlansFollow DEF Desynchronised, PlansAgree
  <2>. QED  BY <2>1, <2>2
<1>. QED  BY <1>1, <1>2, <1>3, <1>4, <1>5, <1>6, <1>7 DEF Next

\* The parties start with the same, empty directories.
LEMMA InitSyncInv == Init => SyncInv
<1>1. Init => Quiet
  BY DEF Init, Quiet, Uniform
<1>. QED  BY <1>1 DEF SyncInv

\* Until an abort hits a window in which it may leave the directories different, the three
\* parties follow one run (pool.rs, preprocessing.rs of the worker).
THEOREM SyncInvariant == Spec => []SyncInv
BY InitSyncInv, SyncInvStep, PartyInvariant, PTL DEF Spec

\* The parties never disagree on what to generate: each decides from its own headers, with
\* no message, and a party that generated alone would wait for the others for ever.
THEOREM PlansNeverDiverge == Spec => []PlansAgree
<1>1. PartyInv /\ SyncInv => PlansAgree
  BY PlansFollow
<1>. QED  BY <1>1, SyncInvariant, PartyInvariant, PTL

\* The i-th batch of every party comes from the same range of the same generation: the
\* shares the protocols open together belong to the same items.
THEOREM BatchesBelongTogether == Spec => []Aligned
<1>1. PartyInv /\ SyncInv => Aligned
  BY PlansFollow
<1>. QED  BY <1>1, SyncInvariant, PartyInvariant, PTL
=============================================================================
