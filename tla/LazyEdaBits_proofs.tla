------------------------- MODULE LazyEdaBits_proofs -------------------------
(***************************************************************************)
(* Proofs about LazyEdaBits, for all budgets, requests and bounds: the     *)
(* types, the ranges of all reads, the one-time use of edaBits, and that   *)
(* an item handed out is the item at its position.                         *)
(***************************************************************************)
EXTENDS LazyEdaBits, TLAPS

USE DEF Source, Request, Header, Sidecar, Progress, Handout

-----------------------------------------------------------------------------
(* The inductive invariant *)

PreStages == {"preAlpha", "preGamma", "preTruncate", "preWrite"}

\* What the stage says about the request and the files.
StageInv ==
  /\ pc = "recvFresh" /\ party = 2 => Len(alpha2) = req.len
  /\ pc = "recvExt" /\ party = 2 => Len(alpha2) = req.base + req.len /\ src.total <= req.base
  /\ pc \in PreStages =>
       /\ party # 2
       /\ req.base = src.cursor
       /\ Len(preAlpha) = req.len
       /\ party = 0 => Len(preGamma) = req.len
  /\ pc \in HasSrc /\ party = 2 => src.mode # "precache"
  /\ pc \in {"reserved", "filled"} => req.base = src.cursor
  /\ pc \in {"reserved", "filled", "gamma", "persist"} =>
       src.cursor <= req.base + req.len /\ req.base + req.len <= src.total
  /\ pc \in {"filled", "gamma", "persist"} =>
       out.gen = src.gen /\ \A x \in out.items : x[1] < req.base + req.len

\* What the header says about the object: they describe the same stream, and
\* the header counts as many items as the object except while pool.save has
\* yet to rewrite it.  Only an object that was never saved has no path.
HeaderInv ==
  /\ meta.ok => meta.gen <= gens /\ meta.cursor <= meta.total
  /\ pc \in HasSrc =>
       /\ src.gen <= gens
       /\ src.path /\ meta.ok => meta.gen = src.gen
       /\ src.path /\ meta.ok /\ (pc # "save" \/ saving["self"] # "todo") =>
            meta.total = src.total
       /\ ~src.path => pc = "save" /\ saveOf = "first" /\ saving["self"] # "done"
  /\ pc = "save" =>
       /\ saving["self"] \in {"torn", "failed"} => ~meta.ok
       /\ saveOf # "none"

\* Every completed hand-out of generation g lies below position c.
UsedBelow(g, c) == \A u \in UsedSoFar : u[1] = g => u[2] < c

\* The cursor, durable or in memory, is past everything that was used.
UseInv ==
  /\ out.gen <= gens
  /\ \A u \in used : u[1] <= gens
  /\ pc = "recvFresh" => \A u \in UsedSoFar : u[1] < gens
  /\ meta.ok => UsedBelow(meta.gen, meta.cursor)
  /\ pc \in HasSrc => UsedBelow(src.gen, src.cursor)

IInv == TypeOK /\ ReadsInRange /\ StageInv /\ HeaderInv /\ UseInv /\ OneTimeUse

-----------------------------------------------------------------------------
(* The operators on files *)

\* A file of n zero items has length n.
LEMMA ZerosType ==
  ASSUME NEW n \in Nat
  PROVE  Zeros(n) \in Seq(Cell) /\ Len(Zeros(n)) = n
BY DEF Zeros, Zero, Cell

\* The regenerated items are n cells.
LEMMA ItemsType ==
  ASSUME NEW g \in Nat, NEW a \in Nat, NEW n \in Nat
  PROVE  Items(g, a, n) \in Seq(Cell) /\ Len(Items(g, a, n)) = n
<1>1. \A i \in 1..n : <<g, a + i - 1>> \in Cell
  BY DEF Cell
<1>. QED  BY <1>1 DEF Items

\* set_len keeps the cells of the file and adds n.
LEMMA GrownType ==
  ASSUME NEW f \in Seq(Cell), NEW n \in Nat
  PROVE  Grown(f, n) \in Seq(Cell) /\ Len(Grown(f, n)) = Len(f) + n
BY ZerosType DEF Grown

\* Punching a hole keeps the length of the file.
LEMMA ConsumedType ==
  ASSUME NEW f \in Seq(Cell), NEW a \in Int, NEW b \in Int
  PROVE  Consumed(f, a, b) \in Seq(Cell) /\ Len(Consumed(f, a, b)) = Len(f)
<1>1. \A i \in 1..Len(f) : (IF a < i /\ i <= b THEN Zero ELSE f[i]) \in Cell
  BY DEF Zero, Cell
<1>. QED  BY <1>1 DEF Consumed

\* Writing inside the file keeps its length.
LEMMA WriteAtType ==
  ASSUME NEW f \in Seq(Cell), NEW off \in Nat, NEW s \in Seq(Cell)
  PROVE  WriteAt(f, off, s) \in Seq(Cell) /\ Len(WriteAt(f, off, s)) = Len(f)
<1>1. \A i \in 1..Len(f) :
        (IF off < i /\ i <= off + Len(s) THEN s[i - off] ELSE f[i]) \in Cell
  <2>. TAKE i \in 1..Len(f)
  <2>1. CASE off < i /\ i <= off + Len(s)
    <3>1. i - off \in 1..Len(s)
      BY <2>1
    <3>. QED  BY <2>1, <3>1
  <2>2. CASE ~(off < i /\ i <= off + Len(s))
    BY <2>2
  <2>. QED  BY <2>1, <2>2
<1>. QED  BY <1>1 DEF WriteAt

-----------------------------------------------------------------------------
(* What a hand-out delivers *)

\* A read within the file returns cells at the positions asked for.
LEMMA ReadRangeType ==
  ASSUME NEW f \in Seq(Cell), NEW first \in Nat, NEW base \in Nat, NEW n \in Nat,
         n > 0 => first <= base /\ base - first + n <= Len(f)
  PROVE  \A x \in ReadRange(f, first, base, n) :
            x \in Nat \X Cell /\ base <= x[1] /\ x[1] < base + n
<1>. SUFFICES ASSUME NEW i \in 0 .. n - 1
     PROVE  f[base - first + i + 1] \in Cell
  BY DEF ReadRange
<1>1. base - first + i + 1 \in 1..Len(f)
  OBVIOUS
<1>. QED  BY <1>1

\* Regenerated items are cells at the positions asked for.
LEMMA RegeneratedType ==
  ASSUME TypeOK, NEW base \in Nat, NEW n \in Nat
  PROVE  \A x \in Regenerated(base, n) :
            x \in Nat \X Cell /\ base <= x[1] /\ x[1] < base + n
<1>1. src.gen \in Nat
  BY DEF TypeOK
<1>2. \A i \in 0 .. n - 1 : <<base + i, <<src.gen, base + i>>>> \in Nat \X Cell
  BY <1>1 DEF Cell
<1>. QED  BY <1>2 DEF Regenerated

\* The cached prefix is read inside the precache files, P2's range inside its
\* file: then everything delivered is a cell, at a position of the range.
LEMMA DeliveredType ==
  ASSUME TypeOK, NEW base \in Nat, NEW n \in Nat, NEW cached \in Nat, cached <= n,
         party = 2 => base + n <= Len(alpha2),
         party # 2 /\ cached > 0 =>
            /\ src.start <= base /\ base - src.start + cached <= Len(preAlpha)
            /\ party = 0 => base - src.start + cached <= Len(preGamma)
  PROVE  \A x \in Delivered(base, n, cached) :
            x \in Nat \X Cell /\ base <= x[1] /\ x[1] < base + n
<1>1. CASE party = 2
  <2>1. alpha2 \in Seq(Cell)
    BY DEF TypeOK
  <2>. QED  BY <1>1, <2>1, ReadRangeType DEF Delivered
<1>2. CASE party # 2
  <2>1. /\ preAlpha \in Seq(Cell) /\ preGamma \in Seq(Cell) /\ src.start \in Nat
    BY DEF TypeOK
  <2>2. \A x \in ReadRange(preAlpha, src.start, base, cached) :
            x \in Nat \X Cell /\ base <= x[1] /\ x[1] < base + cached
    BY <1>2, <2>1, ReadRangeType
  <2>3. party = 0 => \A x \in ReadRange(preGamma, src.start, base, cached) :
            x \in Nat \X Cell /\ base <= x[1] /\ x[1] < base + cached
    BY <1>2, <2>1, ReadRangeType
  <2>4. \A x \in Regenerated(base + cached, n - cached) :
            x \in Nat \X Cell /\ base + cached <= x[1] /\ x[1] < base + n
    BY RegeneratedType
  <2>5. \A x \in Nat \X Cell : x[1] \in Nat
    OBVIOUS
  <2>. QED  BY <1>2, <2>2, <2>3, <2>4, <2>5 DEF Delivered
<1>. QED  BY <1>1, <1>2


-----------------------------------------------------------------------------
(* The items used so far *)

\* Used items are cells of generations that exist.
LEMMA UsedSoFarType ==
  ASSUME TypeOK, UseInv
  PROVE  UsedSoFar \subseteq Cell /\ \A u \in UsedSoFar : u[1] <= gens
<1>1. OutItems \subseteq Cell /\ \A u \in OutItems : u[1] = out.gen
  <2>1. out.gen \in Nat /\ \A x \in out.items : x[1] \in Nat
    BY DEF TypeOK
  <2>. QED  BY <2>1 DEF OutItems, Cell
<1>. QED  BY <1>1 DEF UsedSoFar, TypeOK, UseInv

\* Starting a new hand-out, or giving the last one up, forgets nothing.
LEMMA UsedSoFarKept ==
  ASSUME used' = UsedSoFar, out'.complete = FALSE
  PROVE  UsedSoFar' = UsedSoFar
BY DEF UsedSoFar

\* UseInv survives a step that keeps the history and moves neither cursor.
LEMMA UseInvKept ==
  ASSUME UseInv, UNCHANGED <<out, used, gens, meta>>,
         pc' # "recvFresh",
         pc' \in HasSrc => pc \in HasSrc /\ src'.gen = src.gen /\ src'.cursor = src.cursor
  PROVE  UseInv'
BY DEF UseInv, UsedBelow, UsedSoFar, OutItems

\* A new generation starts: nothing of it has been used.
LEMMA FreshCreateStep ==
  ASSUME IInv, NEW n \in Budgets, FreshCreate(n)
  PROVE  IInv'
<1>1. n \in Nat
  BY BudgetsAssumption
<1>2. alpha2' \in Seq(Cell) /\ (party = 2 => Len(alpha2') = n)
  BY <1>1, ZerosType DEF IInv, TypeOK, FreshCreate
<1>3. req' = [base |-> 0, len |-> n, cached |-> 0]
  BY DEF FreshCreate, NoReq
<1>4. UsedSoFar' = UsedSoFar /\ UsedSoFar \subseteq Cell /\ \A u \in UsedSoFar : u[1] <= gens
  BY UsedSoFarKept, UsedSoFarType DEF IInv, FreshCreate, NoOut
<1>5. TypeOK'
  <2>1. /\ req' \in Request
        /\ out' \in Handout
        /\ used' \subseteq Cell
        /\ gens' \in Nat /\ pc' \in Stages
    <3>1. req' \in Request
      BY <1>1, <1>3
    <3>2. out' = NoOut /\ used' = UsedSoFar /\ gens' = gens + 1 /\ pc' = "recvFresh"
      BY DEF FreshCreate
    <3>. QED  BY <1>4, <3>1, <3>2 DEF IInv, TypeOK, NoOut, Stages
  <2>2. UNCHANGED <<party, src, saving, saveOf, meta, others, preAlpha, preGamma, preMeta,
                    faults, scarred>>
    BY DEF FreshCreate
  <2>. QED  BY <1>2, <2>1, <2>2 DEF IInv, TypeOK
<1>6. ReadsInRange'
  BY DEF ReadsInRange, FreshCreate, HasSrc
<1>7. StageInv'
  BY <1>2, <1>3 DEF StageInv, FreshCreate, HasSrc, PreStages
<1>8. HeaderInv'
  <2>1. gens \in Nat /\ meta.gen \in Nat
    BY DEF IInv, TypeOK
  <2>2. gens' = gens + 1 /\ meta' = meta /\ pc' = "recvFresh"
    BY DEF FreshCreate
  <2>. QED  BY <2>1, <2>2 DEF IInv, HeaderInv, HasSrc
<1>9. UseInv'
  <2>1. gens \in Nat /\ \A u \in UsedSoFar : u[1] \in Nat /\ u[2] \in Nat
    BY <1>4 DEF IInv, TypeOK, Cell
  <2>2. used' = UsedSoFar
    BY DEF FreshCreate
  <2>. QED  BY <1>4, <2>1, <2>2 DEF IInv, UseInv, UsedBelow, FreshCreate, NoOut, HasSrc
<1>10. OneTimeUse'
  BY DEF OneTimeUse, FreshCreate, NoOut
<1>. QED  BY <1>5, <1>6, <1>7, <1>8, <1>9, <1>10 DEF IInv

\* The source of the new generation covers its (P2) file.
LEMMA FreshReceiveStep ==
  ASSUME IInv, FreshReceive
  PROVE  IInv'
<1>1. /\ gens \in Nat /\ req.len \in Nat
      /\ party = 2 => alpha2' \in Seq(Cell) /\ Len(alpha2') = req.len
      /\ party # 2 => alpha2' = alpha2
  <2>1. gens \in Nat /\ req.len \in Nat /\ alpha2 \in Seq(Cell)
        /\ (party = 2 => Len(alpha2) = req.len)
    BY DEF IInv, TypeOK, StageInv, FreshReceive
  <2>2. Items(gens, 0, req.len) \in Seq(Cell)
    BY <2>1, ItemsType
  <2>. QED  BY <2>1, <2>2, WriteAtType DEF FreshReceive
<1>2. src' = [gen |-> gens, total |-> req.len, cursor |-> 0,
              mode |-> IF party = 2 THEN "p2" ELSE "none",
              start |-> 0, len |-> 0, path |-> FALSE]
  BY DEF FreshReceive, NoSrc
<1>3. pc = "recvFresh" /\ pc' = "save" /\ saveOf' = "first" /\ saving'["self"] = "todo"
  BY DEF FreshReceive, StartSave
<1>4. TypeOK'
  <2>1. /\ src' \in Source
        /\ alpha2' \in Seq(Cell)
    <3>1. src' \in Source
      BY <1>1, <1>2
    <3>2. alpha2 \in Seq(Cell)
      BY DEF IInv, TypeOK
    <3>. QED  BY <1>1, <3>1, <3>2
  <2>2. /\ req' \in Request
        /\ saving' \in Progress
        /\ saveOf' = "first" /\ pc' \in Stages
    BY <1>3 DEF FreshReceive, NoReq, StartSave, Stages, HasSrc
  <2>3. UNCHANGED <<party, meta, others, preAlpha, preGamma, preMeta, gens, faults, out,
                    used, scarred>>
    BY DEF FreshReceive, history
  <2>. QED  BY <2>1, <2>2, <2>3 DEF IInv, TypeOK
<1>5. ReadsInRange'
  <2>1. /\ src'.cursor = 0 /\ src'.total = req.len /\ src'.mode # "precache"
    BY <1>2
  <2>2. party' = party
    BY DEF FreshReceive
  <2>. QED  BY <1>1, <2>1, <2>2 DEF ReadsInRange
<1>6. StageInv'
  BY <1>2, <1>3 DEF StageInv, PreStages
<1>7. HeaderInv'
  <2>1. src'.gen = gens /\ src'.path = FALSE
    BY <1>2
  <2>2. UNCHANGED <<meta, gens>>
    BY DEF FreshReceive
  <2>. QED  BY <1>1, <1>3, <2>1, <2>2 DEF IInv, HeaderInv
<1>8. UseInv'
  <2>1. UsedSoFar' = UsedSoFar
    BY DEF UsedSoFar, OutItems, FreshReceive, history
  <2>2. \A u \in UsedSoFar : u[1] < gens
    BY <1>3 DEF IInv, UseInv
  <2>. QED  BY <1>1, <1>2, <1>3, <2>1, <2>2 DEF IInv, UseInv, UsedBelow, FreshReceive, history
<1>9. OneTimeUse'
  BY DEF IInv, OneTimeUse, FreshReceive, history
<1>. QED  BY <1>4, <1>5, <1>6, <1>7, <1>8, <1>9 DEF IInv

\* P2 grows its file by the deficit before anything is received.
LEMMA ExtendBeginStep ==
  ASSUME IInv, NEW n \in Budgets, ExtendBegin(n)
  PROVE  IInv'
<1>1. /\ src.total \in Nat /\ src.cursor \in Nat /\ n \in Nat
      /\ src.cursor <= src.total /\ remaining < n
      /\ alpha2 \in Seq(Cell) /\ Len(alpha2) \in Nat
  BY BudgetsAssumption DEF IInv, TypeOK, ReadsInRange, ExtendBegin, HasSrc
<1>2. n - remaining \in Nat
  BY <1>1 DEF remaining
<1>3. /\ req' = [base |-> Len(alpha2), len |-> n - remaining, cached |-> 0]
      /\ pc = "loaded" /\ pc' = "recvExt"
      /\ UNCHANGED <<party, src, meta, preAlpha, preGamma>>
  BY DEF ExtendBegin
<1>4. /\ alpha2' \in Seq(Cell)
      /\ party = 2 => Len(alpha2') = Len(alpha2) + (n - remaining)
  BY <1>1, <1>2, GrownType DEF ExtendBegin
<1>5. TypeOK'
  <2>1. req' \in Request /\ pc' \in Stages
    BY <1>1, <1>2, <1>3 DEF Stages, HasSrc
  <2>2. UNCHANGED <<party, src, saving, saveOf, meta, others, preAlpha, preGamma, preMeta,
                    gens, faults, out, used, scarred>>
    BY DEF ExtendBegin, history
  <2>. HIDE DEF Source, Request, Header, Sidecar, Progress, Handout
  <2>. QED  BY <1>4, <2>1, <2>2 DEF IInv, TypeOK
<1>6. ReadsInRange'
  BY <1>1, <1>2, <1>3, <1>4 DEF IInv, ReadsInRange, HasSrc
<1>7. StageInv'
  BY <1>1, <1>2, <1>3, <1>4 DEF IInv, ReadsInRange, StageInv, HasSrc, PreStages
<1>8. HeaderInv'
  BY <1>3 DEF IInv, HeaderInv, HasSrc, ExtendBegin
<1>9. UseInv'
  BY <1>3, UseInvKept DEF IInv, HasSrc, ExtendBegin, history
<1>10. OneTimeUse'
  BY DEF IInv, OneTimeUse, ExtendBegin, history
<1>. QED  BY <1>5, <1>6, <1>7, <1>8, <1>9, <1>10 DEF IInv

\* The bumped total is still covered by the grown file.
LEMMA ExtendApplyStep ==
  ASSUME IInv, ExtendApply
  PROVE  IInv'
<1>1. /\ src.total \in Nat /\ src.cursor \in Nat /\ src.gen \in Nat
      /\ src.cursor <= src.total
      /\ req.len \in Nat /\ req.base \in Nat
      /\ alpha2 \in Seq(Cell)
      /\ party = 2 => Len(alpha2) = req.base + req.len /\ src.total <= req.base
      /\ pc = "recvExt" /\ pc' = "save" /\ saveOf' = "extend" /\ saving'["self"] = "todo"
      /\ UNCHANGED <<party, meta, gens>>
  BY DEF IInv, TypeOK, ReadsInRange, StageInv, ExtendApply, HasSrc, StartSave
<1>2. alpha2' \in Seq(Cell) /\ Len(alpha2') = Len(alpha2)
  <2>1. Items(src.gen, src.total, req.len) \in Seq(Cell)
    BY <1>1, ItemsType
  <2>. QED  BY <1>1, <2>1, WriteAtType DEF ExtendApply
<1>3. /\ src'.gen = src.gen /\ src'.cursor = src.cursor /\ src'.path = src.path
      /\ src'.total = src.total + req.len
      /\ party = 2 => src'.mode = src.mode
      /\ party # 2 => src'.mode = "none"
      /\ src' \in Source
  <2>1. src \in Source
    BY DEF IInv, TypeOK
  <2>2. CASE party = 2
    <3>1. src' = [src EXCEPT !.total = @ + req.len]
      BY <2>2 DEF ExtendApply
    <3>2. src' = [gen |-> src.gen, total |-> src.total + req.len, cursor |-> src.cursor,
                  mode |-> src.mode, start |-> src.start, len |-> src.len,
                  path |-> src.path]
      BY <2>1, <3>1
    <3>. QED  BY <1>1, <2>1, <2>2, <3>2
  <2>3. CASE party # 2
    <3>1. src' = [src EXCEPT !.total = @ + req.len, !.mode = "none", !.start = 0, !.len = 0]
      BY <2>3 DEF ExtendApply
    <3>2. src' = [gen |-> src.gen, total |-> src.total + req.len, cursor |-> src.cursor,
                  mode |-> "none", start |-> 0, len |-> 0, path |-> src.path]
      BY <2>1, <3>1
    <3>. QED  BY <1>1, <2>1, <2>3, <3>2
  <2>. QED  BY <2>2, <2>3
<1>4. TypeOK'
  <2>1. preAlpha' \in Seq(Cell) /\ preGamma' \in Seq(Cell)
        /\ preMeta' \in Sidecar
    <3>1. CASE party = 2
      BY <3>1 DEF IInv, TypeOK, ExtendApply
    <3>2. CASE party # 2
      <4>1. preAlpha' = <<>> /\ preGamma' = <<>> /\ preMeta' = NoPreMeta
        BY <3>2 DEF ExtendApply, ClearPrecacheFiles
      <4>. QED  BY <4>1 DEF NoPreMeta
    <3>. QED  BY <3>1, <3>2
  <2>2. /\ req' \in Request
        /\ saving' \in Progress
        /\ pc' \in Stages
        /\ UNCHANGED <<party, meta, others, gens, faults, out, used, scarred>>
    BY <1>1 DEF ExtendApply, NoReq, StartSave, Stages, HasSrc, history
  <2>. HIDE DEF Source, Request, Header, Sidecar, Progress, Handout
  <2>. QED  BY <1>1, <1>2, <1>3, <2>1, <2>2 DEF IInv, TypeOK
<1>5. ReadsInRange'
  <2>1. src'.mode # "precache"
    BY <1>1, <1>3 DEF IInv, StageInv, HasSrc
  <2>2. src'.cursor <= src'.total /\ (party' = 2 => src'.total <= Len(alpha2'))
    BY <1>1, <1>2, <1>3, SMTT(60)
  <2>. QED  BY <2>1, <2>2 DEF ReadsInRange
<1>6. StageInv'
  BY <1>1, <1>3 DEF IInv, StageInv, HasSrc, PreStages
<1>7. HeaderInv'
  BY <1>1, <1>3 DEF IInv, HeaderInv, HasSrc
<1>8. UseInv'
  BY <1>1, <1>3, UseInvKept DEF IInv, HasSrc, ExtendApply, history
<1>9. OneTimeUse'
  BY DEF IInv, OneTimeUse, ExtendApply, history
<1>. QED  BY <1>4, <1>5, <1>6, <1>7, <1>8, <1>9 DEF IInv

\* A truncated header is unreadable, so it promises nothing.
LEMMA SaveTruncateStep ==
  ASSUME IInv, NEW f \in {"self", "others"}, SaveTruncate(f)
  PROVE  IInv'
<1>1. /\ pc = "save" /\ saving[f] = "todo"
      /\ UNCHANGED <<party, pc, src, req, saveOf, alpha2, preAlpha, preGamma, preMeta, gens,
                     faults, out, used, scarred>>
  BY DEF SaveTruncate, history
<1>2. /\ saving' \in Progress
      /\ f = "self" => saving'["self"] = "torn"
      /\ f # "self" => saving'["self"] = saving["self"]
  BY DEF IInv, TypeOK, SaveTruncate
<1>3. /\ f = "self" => meta' = NoMeta /\ others' = others
      /\ f # "self" => meta' = meta /\ others' = FALSE
  BY DEF SaveTruncate
<1>4. TypeOK'
  <2>1. CASE f = "self"
    <3>1. NoMeta \in Header
      BY DEF NoMeta
    <3>. HIDE DEF Source, Request, Header, Sidecar, Progress, Handout
    <3>. QED  BY <1>1, <1>2, <1>3, <2>1, <3>1 DEF IInv, TypeOK
  <2>2. CASE f # "self"
    <3>. HIDE DEF Source, Request, Header, Sidecar, Progress, Handout
    <3>. QED  BY <1>1, <1>2, <1>3, <2>2 DEF IInv, TypeOK
  <2>. QED  BY <2>1, <2>2
<1>5. ReadsInRange'
  BY <1>1 DEF IInv, ReadsInRange
<1>6. StageInv'
  BY <1>1 DEF IInv, StageInv, PreStages
<1>7. HeaderInv'
  <2>1. CASE f = "self"
    <3>1. meta'.ok = FALSE
      BY <1>3, <2>1 DEF NoMeta
    <3>. QED  BY <1>1, <1>2, <2>1, <3>1 DEF IInv, HeaderInv
  <2>2. CASE f # "self"
    BY <1>1, <1>2, <1>3, <2>2 DEF IInv, HeaderInv
  <2>. QED  BY <2>1, <2>2
<1>8. UseInv'
  <2>1. CASE f = "self"
    <3>1. meta'.ok = FALSE
      BY <1>3, <2>1 DEF NoMeta
    <3>. QED  BY <1>1, <3>1 DEF IInv, UseInv, UsedBelow, UsedSoFar, OutItems
  <2>2. CASE f # "self"
    BY <1>1, <1>3, <2>2, UseInvKept DEF IInv
  <2>. QED  BY <2>1, <2>2
<1>9. OneTimeUse'
  BY <1>1 DEF IInv, OneTimeUse
<1>. QED  BY <1>4, <1>5, <1>6, <1>7, <1>8, <1>9 DEF IInv

\* A rewritten header says what the object says.
LEMMA SaveWriteStep ==
  ASSUME IInv, NEW f \in {"self", "others"}, SaveWrite(f)
  PROVE  IInv'
<1>1. /\ pc = "save" /\ saving[f] = "torn"
      /\ UNCHANGED <<party, pc, req, saveOf, alpha2, preAlpha, preGamma, preMeta, gens,
                     faults, out, used>>
  BY DEF SaveWrite
<1>2. /\ saving' \in Progress
      /\ f = "self" => saving'["self"] = "done"
      /\ f # "self" => saving'["self"] = saving["self"]
  BY DEF IInv, TypeOK, SaveWrite
<1>3. /\ src \in Source
      /\ scarred \in BOOLEAN
  BY DEF IInv, TypeOK
<1>4. /\ src' \in Source
      /\ src'.gen = src.gen /\ src'.total = src.total /\ src'.cursor = src.cursor
      /\ src'.mode = src.mode /\ src'.start = src.start /\ src'.len = src.len
      /\ f = "self" => src'.path = TRUE
      /\ f # "self" => src'.path = src.path
  <2>1. CASE f = "self"
    <3>1. src' = [src EXCEPT !.path = TRUE]
      BY <2>1 DEF SaveWrite
    <3>. QED  BY <1>3, <2>1, <3>1
  <2>2. CASE f # "self"
    BY <1>3, <2>2 DEF SaveWrite
  <2>. QED  BY <2>1, <2>2
<1>5. /\ f = "self" => meta' = [ok |-> TRUE, gen |-> src.gen, total |-> src.total,
                               cursor |-> src.cursor]
      /\ f # "self" => meta' = meta
  BY DEF SaveWrite
<1>6. TypeOK'
  <2>1. meta' \in Header
    <3>1. CASE f = "self"
      <4>1. src.gen \in Nat /\ src.total \in Nat /\ src.cursor \in Nat
        BY <1>3
      <4>2. meta' = [ok |-> TRUE, gen |-> src.gen, total |-> src.total,
                     cursor |-> src.cursor]
        BY <1>5, <3>1
      <4>. QED  BY <4>1, <4>2
    <3>2. CASE f # "self"
      BY <1>5, <3>2 DEF IInv, TypeOK
    <3>. QED  BY <3>1, <3>2
  <2>2. others' \in BOOLEAN /\ scarred' \in BOOLEAN
    BY <1>3 DEF IInv, TypeOK, SaveWrite
  <2>. QED  BY <1>1, <1>2, <1>4, <2>1, <2>2 DEF IInv, TypeOK
<1>7. ReadsInRange'
  BY <1>1, <1>4 DEF IInv, ReadsInRange, HasSrc
<1>8. StageInv'
  BY <1>1, <1>4 DEF IInv, StageInv, HasSrc, PreStages
<1>9. HeaderInv'
  <2>1. CASE f = "self"
    <3>1. /\ meta'.gen = src.gen /\ meta'.total = src.total /\ meta'.cursor = src.cursor
          /\ src.gen <= gens /\ src.cursor <= src.total
      BY <1>1, <1>5, <2>1 DEF IInv, HeaderInv, ReadsInRange, HasSrc
    <3>. QED  BY <1>1, <1>2, <1>4, <2>1, <3>1 DEF IInv, HeaderInv
  <2>2. CASE f # "self"
    BY <1>1, <1>2, <1>4, <1>5, <2>2 DEF IInv, HeaderInv, HasSrc
  <2>. QED  BY <2>1, <2>2
<1>10. UseInv'
  <2>1. CASE f = "self"
    <3>1. meta'.gen = src.gen /\ meta'.cursor = src.cursor
      BY <1>5, <2>1
    <3>2. UsedSoFar' = UsedSoFar
      BY <1>1 DEF UsedSoFar, OutItems
    <3>. QED  BY <1>1, <1>4, <3>1, <3>2 DEF IInv, UseInv, UsedBelow, HasSrc
  <2>2. CASE f # "self"
    BY <1>1, <1>4, <1>5, <2>2, UseInvKept DEF IInv, HasSrc
  <2>. QED  BY <2>1, <2>2
<1>11. OneTimeUse'
  BY <1>1 DEF IInv, OneTimeUse
<1>. QED  BY <1>6, <1>7, <1>8, <1>9, <1>10, <1>11 DEF IInv

\* Without a precache P0 and P1 regenerate everything.
LEMMA PrecacheClearStep ==
  ASSUME IInv, NEW r \in Requests, PrecacheClear(r)
  PROVE  IInv'
<1>1. /\ pc = "ready" /\ pc' = "prove"
      /\ UNCHANGED <<party, req, saving, saveOf, meta, others, alpha2, gens, faults, out,
                     used, scarred>>
  BY DEF PrecacheClear, history
<1>2. src \in Source
  BY DEF IInv, TypeOK
<1>3. /\ src' \in Source
      /\ src'.gen = src.gen /\ src'.total = src.total /\ src'.cursor = src.cursor
      /\ src'.path = src.path
      /\ party = 2 => src'.mode = src.mode
      /\ party # 2 => src'.mode = "none"
  <2>1. CASE party = 2
    BY <1>2, <2>1 DEF PrecacheClear
  <2>2. CASE party # 2
    <3>1. src' = [src EXCEPT !.mode = "none", !.start = 0, !.len = 0]
      BY <2>2 DEF PrecacheClear
    <3>2. src' = [gen |-> src.gen, total |-> src.total, cursor |-> src.cursor,
                  mode |-> "none", start |-> 0, len |-> 0, path |-> src.path]
      BY <1>2, <3>1
    <3>. QED  BY <1>2, <2>2, <3>2
  <2>. QED  BY <2>1, <2>2
<1>4. TypeOK'
  <2>1. preAlpha' \in Seq(Cell) /\ preGamma' \in Seq(Cell)
        /\ preMeta' \in Sidecar
    <3>1. CASE party = 2
      BY <3>1 DEF IInv, TypeOK, PrecacheClear
    <3>2. CASE party # 2
      <4>1. preAlpha' = <<>> /\ preGamma' = <<>> /\ preMeta' = NoPreMeta
        BY <3>2 DEF PrecacheClear, ClearPrecacheFiles
      <4>. QED  BY <4>1 DEF NoPreMeta
    <3>. QED  BY <3>1, <3>2
  <2>2. pc' \in Stages
    BY <1>1 DEF Stages, HasSrc
  <2>. QED  BY <1>1, <1>3, <2>1, <2>2 DEF IInv, TypeOK
<1>5. ReadsInRange'
  BY <1>1, <1>3 DEF IInv, ReadsInRange, StageInv, HasSrc
<1>6. StageInv'
  BY <1>1, <1>3 DEF IInv, StageInv, HasSrc, PreStages
<1>7. HeaderInv'
  BY <1>1, <1>3 DEF IInv, HeaderInv, HasSrc
<1>8. UseInv'
  BY <1>1, <1>3, UseInvKept DEF IInv, HasSrc
<1>9. OneTimeUse'
  BY <1>1 DEF IInv, OneTimeUse
<1>. QED  BY <1>4, <1>5, <1>6, <1>7, <1>8, <1>9 DEF IInv

\* The precache files are created with the length of the request.
LEMMA PrecacheCreateStep ==
  ASSUME IInv, NEW r \in Requests, PrecacheCreate(r)
  PROVE  IInv'
<1>1. /\ pc = "ready" /\ pc' = "preAlpha" /\ party # 2 /\ r \in Nat
      /\ req' = [base |-> src.cursor, len |-> r, cached |-> 0]
      /\ UNCHANGED <<party, src, saving, saveOf, meta, others, alpha2, preMeta, gens, faults,
                     out, used, scarred>>
  BY RequestsAssumption DEF PrecacheCreate, history
<1>2. /\ preAlpha' \in Seq(Cell) /\ Len(preAlpha') = r
      /\ preGamma' \in Seq(Cell) /\ (party = 0 => Len(preGamma') = r)
  BY <1>1, ZerosType DEF PrecacheCreate
<1>3. TypeOK'
  <2>1. req' \in Request /\ pc' \in Stages
    BY <1>1 DEF IInv, TypeOK, Stages, HasSrc
  <2>. HIDE DEF Source, Request, Header, Sidecar, Progress, Handout
  <2>. QED  BY <1>1, <1>2, <2>1 DEF IInv, TypeOK
<1>4. ReadsInRange'
  BY <1>1 DEF IInv, ReadsInRange, HasSrc
<1>5. StageInv'
  BY <1>1, <1>2 DEF IInv, StageInv, HasSrc, PreStages
<1>6. HeaderInv'
  BY <1>1 DEF IInv, HeaderInv, HasSrc
<1>7. UseInv'
  BY <1>1, UseInvKept DEF IInv, HasSrc
<1>8. OneTimeUse'
  BY <1>1 DEF IInv, OneTimeUse
<1>. QED  BY <1>3, <1>4, <1>5, <1>6, <1>7, <1>8 DEF IInv

\* Writing the precache files changes neither their lengths nor the object.
LEMMA PrecacheFillStep ==
  ASSUME IInv, PrecacheAlpha \/ PrecacheGamma \/ PrecacheTruncate
  PROVE  IInv'
<1>1. /\ pc \in PreStages /\ pc' \in PreStages
      /\ UNCHANGED <<party, src, req, saving, saveOf, meta, others, alpha2, gens, faults,
                     out, used, scarred>>
  BY DEF PrecacheAlpha, PrecacheGamma, PrecacheTruncate, PreStages, history
<1>2. /\ preAlpha' \in Seq(Cell) /\ Len(preAlpha') = Len(preAlpha)
      /\ preGamma' \in Seq(Cell) /\ Len(preGamma') = Len(preGamma)
  <2>1. preAlpha \in Seq(Cell) /\ preGamma \in Seq(Cell)
        /\ Items(src.gen, req.base, req.len) \in Seq(Cell)
    BY ItemsType DEF IInv, TypeOK
  <2>. QED  BY <2>1, WriteAtType DEF PrecacheAlpha, PrecacheGamma, PrecacheTruncate
<1>3. preMeta' \in Sidecar
  <2>1. NoPreMeta \in Sidecar
    BY DEF NoPreMeta
  <2>2. preMeta' = preMeta \/ preMeta' = NoPreMeta
    BY DEF PrecacheAlpha, PrecacheGamma, PrecacheTruncate
  <2>. QED  BY <2>1, <2>2 DEF IInv, TypeOK
<1>4. TypeOK'
  <2>. HIDE DEF Source, Request, Header, Sidecar, Progress, Handout
  <2>. QED  BY <1>1, <1>2, <1>3 DEF IInv, TypeOK, PreStages, Stages, HasSrc
<1>5. ReadsInRange'
  BY <1>1 DEF IInv, ReadsInRange, HasSrc, PreStages
<1>6. StageInv'
  BY <1>1, <1>2 DEF IInv, StageInv, HasSrc, PreStages
<1>7. HeaderInv'
  BY <1>1 DEF IInv, HeaderInv, HasSrc, PreStages
<1>8. UseInv'
  BY <1>1, UseInvKept DEF IInv, HasSrc, PreStages
<1>9. OneTimeUse'
  BY <1>1 DEF IInv, OneTimeUse
<1>. QED  BY <1>4, <1>5, <1>6, <1>7, <1>8, <1>9 DEF IInv

\* The window that comes into force is the one that was written.
LEMMA PrecacheWriteStep ==
  ASSUME IInv, PrecacheWrite
  PROVE  IInv'
<1>1. /\ pc = "preWrite" /\ pc' = "prove" /\ req' = NoReq
      /\ UNCHANGED <<party, saving, saveOf, meta, others, alpha2, preAlpha, preGamma, gens,
                     faults, out, used, scarred>>
  BY DEF PrecacheWrite, history
<1>2. /\ src' = [gen |-> src.gen, total |-> src.total, cursor |-> src.cursor,
                 mode |-> "precache", start |-> req.base, len |-> req.len,
                 path |-> src.path]
      /\ preMeta' = [ok |-> TRUE, gen |-> src.gen, total |-> src.total,
                     start |-> req.base, len |-> req.len]
  BY DEF IInv, TypeOK, PrecacheWrite
<1>3. /\ req.base = src.cursor /\ Len(preAlpha) = req.len /\ party # 2
      /\ party = 0 => Len(preGamma) = req.len
      /\ req.len \in Nat /\ req.base \in Nat
  BY <1>1 DEF IInv, TypeOK, StageInv, PreStages
<1>4. TypeOK'
  <2>1. /\ src' \in Source
        /\ preMeta' \in Sidecar
    <3>1. src \in Source
      BY DEF IInv, TypeOK
    <3>. QED  BY <1>2, <1>3, <3>1
  <2>. QED  BY <1>1, <2>1 DEF IInv, TypeOK, NoReq, Stages, HasSrc
<1>5. ReadsInRange'
  BY <1>1, <1>2, <1>3 DEF IInv, ReadsInRange, HasSrc
<1>6. StageInv'
  BY <1>1, <1>3 DEF StageInv, PreStages
<1>7. HeaderInv'
  BY <1>1, <1>2 DEF IInv, HeaderInv, HasSrc
<1>8. UseInv'
  BY <1>1, <1>2, UseInvKept DEF IInv, HasSrc
<1>9. OneTimeUse'
  BY <1>1 DEF IInv, OneTimeUse
<1>. QED  BY <1>4, <1>5, <1>6, <1>7, <1>8, <1>9 DEF IInv

\* A reservation notes a range of unused items and moves nothing.
LEMMA ReserveStep ==
  ASSUME IInv, NEW n \in 1..MaxItems, Reserve(n)
  PROVE  IInv'
<1>1. /\ pc = "prove" /\ pc' = "reserved" /\ n <= src.total - src.cursor
      /\ req' = [base |-> src.cursor, len |-> n, cached |-> CachedLen(src.cursor, n)]
      /\ UNCHANGED <<party, src, saving, saveOf, meta, others, alpha2, preAlpha, preGamma,
                     preMeta, gens, faults, out, used, scarred>>
  BY DEF Reserve, remaining, disk, history
<1>2. n \in Nat /\ src.cursor \in Nat /\ src.total \in Nat
  BY BoundsAssumption DEF IInv, TypeOK
<1>3. CachedLen(src.cursor, n) \in Nat
  <2>1. src.start \in Nat /\ src.len \in Nat
    BY DEF IInv, TypeOK
  <2>. QED  BY <1>2, <2>1 DEF CachedLen, MinOf
<1>4. TypeOK'
  <2>1. req' \in Request /\ pc' \in Stages
    BY <1>1, <1>2, <1>3 DEF Stages, HasSrc
  <2>. HIDE DEF Source, Request, Header, Sidecar, Progress, Handout
  <2>. QED  BY <1>1, <2>1 DEF IInv, TypeOK
<1>5. ReadsInRange'
  BY <1>1 DEF IInv, ReadsInRange, HasSrc
<1>6. StageInv'
  BY <1>1, <1>2 DEF IInv, StageInv, HasSrc, PreStages
<1>7. HeaderInv'
  BY <1>1 DEF IInv, HeaderInv, HasSrc
<1>8. UseInv'
  BY <1>1, UseInvKept DEF IInv, HasSrc
<1>9. OneTimeUse'
  BY <1>1 DEF IInv, OneTimeUse
<1>. QED  BY <1>4, <1>5, <1>6, <1>7, <1>8, <1>9 DEF IInv

\* Consuming the alpha side of a range keeps the lengths of the files.
LEMMA ConsumeAlphaType ==
  ASSUME TypeOK, NEW base \in Nat, NEW n \in Nat, NEW cached \in Nat,
         ConsumeAlpha(base, n, cached)
  PROVE  /\ alpha2' \in Seq(Cell) /\ Len(alpha2') = Len(alpha2)
         /\ preAlpha' \in Seq(Cell) /\ Len(preAlpha') = Len(preAlpha)
<1>1. alpha2 \in Seq(Cell) /\ preAlpha \in Seq(Cell) /\ src.start \in Nat
  BY DEF TypeOK
<1>2. CASE party = 2
  BY <1>1, <1>2, ConsumedType DEF ConsumeAlpha
<1>3. CASE party # 2
  BY <1>1, <1>3, ConsumedType DEF ConsumeAlpha
<1>. QED  BY <1>2, <1>3

\* Finalising moves the cursor to the end of the reserved range.
LEMMA FinalizeStep ==
  ASSUME IInv, Finalize
  PROVE  IInv'
<1>1. /\ pc = "filled" /\ pc' \in {"gamma", "persist"}
      /\ UNCHANGED <<party, req, saving, saveOf, meta, others, preGamma, preMeta, gens, faults,
                     out, used, scarred>>
  BY DEF Finalize, AfterAlpha, history
<1>2. /\ req.base \in Nat /\ req.len \in Nat /\ req.cached \in Nat
      /\ req.base = src.cursor /\ req.base + req.len <= src.total
      /\ src.cursor <= src.total /\ src.total \in Nat
  BY <1>1 DEF IInv, TypeOK, StageInv, ReadsInRange, HasSrc
<1>3. src' = [gen |-> src.gen, total |-> src.total, cursor |-> req.base + req.len,
              mode |-> src.mode, start |-> src.start, len |-> src.len, path |-> src.path]
  <2>1. src \in Source
    BY DEF IInv, TypeOK
  <2>2. src' = [src EXCEPT !.cursor = req.base + req.len]
    BY DEF Finalize
  <2>. QED  BY <2>1, <2>2
<1>4. /\ alpha2' \in Seq(Cell) /\ Len(alpha2') = Len(alpha2)
      /\ preAlpha' \in Seq(Cell) /\ Len(preAlpha') = Len(preAlpha)
  BY <1>2, ConsumeAlphaType DEF IInv, Finalize
<1>5. TypeOK'
  <2>1. src' \in Source
    <3>1. src \in Source
      BY DEF IInv, TypeOK
    <3>. QED  BY <1>2, <1>3, <3>1
  <2>. QED  BY <1>1, <1>4, <2>1 DEF IInv, TypeOK, Stages, HasSrc
<1>6. ReadsInRange'
  <2>1. src.start \in Nat /\ src.cursor \in Nat
    BY DEF IInv, TypeOK
  <2>. QED  BY <1>1, <1>2, <1>3, <1>4, <2>1 DEF IInv, ReadsInRange, HasSrc
<1>7. StageInv'
  BY <1>1, <1>2, <1>3 DEF IInv, StageInv, HasSrc, PreStages
<1>8. HeaderInv'
  BY <1>1, <1>3 DEF IInv, HeaderInv, HasSrc
<1>9. UseInv'
  <2>1. UsedSoFar' = UsedSoFar /\ UsedSoFar \subseteq Cell
    BY <1>1, UsedSoFarType DEF IInv, UsedSoFar, OutItems
  <2>2. \A u \in UsedSoFar : u[2] \in Nat
    BY <2>1 DEF Cell
  <2>3. src'.gen = src.gen /\ src'.cursor = req.base + req.len
    BY <1>3
  <2>. QED  BY <1>1, <1>2, <2>1, <2>2, <2>3 DEF IInv, UseInv, UsedBelow, HasSrc
<1>10. OneTimeUse'
  BY <1>1 DEF IInv, OneTimeUse
<1>. QED  BY <1>5, <1>6, <1>7, <1>8, <1>9, <1>10 DEF IInv

\* Consuming P0's gamma file keeps its length.
LEMMA ConsumeGammaStep ==
  ASSUME IInv, ConsumeGamma
  PROVE  IInv'
<1>1. /\ pc = "gamma" /\ pc' = "persist"
      /\ UNCHANGED <<party, src, req, saving, saveOf, meta, others, alpha2, preAlpha, preMeta,
                     gens, faults, out, used, scarred>>
  BY DEF ConsumeGamma, history
<1>2. preGamma' \in Seq(Cell) /\ Len(preGamma') = Len(preGamma)
  <2>1. /\ preGamma \in Seq(Cell) /\ src.start \in Nat
        /\ req.base \in Nat /\ req.cached \in Nat
    BY DEF IInv, TypeOK
  <2>. QED  BY <2>1, ConsumedType DEF ConsumeGamma
<1>3. TypeOK'
  <2>. HIDE DEF Source, Request, Header, Sidecar, Progress, Handout
  <2>. QED  BY <1>1, <1>2 DEF IInv, TypeOK, Stages, HasSrc
<1>4. ReadsInRange'
  BY <1>1, <1>2 DEF IInv, ReadsInRange, HasSrc
<1>5. StageInv'
  BY <1>1 DEF IInv, StageInv, HasSrc, PreStages
<1>6. HeaderInv'
  BY <1>1 DEF IInv, HeaderInv, HasSrc
<1>7. UseInv'
  BY <1>1, UseInvKept DEF IInv, HasSrc
<1>8. OneTimeUse'
  BY <1>1 DEF IInv, OneTimeUse
<1>. QED  BY <1>3, <1>4, <1>5, <1>6, <1>7, <1>8 DEF IInv

\* What is delivered at or after the cursor was not handed out before.
LEMMA HandOutFresh ==
  ASSUME IInv, pc \in HasSrc, NEW items \in SUBSET (Nat \X Cell), HandOut(items),
         \A x \in items : src.cursor <= x[1]
  PROVE  /\ out' \in Handout
         /\ used' \subseteq Cell
         /\ OneTimeUse'
         /\ UsedSoFar' = UsedSoFar
         /\ out'.gen <= gens /\ \A u \in used' : u[1] <= gens
         /\ scarred' = scarred
<1>1. /\ out' = [gen |-> src.gen, items |-> items, complete |-> FALSE]
      /\ used' = UsedSoFar /\ scarred' = scarred
  BY DEF HandOut
<1>2. /\ src.gen \in Nat /\ src.gen <= gens /\ src.cursor \in Nat
      /\ UsedSoFar \subseteq Cell /\ \A u \in UsedSoFar : u[1] <= gens
  BY UsedSoFarType DEF IInv, TypeOK, HeaderInv
<1>3. OneTimeUse'
  <2>. SUFFICES ASSUME NEW x \in items, <<src.gen, x[1]>> \in UsedSoFar PROVE FALSE
    BY <1>1 DEF OneTimeUse
  <2>1. <<src.gen, x[1]>>[2] < src.cursor
    BY DEF IInv, UseInv, UsedBelow
  <2>2. x[1] \in Nat
    OBVIOUS
  <2>. QED  BY <1>2, <2>1, <2>2
<1>4. UsedSoFar' = UsedSoFar
  BY <1>1, UsedSoFarKept
<1>. QED  BY <1>1, <1>2, <1>3, <1>4

\* take_batch_into hands out items from the cursor on.
LEMMA TakeStep ==
  ASSUME IInv, NEW n \in 1..MaxItems, Take(n)
  PROVE  IInv'
<1>. DEFINE cached == CachedLen(src.cursor, n)
            items == Delivered(src.cursor, n, cached)
<1>1. /\ pc = "prove" /\ pc' \in {"gamma", "persist"} /\ n <= src.total - src.cursor
      /\ req' = [base |-> src.cursor, len |-> n, cached |-> cached]
      /\ HandOut(items) /\ ConsumeAlpha(src.cursor, n, cached)
      /\ UNCHANGED <<party, src, saving, saveOf, meta, others, preGamma, preMeta, gens,
                     faults>>
  BY DEF Take, remaining, AfterAlpha
<1>2. /\ n \in Nat /\ src.cursor \in Nat /\ src.total \in Nat
      /\ src.start \in Nat /\ src.len \in Nat
      /\ alpha2 \in Seq(Cell) /\ preAlpha \in Seq(Cell) /\ preGamma \in Seq(Cell)
  BY BoundsAssumption DEF IInv, TypeOK
<1>3. /\ cached \in Nat /\ cached <= n
      /\ cached > 0 => /\ src.mode = "precache" /\ src.start <= src.cursor
                       /\ src.cursor + cached <= src.start + src.len
  BY <1>2 DEF CachedLen, MinOf
<1>4. \A x \in items : x \in Nat \X Cell /\ src.cursor <= x[1] /\ x[1] < src.cursor + n
  <2>1. party = 2 => src.cursor + n <= Len(alpha2)
    BY <1>1, <1>2 DEF IInv, ReadsInRange, HasSrc
  <2>2. party # 2 /\ cached > 0 =>
          /\ src.start <= src.cursor /\ src.cursor - src.start + cached <= Len(preAlpha)
          /\ party = 0 => src.cursor - src.start + cached <= Len(preGamma)
    <3>1. src.mode = "precache" => /\ src.len <= Len(preAlpha)
                                   /\ party = 0 => src.len <= Len(preGamma)
      BY <1>1 DEF IInv, ReadsInRange, HasSrc
    <3>2. Len(preAlpha) \in Nat /\ Len(preGamma) \in Nat
      BY <1>2
    <3>3. src.cursor \in Nat /\ src.start \in Nat /\ src.len \in Nat
      BY <1>2
    <3>. HIDE DEF cached
    <3>. QED  BY <1>3, <3>1, <3>2, <3>3, SMTT(60)
  <2>. HIDE DEF cached
  <2>. QED  BY <1>2, <1>3, <2>1, <2>2, DeliveredType DEF IInv
<1>. HIDE DEF cached, items
<1>5. /\ out' \in Handout
      /\ used' \subseteq Cell /\ OneTimeUse' /\ UsedSoFar' = UsedSoFar
      /\ out'.gen <= gens /\ (\A u \in used' : u[1] <= gens) /\ scarred' = scarred
  <2>1. items \in SUBSET (Nat \X Cell) /\ \A x \in items : src.cursor <= x[1]
    BY <1>4
  <2>2. pc \in HasSrc
    BY <1>1 DEF HasSrc
  <2>. QED  BY <1>1, <2>1, <2>2, HandOutFresh
<1>6. /\ alpha2' \in Seq(Cell) /\ Len(alpha2') = Len(alpha2)
      /\ preAlpha' \in Seq(Cell) /\ Len(preAlpha') = Len(preAlpha)
  BY <1>1, <1>2, <1>3, ConsumeAlphaType DEF IInv
<1>7. TypeOK'
  <2>1. req' \in Request /\ pc' \in Stages
    BY <1>1, <1>2, <1>3 DEF Stages, HasSrc
  <2>. QED  BY <1>1, <1>5, <1>6, <2>1 DEF IInv, TypeOK
<1>8. ReadsInRange'
  BY <1>1, <1>6 DEF IInv, ReadsInRange, HasSrc
<1>9. StageInv'
  <2>1. out'.gen = src.gen /\ out'.items = items
    BY <1>1 DEF HandOut
  <2>. QED  BY <1>1, <1>2, <1>4, <2>1, SMTT(60) DEF IInv, StageInv, HasSrc, PreStages
<1>10. HeaderInv'
  BY <1>1 DEF IInv, HeaderInv, HasSrc
<1>11. UseInv'
  BY <1>1, <1>5 DEF IInv, UseInv, UsedBelow, HasSrc
<1>. QED  BY <1>5, <1>7, <1>8, <1>9, <1>10, <1>11 DEF IInv

\* The views of a reserved range are non-empty and lie within it.
LEMMA ViewsInRange ==
  ASSUME TypeOK, NEW c \in Nat \ {0}, NEW v \in Views(c)
  PROVE  /\ v.start \in Nat /\ v.len \in Nat
         /\ req.base <= v.start /\ v.start + v.len <= req.base + req.len
<1>1. req.base \in Nat /\ req.len \in Nat
  BY DEF TypeOK
<1>2. PICK i \in 0 .. req.len - 1 :
        /\ i * c < req.len
        /\ v = [start |-> req.base + i * c, len |-> MinOf(c, req.len - i * c)]
  BY DEF Views
<1>3. i * c \in Nat
  BY <1>1
<1>. QED  BY <1>1, <1>2, <1>3 DEF MinOf

\* The stored prefix of a view that fills lies inside the view and the files.
LEMMA ViewCachedBound ==
  ASSUME TypeOK, NEW c \in Nat \ {0}, NEW v \in Views(c), ViewFills(v)
  PROVE  /\ ViewCached(v) \in Nat /\ ViewCached(v) <= v.len
         /\ party = 2 => v.start + v.len <= Len(alpha2)
         /\ party # 2 /\ ViewCached(v) > 0 =>
              /\ src.mode = "precache"
              /\ src.start <= v.start /\ v.start - src.start + ViewCached(v) <= Len(preAlpha)
              /\ party = 0 => v.start - src.start + ViewCached(v) <= Len(preGamma)
<1>1. /\ v.start \in Nat /\ v.len \in Nat
      /\ req.base \in Nat /\ req.len \in Nat /\ src.start \in Nat /\ src.len \in Nat
  BY ViewsInRange DEF TypeOK
<1>2. \A a \in Int : a % USize \in Nat
  BY BoundsAssumption
<1>3. /\ ViewCached(v) \in Nat /\ ViewCached(v) <= v.len
      /\ party # 2 /\ ViewCached(v) > 0 => src.mode = "precache" /\ src.start <= v.start
  <2>1. CASE party = 2
    <3>1. ViewCached(v) = MinOf((req.base + req.len - v.start) % USize, v.len)
      BY <2>1 DEF ViewCached
    <3>. DEFINE d == req.base + req.len - v.start
    <3>2. d % USize \in Nat
      <4>1. d \in Int
        BY <1>1
      <4>. HIDE DEF d
      <4>. QED  BY <1>2, <4>1
    <3>. QED  BY <1>1, <2>1, <3>1, <3>2 DEF MinOf
  <2>2. CASE party # 2 /\ src.mode = "precache" /\ src.len > 0 /\ src.start <= v.start
    <3>1. ViewCached(v) = MinOf((src.start + src.len - v.start) % USize, v.len)
      BY <2>2 DEF ViewCached
    <3>. DEFINE d == src.start + src.len - v.start
    <3>2. d % USize \in Nat
      <4>1. d \in Int
        BY <1>1
      <4>. HIDE DEF d
      <4>. QED  BY <1>2, <4>1
    <3>. QED  BY <1>1, <2>2, <3>1, <3>2 DEF MinOf
  <2>3. CASE party # 2 /\ ~(src.mode = "precache" /\ src.len > 0 /\ src.start <= v.start)
    <3>1. ViewCached(v) = 0
      BY <2>3 DEF ViewCached
    <3>. QED  BY <1>1, <3>1
  <2>. QED  BY <2>1, <2>2, <2>3
<1>4. party = 2 => v.start + v.len <= Len(alpha2)
  BY <1>1 DEF ViewFills
<1>5. party # 2 /\ ViewCached(v) > 0 =>
        /\ v.start - src.start + ViewCached(v) <= Len(preAlpha)
        /\ party = 0 => v.start - src.start + ViewCached(v) <= Len(preGamma)
  BY DEF ViewFills
<1>. QED  BY <1>3, <1>4, <1>5

\* A view that fills reads inside the files.
LEMMA ViewDelivers ==
  ASSUME TypeOK, NEW c \in Nat \ {0}, NEW v \in Views(c), ViewFills(v)
  PROVE  \A x \in Delivered(v.start, v.len, ViewCached(v)) :
            x \in Nat \X Cell /\ req.base <= x[1] /\ x[1] < req.base + req.len
<1>1. /\ v.start \in Nat /\ v.len \in Nat
      /\ req.base <= v.start /\ v.start + v.len <= req.base + req.len
      /\ req.base \in Nat /\ req.len \in Nat
  BY ViewsInRange DEF TypeOK
<1>2. /\ ViewCached(v) \in Nat /\ ViewCached(v) <= v.len
      /\ party = 2 => v.start + v.len <= Len(alpha2)
      /\ party # 2 /\ ViewCached(v) > 0 =>
           /\ src.start <= v.start /\ v.start - src.start + ViewCached(v) <= Len(preAlpha)
           /\ party = 0 => v.start - src.start + ViewCached(v) <= Len(preGamma)
  BY ViewCachedBound
<1>3. \A x \in Delivered(v.start, v.len, ViewCached(v)) :
         x \in Nat \X Cell /\ v.start <= x[1] /\ x[1] < v.start + v.len
  BY <1>1, <1>2, DeliveredType
<1>4. \A x \in Nat \X Cell : x[1] \in Nat
  OBVIOUS
<1>. QED  BY <1>1, <1>3, <1>4

\* The forks together hand out the reserved range and nothing else.
LEMMA FillStep ==
  ASSUME IInv, NEW c \in 1..MaxItems, Fill(c)
  PROVE  IInv'
<1>. DEFINE items == UNION {Delivered(v.start, v.len, ViewCached(v)) : v \in Views(c)}
<1>1. /\ pc = "reserved" /\ pc' = "filled" /\ HandOut(items)
      /\ \A v \in Views(c) : ViewFills(v)
      /\ UNCHANGED <<party, src, req, saving, saveOf, meta, others, alpha2, preAlpha,
                     preGamma, preMeta, gens, faults>>
  BY DEF Fill, disk
<1>2. \A x \in items : x \in Nat \X Cell /\ req.base <= x[1] /\ x[1] < req.base + req.len
  <2>1. c \in Nat \ {0}
    BY BoundsAssumption
  <2>. SUFFICES ASSUME NEW v \in Views(c), NEW x \in Delivered(v.start, v.len, ViewCached(v))
       PROVE  x \in Nat \X Cell /\ req.base <= x[1] /\ x[1] < req.base + req.len
    OBVIOUS
  <2>. QED  BY <1>1, <2>1, ViewDelivers DEF IInv
<1>. HIDE DEF items
<1>3. /\ out' \in Handout
      /\ used' \subseteq Cell /\ OneTimeUse' /\ UsedSoFar' = UsedSoFar
      /\ out'.gen <= gens /\ (\A u \in used' : u[1] <= gens) /\ scarred' = scarred
  <2>1. items \in SUBSET (Nat \X Cell) /\ \A x \in items : src.cursor <= x[1]
    BY <1>1, <1>2 DEF IInv, StageInv
  <2>2. pc \in HasSrc
    BY <1>1 DEF HasSrc
  <2>. QED  BY <1>1, <2>1, <2>2, HandOutFresh
<1>4. TypeOK'
  BY <1>1, <1>3, SMTT(60) DEF IInv, TypeOK, Stages, HasSrc
<1>5. ReadsInRange'
  BY <1>1 DEF IInv, ReadsInRange, HasSrc
<1>6. StageInv'
  <2>1. out'.gen = src.gen /\ out'.items = items
    BY <1>1 DEF HandOut
  <2>. QED  BY <1>1, <1>2, <2>1 DEF IInv, StageInv, HasSrc, PreStages
<1>7. HeaderInv'
  BY <1>1 DEF IInv, HeaderInv, HasSrc
<1>8. UseInv'
  BY <1>1, <1>3 DEF IInv, UseInv, UsedBelow, HasSrc
<1>. QED  BY <1>3, <1>4, <1>5, <1>6, <1>7, <1>8 DEF IInv

\* update_cursor leaves an unreadable header alone and otherwise changes only
\* the cursor.
LEMMA PatchedType ==
  ASSUME TypeOK, NEW k \in Nat
  PROVE  /\ Patched(k) \in Header
         /\ Patched(k).ok = meta.ok /\ Patched(k).gen = meta.gen
         /\ Patched(k).total = meta.total
         /\ Patched(k).cursor = IF src.path /\ meta.ok THEN k ELSE meta.cursor
<1>1. meta \in Header
  BY DEF TypeOK
<1>2. CASE src.path /\ meta.ok
  <2>1. Patched(k) = [meta EXCEPT !.cursor = k]
    BY <1>2 DEF Patched
  <2>2. Patched(k) = [ok |-> meta.ok, gen |-> meta.gen, total |-> meta.total, cursor |-> k]
    BY <1>1, <2>1
  <2>. QED  BY <1>1, <1>2, <2>2
<1>3. CASE ~(src.path /\ meta.ok)
  <2>1. Patched(k) = meta
    BY <1>3 DEF Patched
  <2>. QED  BY <1>1, <1>3, <2>1
<1>. QED  BY <1>2, <1>3

\* Both cursors move past the hand-out that is now complete.
LEMMA PersistCursorStep ==
  ASSUME IInv, PersistCursor
  PROVE  IInv'
<1>. DEFINE k == req.base + req.len
<1>1. /\ pc = "persist" /\ pc' = "prove" /\ req' = NoReq /\ meta' = Patched(k)
      /\ UNCHANGED <<party, saving, saveOf, others, alpha2, preAlpha, preGamma, preMeta, gens,
                     faults, used, scarred>>
  BY DEF PersistCursor
<1>2. /\ k \in Nat /\ src.cursor <= k /\ k <= src.total
      /\ out.gen = src.gen /\ \A x \in out.items : x[1] < k
      /\ src.cursor \in Nat /\ src.total \in Nat /\ src.start \in Nat
  <2>1. /\ req.base \in Nat /\ req.len \in Nat
        /\ src.cursor \in Nat /\ src.total \in Nat /\ src.start \in Nat
    BY DEF IInv, TypeOK
  <2>. QED  BY <1>1, <2>1 DEF IInv, StageInv
<1>. HIDE DEF k
<1>3. src' = [gen |-> src.gen, total |-> src.total, cursor |-> k,
              mode |-> src.mode, start |-> src.start, len |-> src.len, path |-> src.path]
  <2>1. src \in Source
    BY DEF IInv, TypeOK
  <2>2. src' = [src EXCEPT !.cursor = k]
    BY DEF PersistCursor, k
  <2>. QED  BY <2>1, <2>2
<1>4. out' = [gen |-> out.gen, items |-> out.items, complete |-> TRUE]
  <2>1. out \in Handout
    BY DEF IInv, TypeOK
  <2>2. out' = [out EXCEPT !.complete = TRUE]
    BY DEF PersistCursor
  <2>. QED  BY <2>1, <2>2
<1>5. /\ meta' \in Header
      /\ meta'.ok = meta.ok /\ meta'.gen = meta.gen /\ meta'.total = meta.total
      /\ src.path /\ meta.ok => meta'.cursor = k
  BY <1>1, <1>2, PatchedType DEF IInv
<1>6. /\ src.path /\ src.gen <= gens
      /\ meta.ok => meta.gen = src.gen /\ meta.total = src.total
  BY <1>1 DEF IInv, HeaderInv, HasSrc
<1>7. TypeOK'
  <2>1. /\ src' \in Source
        /\ out' \in Handout
    <3>1. src \in Source /\ out \in Handout
      BY DEF IInv, TypeOK
    <3>2. src' \in Source
      BY <1>2, <1>3, <3>1
    <3>. QED  BY <1>4, <3>1, <3>2
  <2>. QED  BY <1>1, <1>5, <2>1 DEF IInv, TypeOK, NoReq, Stages, HasSrc
<1>8. ReadsInRange'
  BY <1>1, <1>2, <1>3 DEF IInv, ReadsInRange, HasSrc
<1>9. StageInv'
  BY <1>1, <1>3 DEF IInv, StageInv, HasSrc, PreStages
<1>10. HeaderInv'
  BY <1>1, <1>2, <1>3, <1>5, <1>6 DEF IInv, HeaderInv, HasSrc
<1>11. UseInv'
  <2>1. \A u \in UsedSoFar' : u \in UsedSoFar \/ (u[1] = src.gen /\ u[2] < k)
    BY <1>1, <1>2, <1>4 DEF UsedSoFar, OutItems
  <2>2. \A u \in UsedSoFar : u[2] \in Nat /\ (u[1] = src.gen => u[2] < k)
    <3>1. UsedSoFar \subseteq Cell /\ pc \in HasSrc
      BY <1>1, UsedSoFarType DEF IInv, HasSrc
    <3>2. \A u \in UsedSoFar : u[2] \in Nat
      BY <3>1 DEF Cell
    <3>. QED  BY <1>2, <3>1, <3>2 DEF IInv, UseInv, UsedBelow
  <2>3. src'.gen = src.gen /\ src'.cursor = k /\ out'.gen = out.gen
    BY <1>3, <1>4
  <2>. QED  BY <1>1, <1>5, <1>6, <2>1, <2>2, <2>3 DEF IInv, UseInv, UsedBelow, HasSrc
<1>12. OneTimeUse'
  BY <1>1, <1>4 DEF IInv, OneTimeUse
<1>. QED  BY <1>7, <1>8, <1>9, <1>10, <1>11, <1>12 DEF IInv

\* A loaded source continues where the durable cursor stands.
LEMMA LoadStep ==
  ASSUME IInv, Load
  PROVE  IInv'
<1>1. /\ pc = "down" /\ pc' = "loaded" /\ meta.ok
      /\ party = 2 => Len(alpha2) >= meta.total
      /\ UNCHANGED <<party, req, saving, saveOf, meta, others, alpha2, gens, faults, out,
                     used, scarred>>
  BY DEF Load, LoadSucceeds, history
<1>2. /\ meta.gen \in Nat /\ meta.total \in Nat /\ meta.cursor \in Nat
      /\ preMeta.start \in Nat /\ preMeta.len \in Nat
      /\ meta.cursor <= meta.total /\ meta.gen <= gens
  BY <1>1 DEF IInv, TypeOK, HeaderInv
<1>3. CASE PrecacheMatches
  <2>1. /\ src' = [gen |-> meta.gen, total |-> meta.total, cursor |-> meta.cursor,
                   mode |-> "precache", start |-> preMeta.start, len |-> preMeta.len,
                   path |-> TRUE]
        /\ UNCHANGED <<preAlpha, preGamma, preMeta>>
    BY <1>3 DEF Load, PrecacheMatches
  <2>2. /\ party # 2 /\ preMeta.start = meta.cursor /\ Len(preAlpha) >= preMeta.len
        /\ party = 0 => Len(preGamma) >= preMeta.len
    BY <1>3 DEF PrecacheMatches
  <2>3. TypeOK'
    BY <1>1, <1>2, <2>1 DEF IInv, TypeOK, Stages, HasSrc
  <2>4. ReadsInRange' /\ StageInv'
    <3>1. Len(preAlpha) \in Nat /\ Len(preGamma) \in Nat
      <4>1. preAlpha \in Seq(Cell) /\ preGamma \in Seq(Cell)
        BY DEF IInv, TypeOK
      <4>. QED  BY <4>1
    <3>. QED  BY <1>1, <1>2, <2>1, <2>2, <3>1 DEF ReadsInRange, StageInv, PreStages
  <2>5. HeaderInv' /\ UseInv' /\ OneTimeUse'
    <3>1. UsedSoFar' = UsedSoFar
      BY <1>1 DEF UsedSoFar, OutItems
    <3>. QED  BY <1>1, <1>2, <2>1, <3>1
                DEF IInv, HeaderInv, UseInv, UsedBelow, OneTimeUse
  <2>. QED  BY <2>3, <2>4, <2>5 DEF IInv
<1>4. CASE ~PrecacheMatches
  <2>1. src' = [gen |-> meta.gen, total |-> meta.total, cursor |-> meta.cursor,
                mode |-> IF party = 2 THEN "p2" ELSE "none", start |-> 0, len |-> 0,
                path |-> TRUE]
    BY <1>4 DEF Load
  <2>2. /\ preAlpha' \in Seq(Cell) /\ preGamma' \in Seq(Cell)
        /\ preMeta' \in Sidecar
    <3>1. CASE party = 2
      BY <3>1 DEF IInv, TypeOK, Load
    <3>2. CASE party # 2
      <4>1. preAlpha' = <<>> /\ preGamma' = <<>> /\ preMeta' = NoPreMeta
        BY <1>4, <3>2 DEF Load, ClearPrecacheFiles
      <4>. QED  BY <4>1 DEF NoPreMeta
    <3>. QED  BY <3>1, <3>2
  <2>3. TypeOK'
    <3>1. src' \in Source
      BY <1>2, <2>1
    <3>. QED  BY <1>1, <2>2, <3>1 DEF IInv, TypeOK, Stages, HasSrc
  <2>4. ReadsInRange' /\ StageInv'
    <3>1. src'.mode # "precache" /\ src'.total = meta.total /\ src'.cursor = meta.cursor
      BY <2>1
    <3>. QED  BY <1>1, <1>2, <3>1 DEF IInv, TypeOK, ReadsInRange, StageInv, PreStages
  <2>5. HeaderInv' /\ UseInv' /\ OneTimeUse'
    <3>1. UsedSoFar' = UsedSoFar
      BY <1>1 DEF UsedSoFar, OutItems
    <3>2. /\ src'.gen = meta.gen /\ src'.total = meta.total /\ src'.cursor = meta.cursor
          /\ src'.path = TRUE
      BY <2>1
    <3>. QED  BY <1>1, <1>2, <3>1, <3>2
                DEF IInv, HeaderInv, UseInv, UsedBelow, OneTimeUse
  <2>. QED  BY <2>3, <2>4, <2>5 DEF IInv
<1>. QED  BY <1>3, <1>4

\* The process is gone and only the header may have changed.
LEMMA DownStep ==
  ASSUME IInv, Down,
         UNCHANGED <<party, others, alpha2, preAlpha, preGamma, preMeta, gens, out, used>>,
         faults' \in Nat, scarred' \in BOOLEAN,
         \/ meta' = meta
         \/ pc \in HasSrc /\ meta' = Patched(src.cursor) /\ (pc = "save" => SaveJoined)
  PROVE  IInv'
<1>1. /\ pc' = "down" /\ src' = NoSrc /\ req' = NoReq /\ saving' = IdleSave
      /\ saveOf' = "none"
  BY DEF Down
<1>2. src.cursor \in Nat /\ meta \in Header
  BY DEF IInv, TypeOK
<1>3. meta' \in Header
  BY <1>2, PatchedType DEF IInv
<1>4. meta'.ok => /\ meta'.gen <= gens /\ meta'.cursor <= meta'.total
                  /\ UsedBelow(meta'.gen, meta'.cursor)
  <2>1. CASE meta' = meta
    BY <2>1 DEF IInv, HeaderInv, UseInv
  <2>2. CASE pc \in HasSrc /\ meta' = Patched(src.cursor) /\ (pc = "save" => SaveJoined)
    <3>1. /\ meta'.ok = meta.ok /\ meta'.gen = meta.gen /\ meta'.total = meta.total
          /\ meta'.cursor = IF src.path /\ meta.ok THEN src.cursor ELSE meta.cursor
      BY <1>2, <2>2, PatchedType DEF IInv
    <3>2. CASE src.path /\ meta.ok
      <4>1. pc = "save" => saving["self"] # "todo"
        BY <2>2 DEF IInv, TypeOK, SaveJoined
      <4>2. meta.gen = src.gen /\ meta.total = src.total
        BY <2>2, <3>2, <4>1 DEF IInv, HeaderInv
      <4>. QED  BY <2>2, <3>1, <3>2, <4>2 DEF IInv, HeaderInv, UseInv, ReadsInRange
    <3>3. CASE ~(src.path /\ meta.ok)
      BY <3>1, <3>3 DEF IInv, HeaderInv, UseInv
    <3>. QED  BY <3>2, <3>3
  <2>. QED  BY <2>1, <2>2
<1>5. TypeOK'
  <2>1. /\ NoSrc \in Source
        /\ NoReq \in Request
        /\ IdleSave \in Progress
    BY DEF NoSrc, NoReq, IdleSave
  <2>. QED  BY <1>1, <1>3, <2>1 DEF IInv, TypeOK, Stages
<1>6. ReadsInRange' /\ StageInv'
  BY <1>1 DEF ReadsInRange, StageInv, HasSrc, PreStages
<1>7. HeaderInv'
  BY <1>1, <1>4 DEF HeaderInv, HasSrc
<1>8. UseInv'
  <2>1. UsedSoFar' = UsedSoFar
    BY DEF UsedSoFar, OutItems
  <2>. QED  BY <1>1, <1>4, <2>1 DEF IInv, UseInv, UsedBelow, HasSrc
<1>9. OneTimeUse'
  BY DEF IInv, OneTimeUse
<1>. QED  BY <1>5, <1>6, <1>7, <1>8, <1>9 DEF IInv

\* Every end of an iteration, orderly or not.
LEMMA EndStep ==
  ASSUME IInv,
         \/ Finish \/ SaveAborts \/ Fails \/ Kill
         \/ \E r \in Requests : PrecacheTooLong(r)
         \/ \E c \in 1..MaxItems : FillFails(c)
  PROVE  IInv'
<1>1. faults \in Nat /\ scarred \in BOOLEAN
  BY DEF IInv, TypeOK
<1>2. AtRisk \in BOOLEAN
  BY DEF AtRisk
<1>3. CASE Kill
  BY <1>1, <1>2, <1>3, DownStep DEF Kill, disk
<1>4. CASE ~Kill
  <2>1. DropSrc /\ faults' \in Nat /\ (pc = "save" => SaveJoined)
    BY <1>1, <1>4 DEF Finish, SaveAborts, Fails, PrecacheTooLong, FillFails
  <2>. QED  BY <1>1, <1>2, <2>1, DownStep DEF DropSrc
<1>. QED  BY <1>3, <1>4

\* The steps of pool.save that touch no header.
LEMMA SaveProgressStep ==
  ASSUME IInv, SaveAgain \/ SaveEnd \/ \E f \in {"self", "others"} : SaveError(f)
  PROVE  IInv'
<1>1. /\ pc = "save" /\ pc' \in {"save", "ready"}
      /\ UNCHANGED <<party, src, req, meta, others, alpha2, preAlpha, preGamma, preMeta, gens,
                     out, used, scarred>>
  BY DEF SaveAgain, SaveEnd, SaveError, disk, history
<1>2. saving \in Progress
      /\ faults \in Nat /\ saveOf \in {"none", "first", "second", "extend"}
  BY DEF IInv, TypeOK
<1>3. TypeOK'
  <2>1. /\ saving' \in Progress
        /\ faults' \in Nat /\ saveOf' \in {"none", "first", "second", "extend"}
    BY <1>2 DEF SaveAgain, SaveEnd, SaveError, StartSave, IdleSave
  <2>. QED  BY <1>1, <2>1, SMTT(60) DEF IInv, TypeOK, Stages, HasSrc
<1>4. ReadsInRange'
  BY <1>1 DEF IInv, ReadsInRange, HasSrc
<1>5. StageInv'
  BY <1>1 DEF IInv, StageInv, HasSrc, PreStages
<1>6. HeaderInv'
  <2>1. CASE SaveAgain
    BY <1>1, <1>2, <2>1
       DEF IInv, HeaderInv, HasSrc, SaveAgain, SaveJoined, SaveFailed, StartSave
  <2>2. CASE SaveEnd
    BY <1>1, <1>2, <2>2 DEF IInv, HeaderInv, HasSrc, SaveEnd, SaveJoined, SaveFailed
  <2>3. CASE \E f \in {"self", "others"} : SaveError(f)
    BY <1>1, <1>2, <2>3 DEF IInv, HeaderInv, HasSrc, SaveError
  <2>. QED  BY <2>1, <2>2, <2>3
<1>7. UseInv'
  BY <1>1, UseInvKept DEF IInv, HasSrc
<1>8. OneTimeUse'
  BY <1>1 DEF IInv, OneTimeUse
<1>. QED  BY <1>3, <1>4, <1>5, <1>6, <1>7, <1>8 DEF IInv

\* The decisions that change nothing but the stage (and start a save).
LEMMA DecisionStep ==
  ASSUME IInv,
         \/ LoadFails \/ PrecacheSkip
         \/ \E n \in Budgets : NoExtend(n) \/ ExtendOthers(n)
         \/ \E r \in Requests : PrecacheHit(r)
  PROVE  IInv'
<1>1. /\ pc' \in {"fresh", "ready", "save", "prove"}
      /\ pc' # "fresh" => pc \in {"loaded", "ready"}
      /\ pc' # "save" => UNCHANGED <<saving, saveOf>>
      /\ pc' = "save" => saving' = StartSave /\ saveOf' = "extend"
      /\ UNCHANGED <<party, src, req, meta, others, alpha2, preAlpha, preGamma, preMeta, gens,
                     faults, out, used, scarred>>
  BY DEF LoadFails, PrecacheSkip, NoExtend, ExtendOthers, PrecacheHit, disk, history
<1>2. TypeOK'
  <2>1. StartSave \in Progress
    BY DEF StartSave
  <2>2. /\ saving' \in Progress
        /\ saveOf' \in {"none", "first", "second", "extend"}
        /\ pc' \in Stages
    BY <1>1, <2>1 DEF IInv, TypeOK, Stages, HasSrc
  <2>. QED  BY <1>1, <2>2 DEF IInv, TypeOK
<1>3. ReadsInRange'
  BY <1>1 DEF IInv, ReadsInRange, HasSrc
<1>4. StageInv'
  BY <1>1 DEF IInv, StageInv, HasSrc, PreStages
<1>5. HeaderInv'
  BY <1>1 DEF IInv, HeaderInv, HasSrc, StartSave
<1>6. UseInv'
  BY <1>1, UseInvKept DEF IInv, HasSrc
<1>7. OneTimeUse'
  BY <1>1 DEF IInv, OneTimeUse
<1>. QED  BY <1>2, <1>3, <1>4, <1>5, <1>6, <1>7 DEF IInv

-----------------------------------------------------------------------------
(* The theorems *)

\* The invariant holds of an empty directory.
LEMMA InitIInv == Init => IInv
<1>. SUFFICES ASSUME Init PROVE IInv
  OBVIOUS
<1>1. UsedSoFar = {}
  BY DEF Init, UsedSoFar, NoOut
<1>2. TypeOK
  <2>1. /\ NoSrc \in Source
        /\ NoReq \in Request
        /\ IdleSave \in Progress
    BY DEF NoSrc, NoReq, IdleSave
  <2>2. /\ NoMeta \in Header
        /\ NoPreMeta \in Sidecar
        /\ NoOut \in Handout
    BY DEF NoMeta, NoPreMeta, NoOut
  <2>3. party \in Parties /\ pc \in Stages /\ saveOf \in {"none", "first", "second", "extend"}
        /\ gens \in Nat /\ faults \in Nat
    BY DEF Init, Stages
  <2>4. others \in BOOLEAN /\ scarred \in BOOLEAN /\ used \subseteq Cell
        /\ alpha2 \in Seq(Cell) /\ preAlpha \in Seq(Cell) /\ preGamma \in Seq(Cell)
    <3>1. others = FALSE /\ scarred = FALSE /\ used = {}
          /\ alpha2 = <<>> /\ preAlpha = <<>> /\ preGamma = <<>>
      BY DEF Init
    <3>2. <<>> \in Seq(Cell)
      OBVIOUS
    <3>. QED  BY <3>1, <3>2, Zenon
  <2>5. src = NoSrc /\ req = NoReq /\ saving = IdleSave /\ meta = NoMeta
        /\ preMeta = NoPreMeta /\ out = NoOut
    BY DEF Init
  <2>. QED  BY <2>1, <2>2, <2>3, <2>4, <2>5 DEF TypeOK
<1>3. ReadsInRange /\ StageInv /\ HeaderInv
  BY DEF Init, ReadsInRange, StageInv, HeaderInv, HasSrc, PreStages, NoMeta
<1>4. UseInv /\ OneTimeUse
  BY <1>1 DEF Init, UseInv, UsedBelow, OneTimeUse, HasSrc, NoMeta, NoOut
<1>. QED  BY <1>2, <1>3, <1>4 DEF IInv

\* Every step of the worker preserves the invariant.
LEMMA NextIInv == IInv /\ [Next]_vars => IInv'
<1>. SUFFICES ASSUME IInv, [Next]_vars PROVE IInv'
  OBVIOUS
<1>1. CASE UNCHANGED vars
  <2>. USE <1>1 DEF vars, disk, history
  <2>1. TypeOK'
    <3>. HIDE DEF Source, Request, Header, Sidecar, Progress, Handout
    <3>. QED  BY DEF IInv, TypeOK
  <2>2. ReadsInRange' /\ StageInv'
    BY DEF IInv, ReadsInRange, StageInv
  <2>3. HeaderInv'
    BY DEF IInv, HeaderInv
  <2>4. UseInv' /\ OneTimeUse'
    BY DEF IInv, UseInv, UsedBelow, UsedSoFar, OutItems, OneTimeUse
  <2>. QED  BY <2>1, <2>2, <2>3, <2>4 DEF IInv
<1>2. CASE Next
  BY <1>1, <1>2, LoadStep, DecisionStep, FreshCreateStep, ExtendBeginStep, FreshReceiveStep,
     ExtendApplyStep, SaveTruncateStep, SaveWriteStep, SaveProgressStep, PrecacheClearStep,
     PrecacheCreateStep, PrecacheFillStep, PrecacheWriteStep, TakeStep, ReserveStep, FillStep,
     FinalizeStep, ConsumeGammaStep, PersistCursorStep, EndStep
     DEF Next, AwaitUser
<1>. QED  BY <1>1, <1>2

\* The inductive invariant holds in every reachable state.
LEMMA Invariance == Spec => []IInv
BY InitIInv, NextIInv, PTL DEF Spec

\* The variables keep their types: in particular every read of a hand-out hits
\* a cell of a file, whatever kills and errors the directory has been through.
THEOREM TypeCorrect == Spec => []TypeOK
<1>1. IInv => TypeOK
  BY DEF IInv
<1>. QED  BY <1>1, Invariance, PTL

\* load, apply_extension and prepare_precache leave a source whose store covers
\* all reads the code will do.
THEOREM ReadsStayInRange == Spec => []ReadsInRange
<1>1. IInv => ReadsInRange
  BY DEF IInv
<1>. QED  BY <1>1, Invariance, PTL

\* No completed hand-out of an edaBit is ever repeated: persist_cursor and Drop
\* keep the durable cursor past everything that was used.
THEOREM NoReuse == Spec => []OneTimeUse
<1>1. IInv => OneTimeUse
  BY DEF IInv
<1>. QED  BY <1>1, Invariance, PTL

-----------------------------------------------------------------------------
(* Intact hand-outs *)

\* The first n cells of file f, whose first cell is item a, are items of
\* generation g wherever they are not below item c.
Holds(f, n, a, g, c) == \A i \in 1..n : c <= a + i - 1 => f[i] = <<g, a + i - 1>>

\* The same of the files of a precache window that starts at item a.
Cached(a, g, c) ==
  /\ Holds(preAlpha, Len(preAlpha), a, g, c)
  /\ party = 0 => Holds(preGamma, Len(preGamma), a, g, c)

\* A generation that was begun and has no header yet is newer than every
\* header and sidecar, and nothing of it was handed out.
FreshInv ==
  /\ preMeta.ok => preMeta.gen <= gens /\ party # 2
  /\ pc = "recvFresh" \/ saveOf = "first" =>
       /\ out.items = {}
       /\ preMeta.ok => preMeta.gen < gens
  /\ saveOf = "first" => pc = "save" /\ src.gen = gens /\ src.mode # "precache"
  /\ pc = "recvFresh" \/ (pc = "save" /\ ~src.path) => (meta.ok => meta.gen < gens)

\* A readable header of the object has its cursor, up to the range in progress.
Durable == IF pc \in {"gamma", "persist"} THEN req.base ELSE src.cursor
CursorInv == pc \in HasSrc /\ src.path /\ meta.ok => meta.cursor = Durable

\* The object has a precache window exactly if there is a sidecar of its
\* stream; while a new window is written, the files hold what was written.
SidecarInv ==
  /\ pc \in HasSrc \ PreStages =>
       IF src.mode = "precache"
       THEN preMeta = [ok |-> TRUE, gen |-> src.gen, total |-> src.total,
                       start |-> src.start, len |-> src.len]
       ELSE preMeta.ok => preMeta.gen # src.gen
  /\ pc \in {"preGamma", "preTruncate", "preWrite"} =>
       Holds(preAlpha, Len(preAlpha), req.base, src.gen, req.base)
  /\ pc \in {"preTruncate", "preWrite"} /\ party = 0 =>
       Holds(preGamma, Len(preGamma), req.base, src.gen, req.base)
  /\ pc = "preWrite" => ~preMeta.ok

\* Cached items of a range come from the object's window.
RequestInv ==
  /\ pc \in {"reserved", "filled", "gamma", "persist"} =>
       req.cached <= req.len /\ (req.cached > 0 => src.mode = "precache" /\ party # 2)
  /\ pc = "gamma" => party = 0 /\ req.cached > 0

\* The items that are still to be handed out, as far as they are stored.
Punched == party = 2 \/ req.cached > 0
Front ==
  IF pc \in {"gamma", "persist"} THEN IF Punched THEN req.base + req.len ELSE req.base
                                 ELSE src.cursor
FilesInv ==
  pc \in HasSrc /\ (~scarred \/ saveOf = "first") =>
    /\ party = 2 => /\ Len(alpha2) = src.total + (IF pc = "recvExt" THEN req.len ELSE 0)
                    /\ pc = "recvExt" => req.base = src.total
                    /\ Holds(alpha2, src.total, 0, src.gen, Front)
    /\ party # 2 /\ src.mode = "precache" /\ pc \notin PreStages =>
         Cached(src.start, src.gen, Front)

\* What load would find.
DiskIntact ==
  meta.ok =>
    /\ party = 2 => Len(alpha2) = meta.total /\ Holds(alpha2, meta.total, 0, meta.gen, meta.cursor)
    /\ PrecacheMatches => Cached(meta.cursor, meta.gen, meta.cursor)
DiskInv ==
  (pc \notin HasSrc \/ ~src.path) /\ ~scarred /\ ~AtRisk => DiskIntact

Intact ==
  FreshInv /\ CursorInv /\ SidecarInv /\ RequestInv /\ FilesInv /\ DiskInv /\ HandoutIntact

\* Holds where less is asked.
LEMMA HoldsLess ==
  ASSUME NEW f, NEW n \in Nat, NEW m \in Nat, NEW a \in Nat, NEW g, NEW c \in Nat, NEW d \in Nat,
         Holds(f, n, a, g, c), m <= n, c <= d
  PROVE  Holds(f, m, a, g, d)
<1>. SUFFICES ASSUME NEW i \in 1..m, d <= a + i - 1 PROVE f[i] = <<g, a + i - 1>>
  BY DEF Holds
<1>1. i \in 1..n /\ c <= a + i - 1
  OBVIOUS
<1>. QED  BY <1>1 DEF Holds

\* A hole below item d leaves what comes from d on.
LEMMA ConsumedHolds ==
  ASSUME NEW f \in Seq(Cell), NEW n \in Nat, NEW a \in Nat, NEW g, NEW c \in Nat, NEW d \in Nat,
         NEW p \in Int, NEW q \in Int,
         Holds(f, n, a, g, c), n <= Len(f), c <= d, a + q <= d
  PROVE  Holds(Consumed(f, p, q), n, a, g, d)
<1>. SUFFICES ASSUME NEW i \in 1..n, d <= a + i - 1
     PROVE  Consumed(f, p, q)[i] = <<g, a + i - 1>>
  BY DEF Holds
<1>1. i \in 1..Len(f) /\ ~(i <= q) /\ c <= a + i - 1
  OBVIOUS
<1>2. Consumed(f, p, q)[i] = f[i]
  BY <1>1 DEF Consumed
<1>. QED  BY <1>1, <1>2 DEF Holds

\* A file that is written as a whole.
LEMMA WrittenHolds ==
  ASSUME NEW f \in Seq(Cell), NEW n \in Nat, NEW a \in Nat, NEW g \in Nat, NEW c, Len(f) = n
  PROVE  Holds(WriteAt(f, 0, Items(g, a, n)), n, a, g, c)
<1>. SUFFICES ASSUME NEW i \in 1..n PROVE WriteAt(f, 0, Items(g, a, n))[i] = <<g, a + i - 1>>
  BY DEF Holds
<1>1. Len(Items(g, a, n)) = n /\ Items(g, a, n)[i] = <<g, a + i - 1>>
  BY ItemsType DEF Items
<1>2. 0 < i /\ i <= 0 + Len(Items(g, a, n)) /\ i - 0 = i
  BY <1>1
<1>. QED  BY <1>1, <1>2 DEF WriteAt

\* A file of items 0 .. t-1 that grew by n cells, which are written.
LEMMA ExtendedHolds ==
  ASSUME NEW f \in Seq(Cell), NEW t \in Nat, NEW n \in Nat, NEW g \in Nat, NEW c,
         Len(f) = t + n, Holds(f, t, 0, g, c)
  PROVE  Holds(WriteAt(f, t, Items(g, t, n)), t + n, 0, g, c)
<1>. SUFFICES ASSUME NEW i \in 1..t + n, c <= 0 + i - 1
     PROVE  WriteAt(f, t, Items(g, t, n))[i] = <<g, 0 + i - 1>>
  BY DEF Holds
<1>1. Len(Items(g, t, n)) = n
  BY ItemsType
<1>2. WriteAt(f, t, Items(g, t, n))[i] = IF t < i /\ i <= t + n THEN Items(g, t, n)[i - t] ELSE f[i]
  BY <1>1 DEF WriteAt
<1>3. CASE t < i
  <2>1. i - t \in 1..n /\ t + (i - t) - 1 = 0 + i - 1
    BY <1>3
  <2>2. Items(g, t, n)[i - t] = <<g, t + (i - t) - 1>>
    BY <2>1 DEF Items
  <2>3. i <= t + n
    OBVIOUS
  <2>. QED  BY <1>2, <1>3, <2>1, <2>2, <2>3
<1>4. CASE ~(t < i)
  <2>1. i \in 1..t
    BY <1>4
  <2>. QED  BY <1>2, <1>4, <2>1 DEF Holds
<1>. QED  BY <1>3, <1>4

\* Growing a file keeps what it holds.
LEMMA GrownHolds ==
  ASSUME NEW f \in Seq(Cell), NEW n \in Nat, NEW g, NEW c, Holds(f, Len(f), 0, g, c)
  PROVE  Holds(Grown(f, n), Len(f), 0, g, c)
<1>. SUFFICES ASSUME NEW i \in 1..Len(f) PROVE Grown(f, n)[i] = f[i]
  BY DEF Holds
<1>1. Zeros(n) \in Seq(Cell)
  BY ZerosType
<1>. QED  BY <1>1 DEF Grown

\* A read where the file holds its items returns them.
LEMMA ReadHolds ==
  ASSUME NEW f, NEW k \in Nat, NEW a \in Nat, NEW g, NEW c \in Nat, NEW base \in Nat, NEW n \in Nat,
         Holds(f, k, a, g, c), a <= base, base - a + n <= k, c <= base
  PROVE  \A x \in ReadRange(f, a, base, n) : x[2] = <<g, x[1]>>
<1>. SUFFICES ASSUME NEW i \in 0 .. n - 1 PROVE f[base - a + i + 1] = <<g, base + i>>
  BY DEF ReadRange
<1>1. base - a + i + 1 \in 1..k /\ a + (base - a + i + 1) - 1 = base + i /\ c <= base + i
  OBVIOUS
<1>2. f[base - a + i + 1] = <<g, a + (base - a + i + 1) - 1>>
  BY <1>1 DEF Holds
<1>. QED  BY <1>1, <1>2

\* A read of no item returns nothing.
LEMMA ReadNone ==
  ASSUME NEW f, NEW a, NEW base
  PROVE  ReadRange(f, a, base, 0) = {}
BY DEF ReadRange

\* What a range delivers if the files hold the items from c on.
LEMMA DeliveredIntact ==
  ASSUME TypeOK, NEW base \in Nat, NEW n \in Nat, NEW cached \in Nat, cached <= n,
         NEW c \in Nat, c <= base,
         party = 2 => /\ base + n <= src.total
                      /\ Holds(alpha2, src.total, 0, src.gen, c),
         party # 2 /\ cached > 0 =>
            /\ src.start <= base /\ base - src.start + cached <= Len(preAlpha)
            /\ party = 0 => base - src.start + cached <= Len(preGamma)
            /\ Cached(src.start, src.gen, c)
  PROVE  \A x \in Delivered(base, n, cached) : x[2] = <<src.gen, x[1]>>
<1>0. /\ src.total \in Nat /\ src.start \in Nat /\ src.gen \in Nat
      /\ Len(preAlpha) \in Nat /\ Len(preGamma) \in Nat
  <2>1. src \in Source /\ preAlpha \in Seq(Cell) /\ preGamma \in Seq(Cell)
    BY DEF TypeOK
  <2>. QED  BY <2>1
<1>1. CASE party = 2
  <2>1. Holds(alpha2, src.total, 0, src.gen, c) /\ 0 <= base /\ base - 0 + n <= src.total
    BY <1>0, <1>1
  <2>2. \A x \in ReadRange(alpha2, 0, base, n) : x[2] = <<src.gen, x[1]>>
    <3>1. PICK t \in Nat : t = src.total
      BY <1>0
    <3>2. Holds(alpha2, t, 0, src.gen, c) /\ base + n <= t
      BY <2>1, <3>1
    <3>3. ASSUME NEW i \in 0 .. n - 1
          PROVE  alpha2[base - 0 + i + 1] = <<src.gen, base + i>>
      <4>1. /\ base - 0 + i + 1 \in 1..t /\ c <= 0 + (base - 0 + i + 1) - 1
            /\ 0 + (base - 0 + i + 1) - 1 = base + i
        BY <3>2
      <4>2. alpha2[base - 0 + i + 1] = <<src.gen, 0 + (base - 0 + i + 1) - 1>>
        BY <3>2, <4>1 DEF Holds
      <4>. QED  BY <4>1, <4>2
    <3>4. SUFFICES ASSUME NEW x \in ReadRange(alpha2, 0, base, n) PROVE x[2] = <<src.gen, x[1]>>
      OBVIOUS
    <3>5. PICK i \in 0 .. n - 1 : x = <<base + i, alpha2[base - 0 + i + 1]>>
      BY DEF ReadRange
    <3>6. x[1] = base + i /\ x[2] = alpha2[base - 0 + i + 1]
      BY <3>5
    <3>. QED  BY <3>3, <3>6
  <2>. QED  BY <1>1, <2>2 DEF Delivered
<1>2. CASE party # 2
  <2>1. \A x \in ReadRange(preAlpha, src.start, base, cached) : x[2] = <<src.gen, x[1]>>
    <3>1. CASE cached = 0
      BY <3>1, ReadNone
    <3>2. CASE cached > 0
      <4>1. /\ Holds(preAlpha, Len(preAlpha), src.start, src.gen, c)
            /\ src.start <= base /\ base - src.start + cached <= Len(preAlpha)
        BY <1>2, <3>2 DEF Cached
      <4>2. PICK t \in Nat, a \in Nat : t = Len(preAlpha) /\ a = src.start
        BY <1>0
      <4>3. Holds(preAlpha, t, a, src.gen, c) /\ a <= base /\ base - a + cached <= t
        BY <4>1, <4>2
      <4>4. \A x \in ReadRange(preAlpha, a, base, cached) : x[2] = <<src.gen, x[1]>>
        BY <4>3, ReadHolds
      <4>. QED  BY <4>2, <4>4
    <3>. QED  BY <3>1, <3>2
  <2>2. party = 0 =>
          \A x \in ReadRange(preGamma, src.start, base, cached) : x[2] = <<src.gen, x[1]>>
    <3>1. CASE cached = 0
      BY <3>1, ReadNone
    <3>2. CASE cached > 0 /\ party = 0
      <4>1. /\ Holds(preGamma, Len(preGamma), src.start, src.gen, c)
            /\ src.start <= base /\ base - src.start + cached <= Len(preGamma)
        BY <1>2, <3>2 DEF Cached
      <4>2. PICK t \in Nat, a \in Nat : t = Len(preGamma) /\ a = src.start
        BY <1>0
      <4>3. Holds(preGamma, t, a, src.gen, c) /\ a <= base /\ base - a + cached <= t
        BY <4>1, <4>2
      <4>4. \A x \in ReadRange(preGamma, a, base, cached) : x[2] = <<src.gen, x[1]>>
        BY <4>3, ReadHolds
      <4>. QED  BY <4>2, <4>4
    <3>. QED  BY <3>1, <3>2
  <2>3. \A x \in Regenerated(base + cached, n - cached) : x[2] = <<src.gen, x[1]>>
    BY DEF Regenerated
  <2>. QED  BY <1>2, <2>1, <2>2, <2>3 DEF Delivered
<1>. QED  BY <1>1, <1>2

\* Steps that only move the worker on.
LEMMA StageIntact ==
  ASSUME IInv, Intact,
         UNCHANGED <<party, src, req, meta, alpha2, preAlpha, preGamma, preMeta, gens, out, scarred>>,
         saveOf' = "first" => saveOf = "first" /\ pc' = pc,
         \/ pc' = pc
         \/ {pc, pc'} \subseteq {"loaded", "save", "ready", "prove"} /\ src.path
         \/ pc = "down" /\ pc' = "fresh"
  PROVE  Intact'
<1>1. /\ FreshInv /\ CursorInv /\ SidecarInv /\ RequestInv /\ FilesInv /\ DiskInv /\ HandoutIntact
      /\ TypeOK
  BY DEF Intact, IInv
<1>2. HandoutIntact'
  BY <1>1 DEF HandoutIntact
<1>3. CASE pc' = pc
  <2>1. FreshInv' /\ CursorInv' /\ SidecarInv' /\ RequestInv'
    BY <1>1, <1>3 DEF FreshInv, CursorInv, Durable, SidecarInv, RequestInv
  <2>2. FilesInv'
    BY <1>1, <1>3 DEF FilesInv, Front, Punched, Cached
  <2>3. DiskInv'
    BY <1>1, <1>3 DEF DiskInv, AtRisk, DiskIntact, PrecacheMatches, Cached
  <2>. QED  BY <1>2, <2>1, <2>2, <2>3 DEF Intact
<1>4. CASE {pc, pc'} \subseteq {"loaded", "save", "ready", "prove"} /\ src.path /\ pc' # pc
  <2>0. /\ pc \in {"loaded", "save", "ready", "prove"} /\ pc' \in {"loaded", "save", "ready", "prove"}
        /\ pc \in HasSrc \ PreStages /\ pc' \in HasSrc \ PreStages /\ src.path
        /\ saveOf' # "first"
    BY <1>4 DEF HasSrc, PreStages
  <2>1. FreshInv' /\ CursorInv' /\ RequestInv'
    BY <1>1, <2>0 DEF FreshInv, CursorInv, Durable, RequestInv
  <2>2. SidecarInv'
    BY <1>1, <2>0 DEF SidecarInv
  <2>3. FilesInv'
    BY <1>1, <2>0 DEF FilesInv, Front, Cached
  <2>4. DiskInv'
    BY <2>0 DEF DiskInv
  <2>. QED  BY <1>2, <2>1, <2>2, <2>3, <2>4 DEF Intact
<1>5. CASE pc = "down" /\ pc' = "fresh"
  <2>0. pc \notin HasSrc /\ pc' \notin HasSrc
    BY <1>5 DEF HasSrc
  <2>1. FreshInv' /\ CursorInv' /\ RequestInv'
    BY <1>1, <1>5, <2>0 DEF FreshInv, CursorInv, RequestInv
  <2>2. SidecarInv' /\ FilesInv'
    BY <1>5, <2>0 DEF SidecarInv, FilesInv
  <2>3. DiskInv'
    <3>1. ~AtRisk
      BY <1>5 DEF AtRisk
    <3>. QED  BY <1>1, <1>5, <2>0, <3>1 DEF DiskInv, DiskIntact, PrecacheMatches, Cached
  <2>. QED  BY <1>2, <2>1, <2>2, <2>3 DEF Intact
<1>. QED  BY <1>3, <1>4, <1>5

\* The steps of that kind.
LEMMA IdleIntact ==
  ASSUME IInv, Intact,
         \/ AwaitUser \/ LoadFails \/ SaveAgain \/ SaveEnd \/ PrecacheSkip \/ UNCHANGED vars
         \/ \E n \in Budgets : NoExtend(n) \/ ExtendOthers(n)
         \/ \E f \in {"self", "others"} : SaveError(f)
         \/ \E r \in Requests : PrecacheHit(r)
  PROVE  Intact'
<1>0. TypeOK /\ HeaderInv
  BY DEF IInv
<1>1. UNCHANGED <<party, src, req, meta, alpha2, preAlpha, preGamma, preMeta, gens, out, scarred>>
  BY DEF AwaitUser, LoadFails, SaveAgain, SaveEnd, PrecacheSkip, NoExtend, ExtendOthers, SaveError,
     PrecacheHit, vars, disk, history
<1>2. CASE AwaitUser \/ UNCHANGED vars \/ LoadFails
  <2>1. saveOf' = saveOf /\ (pc' = pc \/ (pc = "down" /\ pc' = "fresh"))
    BY <1>2 DEF AwaitUser, LoadFails, vars
  <2>2. saveOf = "first" => pc = "save"
    BY DEF Intact, FreshInv
  <2>. QED  BY <1>1, <2>1, <2>2, StageIntact
<1>3. CASE SaveAgain \/ \E f \in {"self", "others"} : SaveError(f)
  <2>1. pc' = pc /\ (saveOf' = "first" => saveOf = "first")
    BY <1>3 DEF SaveAgain, SaveError
  <2>. QED  BY <1>1, <2>1, StageIntact
<1>4. CASE \/ PrecacheSkip \/ \E n \in Budgets : NoExtend(n) \/ ExtendOthers(n)
           \/ \E r \in Requests : PrecacheHit(r)
  <2>1. /\ pc \in {"loaded", "ready"} /\ pc' \in {"loaded", "save", "ready", "prove"}
        /\ saveOf' = saveOf \/ saveOf' = "extend"
    BY <1>4 DEF PrecacheSkip, NoExtend, ExtendOthers, PrecacheHit
  <2>2. src.path
    BY <1>0, <2>1 DEF HeaderInv, HasSrc
  <2>3. saveOf' # "first"
    BY <2>1 DEF Intact, FreshInv
  <2>. QED  BY <1>1, <2>1, <2>2, <2>3, StageIntact
<1>5. CASE SaveEnd
  <2>1. pc = "save" /\ pc' = "ready" /\ saveOf' = "none" /\ saveOf # "first"
    BY <1>5 DEF SaveEnd
  <2>2. src.path
    BY <1>0, <2>1 DEF HeaderInv, HasSrc
  <2>. QED  BY <1>1, <2>1, <2>2, StageIntact
<1>. QED  BY <1>2, <1>3, <1>4, <1>5

\* preprocess_pool: a generation begins; P2's file is truncated.
LEMMA FreshCreateIntact ==
  ASSUME IInv, Intact, NEW n \in Budgets, FreshCreate(n)
  PROVE  Intact'
<1>1. /\ FreshInv /\ DiskInv /\ TypeOK /\ HeaderInv
      /\ pc = "fresh" /\ pc' = "recvFresh" /\ gens' = gens + 1 /\ out' = NoOut /\ scarred' = scarred
      /\ UNCHANGED <<party, src, saveOf, meta, preAlpha, preGamma, preMeta>>
  BY DEF Intact, IInv, FreshCreate
<1>2. gens \in Nat /\ meta.gen \in Nat /\ preMeta.gen \in Nat /\ saveOf # "first"
  BY <1>1 DEF TypeOK, FreshInv
<1>3. pc \notin HasSrc /\ pc' \notin HasSrc
  BY <1>1 DEF HasSrc
<1>4. FreshInv'
  <2>1. (meta.ok => meta.gen < gens') /\ (preMeta.ok => preMeta.gen < gens' /\ party # 2)
    BY <1>1, <1>2 DEF FreshInv, HeaderInv
  <2>. QED  BY <1>1, <1>2, <2>1 DEF FreshInv, NoOut
<1>5. CursorInv' /\ SidecarInv' /\ RequestInv' /\ FilesInv'
  BY <1>1, <1>3 DEF CursorInv, SidecarInv, RequestInv, FilesInv
<1>6. DiskInv'
  <2>1. SUFFICES ASSUME ~scarred, ~AtRisk', meta.ok PROVE DiskIntact'
    BY <1>1 DEF DiskInv, DiskIntact
  <2>2. party # 2
    BY <1>1, <2>1 DEF AtRisk
  <2>3. ~AtRisk
    BY <1>1 DEF AtRisk
  <2>. QED  BY <1>1, <1>3, <2>1, <2>2, <2>3 DEF DiskInv, DiskIntact, PrecacheMatches, Cached
<1>7. HandoutIntact'
  BY <1>1 DEF HandoutIntact, NoOut
<1>. QED  BY <1>4, <1>5, <1>6, <1>7 DEF Intact

\* preprocess_pool: the new stream is in memory, P2's file holds all of it.
LEMMA FreshReceiveIntact ==
  ASSUME IInv, Intact, FreshReceive
  PROVE  Intact'
<1>1. /\ FreshInv /\ DiskInv /\ TypeOK /\ HandoutIntact /\ StageInv
      /\ pc = "recvFresh" /\ pc' = "save" /\ saveOf' = "first"
      /\ alpha2' = IF party = 2 THEN WriteAt(alpha2, 0, Items(gens, 0, req.len)) ELSE alpha2
      /\ src' = [NoSrc EXCEPT !.gen = gens, !.total = req.len,
                              !.mode = IF party = 2 THEN "p2" ELSE "none"]
      /\ UNCHANGED <<party, meta, preAlpha, preGamma, preMeta, gens, out, scarred>>
  BY DEF Intact, IInv, FreshReceive, history
<1>2. /\ src'.gen = gens /\ src'.total = req.len /\ src'.mode # "precache" /\ src'.path = FALSE
      /\ src'.cursor = 0
  BY <1>1 DEF NoSrc
<1>3. gens \in Nat /\ meta.gen \in Nat /\ preMeta.gen \in Nat /\ req.len \in Nat
      /\ alpha2 \in Seq(Cell)
  BY <1>1 DEF TypeOK
<1>4. pc \notin HasSrc /\ pc' \in HasSrc \ PreStages
  BY <1>1 DEF HasSrc, PreStages
<1>5. FreshInv'
  BY <1>1, <1>2 DEF FreshInv
<1>6. CursorInv' /\ RequestInv'
  BY <1>1, <1>2 DEF CursorInv, RequestInv
<1>7. SidecarInv'
  <2>1. preMeta.ok => preMeta.gen # gens
    BY <1>1, <1>3 DEF FreshInv
  <2>. QED  BY <1>1, <1>2, <1>4, <2>1 DEF SidecarInv
<1>8. FilesInv'
  <2>1. party = 2 => Len(alpha2') = req.len /\ Holds(alpha2', req.len, 0, gens, Front')
    <3>1. SUFFICES ASSUME party = 2
                   PROVE  Len(alpha2') = req.len /\ Holds(alpha2', req.len, 0, gens, Front')
      OBVIOUS
    <3>2. Len(alpha2) = req.len
      BY <1>1, <3>1 DEF StageInv
    <3>3. Items(gens, 0, req.len) \in Seq(Cell)
      BY <1>3, ItemsType
    <3>. QED  BY <1>1, <1>3, <3>1, <3>2, <3>3, WrittenHolds, WriteAtType
  <2>. QED  BY <1>1, <1>2, <1>3, <2>1 DEF FilesInv
<1>9. DiskInv'
  <2>1. SUFFICES ASSUME ~scarred, ~AtRisk', meta.ok PROVE DiskIntact'
    BY <1>1 DEF DiskInv, DiskIntact
  <2>2. meta.gen # gens
    BY <1>1, <1>3, <2>1 DEF FreshInv
  <2>3. party # 2
    BY <1>1, <1>2, <2>1, <2>2 DEF AtRisk
  <2>4. ~AtRisk
    BY <1>1, <2>3 DEF AtRisk
  <2>. QED  BY <1>1, <1>4, <2>1, <2>3, <2>4 DEF DiskInv, DiskIntact, PrecacheMatches, Cached
<1>10. HandoutIntact'
  BY <1>1 DEF HandoutIntact
<1>. QED  BY <1>5, <1>6, <1>7, <1>8, <1>9, <1>10 DEF Intact

\* load: what the header and the sidecar promise is in the files.
LEMMA LoadIntact ==
  ASSUME IInv, Intact, Load
  PROVE  Intact'
<1>1. /\ FreshInv /\ DiskInv /\ HandoutIntact /\ TypeOK
      /\ pc = "down" /\ pc' = "loaded" /\ meta.ok
      /\ UNCHANGED <<party, req, saveOf, meta, alpha2, gens, out, scarred>>
  BY DEF Intact, IInv, Load, LoadSucceeds, history
<1>2. saveOf # "first" /\ (preMeta.ok => party # 2 /\ preMeta.gen <= gens)
  BY <1>1 DEF FreshInv
<1>3. /\ src'.gen = meta.gen /\ src'.total = meta.total /\ src'.cursor = meta.cursor
      /\ src'.path = TRUE
  BY DEF Load
<1>4. ~scarred => DiskIntact
  <2>1. ~AtRisk /\ pc \notin HasSrc
    BY <1>1 DEF AtRisk, HasSrc
  <2>. QED  BY <1>1, <2>1 DEF DiskInv
<1>5. pc' \in HasSrc \ PreStages
  BY <1>1 DEF HasSrc, PreStages
<1>6. CursorInv' /\ RequestInv'
  BY <1>1, <1>3 DEF CursorInv, Durable, RequestInv
<1>7. DiskInv' /\ HandoutIntact'
  BY <1>1, <1>3, <1>5 DEF DiskInv, HandoutIntact
<1>8. CASE PrecacheMatches
  <2>1. /\ src'.mode = "precache" /\ src'.start = preMeta.start /\ src'.len = preMeta.len
        /\ UNCHANGED <<preAlpha, preGamma, preMeta>>
    BY <1>8 DEF Load, PrecacheMatches
  <2>2. /\ party # 2 /\ preMeta.ok /\ preMeta.gen = meta.gen /\ preMeta.total = meta.total
        /\ preMeta.start = meta.cursor
    BY <1>8 DEF PrecacheMatches
  <2>3. FreshInv'
    BY <1>1, <1>2, <1>3, <2>1 DEF FreshInv
  <2>4. SidecarInv'
    <3>1. preMeta \in Sidecar
      BY <1>1 DEF TypeOK
    <3>2. preMeta = [ok |-> TRUE, gen |-> meta.gen, total |-> meta.total,
                     start |-> preMeta.start, len |-> preMeta.len]
      BY <2>2, <3>1
    <3>. QED  BY <1>1, <1>3, <1>5, <2>1, <3>2 DEF SidecarInv
  <2>5. FilesInv'
    <3>1. ~scarred => Cached(meta.cursor, meta.gen, meta.cursor)
      BY <1>1, <1>4, <1>8 DEF DiskIntact
    <3>. QED  BY <1>1, <1>2, <1>3, <2>1, <2>2, <3>1 DEF FilesInv, Front, Cached
  <2>. QED  BY <1>6, <1>7, <2>3, <2>4, <2>5 DEF Intact
<1>9. CASE ~PrecacheMatches
  <2>1. src'.mode # "precache"
    BY <1>9 DEF Load
  <2>2. ~preMeta'.ok
    <3>1. CASE party = 2
      BY <1>1, <1>2, <3>1 DEF Load
    <3>2. CASE party # 2
      BY <1>9, <3>2 DEF Load, ClearPrecacheFiles, NoPreMeta
    <3>. QED  BY <3>1, <3>2
  <2>3. FreshInv'
    BY <1>1, <1>2, <1>3, <2>2 DEF FreshInv
  <2>4. SidecarInv'
    BY <1>1, <1>5, <2>1, <2>2 DEF SidecarInv
  <2>5. FilesInv'
    <3>1. src'.total \in Nat
      BY <1>1, <1>3 DEF TypeOK
    <3>. QED  BY <1>1, <1>2, <1>3, <1>4, <2>1, <3>1 DEF FilesInv, Front, DiskIntact
  <2>. QED  BY <1>6, <1>7, <2>3, <2>4, <2>5 DEF Intact
<1>. QED  BY <1>8, <1>9

\* extend_pool_batched: P2's file grows at its end, which is the total.
LEMMA ExtendBeginIntact ==
  ASSUME IInv, Intact, NEW n \in Budgets, ExtendBegin(n)
  PROVE  Intact'
<1>1. /\ FreshInv /\ CursorInv /\ SidecarInv /\ FilesInv /\ HandoutIntact
      /\ TypeOK /\ ReadsInRange /\ HeaderInv
      /\ pc = "loaded" /\ pc' = "recvExt" /\ remaining < n
      /\ req' = [base |-> Len(alpha2), len |-> n - remaining, cached |-> 0]
      /\ alpha2' = IF party = 2 THEN Grown(alpha2, n - remaining) ELSE alpha2
      /\ UNCHANGED <<party, src, saveOf, meta, preAlpha, preGamma, preMeta, gens, out, scarred>>
  BY DEF Intact, IInv, ExtendBegin, history
<1>2. pc \in HasSrc \ PreStages /\ pc' \in HasSrc \ PreStages /\ src.path /\ saveOf # "first"
  BY <1>1 DEF HasSrc, PreStages, HeaderInv, FreshInv
<1>3. FreshInv' /\ CursorInv' /\ RequestInv'
  BY <1>1, <1>2 DEF FreshInv, CursorInv, Durable, RequestInv
<1>4. SidecarInv'
  BY <1>1, <1>2 DEF SidecarInv
<1>5. FilesInv'
  <2>1. SUFFICES ASSUME ~scarred
                 PROVE  /\ party = 2 => /\ Len(alpha2') = src.total + req'.len
                                        /\ req'.base = src.total
                                        /\ Holds(alpha2', src.total, 0, src.gen, src.cursor)
                        /\ party # 2 /\ src.mode = "precache" =>
                             Cached(src.start, src.gen, src.cursor)'
    BY <1>1, <1>2 DEF FilesInv, Front, Cached
  <2>2. party = 2 => Len(alpha2) = src.total /\ Holds(alpha2, src.total, 0, src.gen, src.cursor)
    <3>1. src.total \in Nat
      BY <1>1 DEF TypeOK
    <3>. QED  BY <1>1, <1>2, <2>1, <3>1 DEF FilesInv, Front
  <2>3. party # 2 /\ src.mode = "precache" => Cached(src.start, src.gen, src.cursor)
    BY <1>1, <1>2, <2>1 DEF FilesInv, Front
  <2>4. alpha2 \in Seq(Cell) /\ n - remaining \in Nat
    <3>1. n \in Nat /\ src.total \in Nat /\ src.cursor \in Nat
      BY <1>1, BudgetsAssumption DEF TypeOK
    <3>2. remaining < n /\ alpha2 \in Seq(Cell)
      BY <1>1 DEF TypeOK
    <3>. QED  BY <3>1, <3>2 DEF remaining
  <2>5. party = 2 => /\ Len(alpha2') = Len(alpha2) + (n - remaining)
                     /\ Holds(alpha2', Len(alpha2), 0, src.gen, src.cursor)
    BY <1>1, <2>2, <2>4, GrownHolds, GrownType
  <2>6. req'.base = Len(alpha2) /\ req'.len = n - remaining
    BY <1>1
  <2>. QED  BY <1>1, <2>2, <2>3, <2>5, <2>6 DEF Cached
<1>6. DiskInv' /\ HandoutIntact'
  BY <1>1, <1>2 DEF DiskInv, HandoutIntact
<1>. QED  BY <1>3, <1>4, <1>5, <1>6 DEF Intact

\* apply_extension: the grown part of the file is written.
LEMMA ExtendApplyIntact ==
  ASSUME IInv, Intact, ExtendApply
  PROVE  Intact'
<1>1. /\ FreshInv /\ CursorInv /\ SidecarInv /\ FilesInv /\ HandoutIntact
      /\ TypeOK /\ HeaderInv /\ StageInv
      /\ pc = "recvExt" /\ pc' = "save" /\ saveOf' = "extend"
      /\ UNCHANGED <<party, meta, gens, out, scarred>>
  BY DEF Intact, IInv, ExtendApply, history
<1>2. pc \in HasSrc \ PreStages /\ pc' \in HasSrc \ PreStages /\ src.path /\ saveOf # "first"
  BY <1>1 DEF HasSrc, PreStages, HeaderInv, FreshInv
<1>3. src \in Source /\ req.len \in Nat /\ src.gen \in Nat /\ src.total \in Nat /\ alpha2 \in Seq(Cell)
  BY <1>1 DEF TypeOK
<1>4. /\ src'.gen = src.gen /\ src'.cursor = src.cursor /\ src'.path = src.path
      /\ src'.total = src.total + req.len /\ src'.mode # "precache"
  <2>1. CASE party = 2
    <3>1. src' = [src EXCEPT !.total = src.total + req.len]
      BY <1>3, <2>1 DEF ExtendApply
    <3>2. src.mode # "precache"
      BY <1>1, <1>2, <2>1 DEF StageInv
    <3>. QED  BY <1>3, <3>1, <3>2
  <2>2. CASE party # 2
    <3>1. src' = [src EXCEPT !.total = src.total + req.len, !.mode = "none",
                             !.start = 0, !.len = 0]
      BY <1>3, <2>2 DEF ExtendApply
    <3>. QED  BY <1>3, <3>1
  <2>. QED  BY <2>1, <2>2
<1>5. ~preMeta'.ok
  <2>1. CASE party = 2
    BY <1>1, <2>1 DEF ExtendApply, FreshInv
  <2>2. CASE party # 2
    BY <2>2 DEF ExtendApply, ClearPrecacheFiles, NoPreMeta
  <2>. QED  BY <2>1, <2>2
<1>6. FreshInv' /\ CursorInv' /\ RequestInv' /\ SidecarInv'
  BY <1>1, <1>2, <1>4, <1>5 DEF FreshInv, CursorInv, Durable, RequestInv, SidecarInv
<1>7. FilesInv'
  <2>1. SUFFICES ASSUME ~scarred, party = 2
                 PROVE  Len(alpha2') = src'.total /\ Holds(alpha2', src'.total, 0, src.gen, src.cursor)
    <3>1. src'.total \in Nat
      BY <1>3, <1>4
    <3>. QED  BY <1>1, <1>2, <1>4, <3>1 DEF FilesInv, Front
  <2>2. /\ Len(alpha2) = src.total + req.len /\ req.base = src.total
        /\ Holds(alpha2, src.total, 0, src.gen, src.cursor)
    BY <1>1, <1>2, <2>1 DEF FilesInv, Front
  <2>3. PICK t \in Nat, m \in Nat : t = src.total /\ m = req.len
    BY <1>3
  <2>4. alpha2' = WriteAt(alpha2, t, Items(src.gen, t, m))
    BY <2>1, <2>2, <2>3 DEF ExtendApply
  <2>5. Holds(alpha2', t + m, 0, src.gen, src.cursor)
    BY <1>3, <2>2, <2>3, <2>4, ExtendedHolds
  <2>6. Len(alpha2') = t + m
    <3>1. Items(src.gen, t, m) \in Seq(Cell)
      BY <1>3, ItemsType
    <3>. QED  BY <1>3, <2>2, <2>3, <2>4, <3>1, WriteAtType
  <2>. QED  BY <1>4, <2>3, <2>5, <2>6
<1>8. DiskInv' /\ HandoutIntact'
  BY <1>1, <1>2, <1>4 DEF DiskInv, HandoutIntact
<1>. QED  BY <1>6, <1>7, <1>8 DEF Intact

\* pool.save: a truncated header promises nothing.
LEMMA SaveTruncateIntact ==
  ASSUME IInv, Intact, NEW f \in {"self", "others"}, SaveTruncate(f)
  PROVE  Intact'
<1>1. /\ FreshInv /\ CursorInv /\ SidecarInv /\ RequestInv /\ FilesInv /\ DiskInv /\ HandoutIntact
      /\ pc = "save"
      /\ UNCHANGED <<party, pc, src, req, saveOf, alpha2, preAlpha, preGamma, preMeta, gens, out,
                     scarred>>
  BY DEF Intact, SaveTruncate, history
<1>2. CASE f # "self"
  <2>1. meta' = meta
    BY <1>2 DEF SaveTruncate
  <2>. QED  BY <1>1, <2>1, StageIntact
<1>3. CASE f = "self"
  <2>1. meta'.ok = FALSE
    BY <1>3 DEF SaveTruncate, NoMeta
  <2>2. FreshInv' /\ CursorInv'
    BY <1>1, <2>1 DEF FreshInv, CursorInv
  <2>3. SidecarInv' /\ RequestInv'
    BY <1>1 DEF SidecarInv, RequestInv
  <2>4. FilesInv'
    BY <1>1 DEF FilesInv, Front, Cached
  <2>5. DiskInv' /\ HandoutIntact'
    BY <1>1, <2>1 DEF DiskInv, DiskIntact, HandoutIntact
  <2>. QED  BY <2>2, <2>3, <2>4, <2>5 DEF Intact
<1>. QED  BY <1>2, <1>3

\* pool.save: the first header of a generation describes files that hold it.
LEMMA SaveWriteIntact ==
  ASSUME IInv, Intact, NEW f \in {"self", "others"}, SaveWrite(f)
  PROVE  Intact'
<1>1. /\ FreshInv /\ CursorInv /\ SidecarInv /\ RequestInv /\ FilesInv /\ DiskInv /\ HandoutIntact
      /\ TypeOK /\ pc = "save"
      /\ UNCHANGED <<party, pc, req, saveOf, alpha2, preAlpha, preGamma, preMeta, gens, out>>
  BY DEF Intact, IInv, SaveWrite
<1>2. CASE f # "self"
  <2>1. UNCHANGED <<meta, src, scarred>>
    BY <1>2 DEF SaveWrite
  <2>. QED  BY <1>1, <2>1, StageIntact
<1>3. CASE f = "self"
  <2>1. /\ meta'.cursor = src.cursor
        /\ scarred' = (scarred /\ saveOf # "first")
    BY <1>3 DEF SaveWrite
  <2>2. /\ src'.gen = src.gen /\ src'.total = src.total /\ src'.cursor = src.cursor
        /\ src'.mode = src.mode /\ src'.start = src.start /\ src'.len = src.len
        /\ src'.path = TRUE
    <3>1. src \in Source /\ src' = [src EXCEPT !.path = TRUE]
      BY <1>1, <1>3 DEF SaveWrite, TypeOK
    <3>. QED  BY <3>1
  <2>3. FreshInv' /\ CursorInv'
    BY <1>1, <2>1, <2>2 DEF FreshInv, CursorInv, Durable
  <2>4. SidecarInv' /\ RequestInv'
    BY <1>1, <2>2 DEF SidecarInv, RequestInv
  <2>5. FilesInv'
    BY <1>1, <2>1, <2>2 DEF FilesInv, Front, Cached
  <2>6. DiskInv'
    BY <1>1, <2>2 DEF DiskInv, HasSrc
  <2>7. HandoutIntact'
    BY <1>1, <2>1 DEF HandoutIntact, FreshInv
  <2>. QED  BY <2>3, <2>4, <2>5, <2>6, <2>7 DEF Intact
<1>. QED  BY <1>2, <1>3

\* prepare_precache without a window: P0 and P1 remove the sidecar.
LEMMA PrecacheClearIntact ==
  ASSUME IInv, Intact, NEW r \in Requests, PrecacheClear(r)
  PROVE  Intact'
<1>1. /\ FreshInv /\ CursorInv /\ HandoutIntact /\ TypeOK /\ HeaderInv
      /\ pc = "ready" /\ pc' = "prove"
      /\ UNCHANGED <<party, req, saveOf, meta, alpha2, gens, out, scarred>>
  BY DEF Intact, IInv, PrecacheClear, history
<1>2. pc \in HasSrc \ PreStages /\ pc' \in HasSrc \ PreStages /\ src.path /\ saveOf # "first"
  BY <1>1 DEF HasSrc, PreStages, HeaderInv, FreshInv
<1>3. CASE party = 2
  <2>1. UNCHANGED <<src, preAlpha, preGamma, preMeta>>
    BY <1>3 DEF PrecacheClear
  <2>. QED  BY <1>1, <1>2, <2>1, StageIntact
<1>4. CASE party # 2
  <2>1. /\ src'.gen = src.gen /\ src'.cursor = src.cursor /\ src'.path = src.path
        /\ src'.mode = "none"
    <3>1. src \in Source /\ src' = [src EXCEPT !.mode = "none", !.start = 0, !.len = 0]
      BY <1>1, <1>4 DEF TypeOK, PrecacheClear
    <3>. QED  BY <3>1
  <2>2. ~preMeta'.ok
    BY <1>4 DEF PrecacheClear, ClearPrecacheFiles, NoPreMeta
  <2>3. FreshInv' /\ CursorInv' /\ SidecarInv' /\ RequestInv'
    BY <1>1, <1>2, <2>1, <2>2 DEF FreshInv, CursorInv, Durable, SidecarInv, RequestInv
  <2>4. FilesInv' /\ DiskInv' /\ HandoutIntact'
    BY <1>1, <1>2, <1>4, <2>1 DEF FilesInv, DiskInv, HandoutIntact
  <2>. QED  BY <2>3, <2>4 DEF Intact
<1>. QED  BY <1>3, <1>4

\* While a window is prepared, no other part of the invariant is at stake.
LEMMA PreparingIntact ==
  ASSUME IInv, Intact, pc \in PreStages \cup {"ready"}, pc' \in PreStages, party # 2,
         UNCHANGED <<party, src, saveOf, meta, alpha2, gens, out, scarred>>,
         preMeta'.ok => preMeta' = preMeta,
         SidecarInv'
  PROVE  Intact'
<1>1. /\ FreshInv /\ CursorInv /\ HandoutIntact /\ HeaderInv
  BY DEF Intact, IInv
<1>2. pc \in HasSrc /\ pc' \in HasSrc /\ pc # "save" /\ pc' # "save" /\ pc' # "recvFresh"
      /\ pc \notin {"gamma", "persist"} /\ pc' \notin {"gamma", "persist", "reserved", "filled"}
  BY DEF HasSrc, PreStages
<1>3. src.path /\ saveOf # "first"
  BY <1>1, <1>2 DEF HeaderInv, FreshInv
<1>4. FreshInv' /\ CursorInv' /\ RequestInv'
  BY <1>1, <1>2, <1>3 DEF FreshInv, CursorInv, Durable, RequestInv
<1>5. FilesInv' /\ DiskInv' /\ HandoutIntact'
  BY <1>1, <1>2, <1>3 DEF FilesInv, DiskInv, HandoutIntact
<1>. QED  BY <1>4, <1>5 DEF Intact

\* prepare_precache up to the new sidecar: the files are created and written.
LEMMA PrecacheFillIntact ==
  ASSUME IInv, Intact,
         \/ \E r \in Requests : PrecacheCreate(r)
         \/ PrecacheAlpha \/ PrecacheGamma \/ PrecacheTruncate
  PROVE  Intact'
<1>1. /\ SidecarInv /\ TypeOK /\ StageInv
      /\ pc \in PreStages \cup {"ready"} /\ pc' \in PreStages
      /\ UNCHANGED <<party, src, saveOf, meta, alpha2, gens, out, scarred>>
      /\ preMeta'.ok => preMeta' = preMeta
  BY DEF Intact, IInv, PrecacheCreate, PrecacheAlpha, PrecacheGamma, PrecacheTruncate, PreStages,
     NoPreMeta, history
<1>2. party # 2
  BY <1>1 DEF PrecacheCreate, PrecacheAlpha, PrecacheGamma, PrecacheTruncate, StageInv, PreStages
<1>3. src.gen \in Nat /\ req.base \in Nat /\ req.len \in Nat
      /\ preAlpha \in Seq(Cell) /\ preGamma \in Seq(Cell)
  BY <1>1 DEF TypeOK
<1>4. Items(src.gen, req.base, req.len) \in Seq(Cell)
  BY <1>3, ItemsType
<1>5. PICK b \in Nat, n \in Nat : b = req.base /\ n = req.len
  BY <1>3
<1>6. SidecarInv'
  <2>1. CASE \E r \in Requests : PrecacheCreate(r)
    BY <2>1 DEF PrecacheCreate, SidecarInv, HasSrc, PreStages
  <2>2. CASE PrecacheAlpha
    <3>1. /\ pc' = IF party = 0 THEN "preGamma" ELSE "preTruncate"
          /\ Len(preAlpha) = n /\ UNCHANGED <<req, preGamma>>
          /\ preAlpha' = WriteAt(preAlpha, 0, Items(src.gen, b, n))
      BY <1>1, <1>5, <2>2 DEF PrecacheAlpha, StageInv, PreStages
    <3>2. Len(preAlpha') = n
      BY <1>3, <1>4, <1>5, <3>1, WriteAtType
    <3>3. Holds(preAlpha', n, b, src.gen, b)
      BY <1>3, <3>1, WrittenHolds
    <3>. QED  BY <1>1, <1>5, <3>1, <3>2, <3>3 DEF SidecarInv, HasSrc, PreStages
  <2>3. CASE PrecacheGamma
    <3>1. /\ pc = "preGamma" /\ pc' = "preTruncate" /\ UNCHANGED <<req, preAlpha>>
          /\ preGamma' = WriteAt(preGamma, 0, Items(src.gen, b, n))
          /\ party = 0 => Len(preGamma) = n
      BY <1>1, <1>5, <2>3 DEF PrecacheGamma, StageInv, PreStages
    <3>2. party = 0 => Len(preGamma') = n /\ Holds(preGamma', n, b, src.gen, b)
      BY <1>3, <1>4, <1>5, <3>1, WriteAtType, WrittenHolds
    <3>3. Holds(preAlpha', Len(preAlpha'), b, src.gen, b)
      BY <1>1, <1>5, <3>1 DEF SidecarInv
    <3>. QED  BY <1>1, <1>5, <3>1, <3>2, <3>3 DEF SidecarInv, HasSrc, PreStages
  <2>4. CASE PrecacheTruncate
    <3>1. /\ pc = "preTruncate" /\ pc' = "preWrite" /\ UNCHANGED <<req, preAlpha, preGamma>>
          /\ ~preMeta'.ok
      BY <2>4 DEF PrecacheTruncate, NoPreMeta
    <3>. QED  BY <1>1, <3>1 DEF SidecarInv, HasSrc, PreStages
  <2>. QED  BY <2>1, <2>2, <2>3, <2>4
<1>. QED  BY <1>1, <1>2, <1>6, PreparingIntact

\* prepare_precache: the window that comes into force holds its items.
LEMMA PrecacheWriteIntact ==
  ASSUME IInv, Intact, PrecacheWrite
  PROVE  Intact'
<1>1. /\ FreshInv /\ CursorInv /\ SidecarInv /\ HandoutIntact
      /\ TypeOK /\ HeaderInv /\ StageInv
      /\ pc = "preWrite" /\ pc' = "prove"
      /\ UNCHANGED <<party, saveOf, meta, alpha2, preAlpha, preGamma, gens, out, scarred>>
  BY DEF Intact, IInv, PrecacheWrite, history
<1>2. pc \in HasSrc /\ pc' \in HasSrc \ PreStages /\ src.path /\ saveOf # "first" /\ src.gen <= gens
      /\ party # 2 /\ req.base = src.cursor
  BY <1>1 DEF HasSrc, PreStages, HeaderInv, FreshInv, StageInv
<1>3. /\ src' = [gen |-> src.gen, total |-> src.total, cursor |-> src.cursor,
                 mode |-> "precache", start |-> req.base, len |-> req.len, path |-> src.path]
      /\ preMeta' = [ok |-> TRUE, gen |-> src.gen, total |-> src.total,
                     start |-> req.base, len |-> req.len]
  BY <1>1 DEF TypeOK, PrecacheWrite
<1>4. FreshInv' /\ CursorInv' /\ RequestInv'
  BY <1>1, <1>2, <1>3 DEF FreshInv, CursorInv, Durable, RequestInv
<1>5. SidecarInv'
  BY <1>1, <1>2, <1>3 DEF SidecarInv
<1>6. FilesInv'
  BY <1>1, <1>2, <1>3 DEF FilesInv, Front, Cached, SidecarInv
<1>7. DiskInv' /\ HandoutIntact'
  BY <1>1, <1>2, <1>3 DEF DiskInv, HandoutIntact
<1>. QED  BY <1>4, <1>5, <1>6, <1>7 DEF Intact

\* The cached prefix of a range: at most the range, and only from a window.
LEMMA CachedLenBound ==
  ASSUME TypeOK, NEW b \in Nat, NEW n \in Nat
  PROVE  /\ CachedLen(b, n) \in Nat /\ CachedLen(b, n) <= n
         /\ CachedLen(b, n) > 0 => /\ src.mode = "precache" /\ src.start <= b
                                   /\ b + CachedLen(b, n) <= src.start + src.len
<1>1. src.start \in Nat /\ src.len \in Nat
  BY DEF TypeOK
<1>. QED  BY <1>1 DEF CachedLen, MinOf

\* reserve_range notes a range and moves nothing.
LEMMA ReserveIntact ==
  ASSUME IInv, Intact, NEW n \in 1..MaxItems, Reserve(n)
  PROVE  Intact'
<1>1. /\ FreshInv /\ CursorInv /\ SidecarInv /\ FilesInv /\ HandoutIntact
      /\ TypeOK /\ HeaderInv /\ StageInv
      /\ pc = "prove" /\ pc' = "reserved"
      /\ req' = [base |-> src.cursor, len |-> n, cached |-> CachedLen(src.cursor, n)]
      /\ UNCHANGED <<party, src, saveOf, meta, alpha2, preAlpha, preGamma, preMeta, gens, out,
                     scarred>>
  BY DEF Intact, IInv, Reserve, disk, history
<1>2. pc \in HasSrc \ PreStages /\ pc' \in HasSrc \ PreStages /\ src.path /\ saveOf # "first"
  BY <1>1 DEF HasSrc, PreStages, HeaderInv, FreshInv
<1>3. FreshInv' /\ CursorInv'
  BY <1>1, <1>2 DEF FreshInv, CursorInv, Durable
<1>4. SidecarInv'
  BY <1>1, <1>2 DEF SidecarInv
<1>5. RequestInv'
  <2>1. n \in Nat /\ src.cursor \in Nat
    BY <1>1, BoundsAssumption DEF TypeOK
  <2>2. CachedLen(src.cursor, n) <= n /\ (CachedLen(src.cursor, n) > 0 => src.mode = "precache")
    BY <1>1, <2>1, CachedLenBound
  <2>3. src.mode = "precache" => party # 2
    BY <1>1, <1>2 DEF StageInv
  <2>. QED  BY <1>1, <2>2, <2>3 DEF RequestInv
<1>6. FilesInv'
  BY <1>1, <1>2 DEF FilesInv, Front, Cached
<1>7. DiskInv' /\ HandoutIntact'
  BY <1>1, <1>2 DEF DiskInv, HandoutIntact
<1>. QED  BY <1>3, <1>4, <1>5, <1>6, <1>7 DEF Intact

\* Consuming the alpha side of a range from item b on leaves what comes after
\* the range, or everything if nothing of the range is stored.
LEMMA ConsumeAlphaIntact ==
  ASSUME TypeOK, NEW b \in Nat, NEW n \in Nat, NEW cached \in Nat, cached <= n,
         ConsumeAlpha(b, n, cached), UNCHANGED <<party, preGamma>>,
         party = 2 => /\ src.total <= Len(alpha2)
                      /\ Holds(alpha2, src.total, 0, src.gen, b),
         party # 2 /\ src.mode = "precache" => Cached(src.start, src.gen, b)
  PROVE  /\ party = 2 => Holds(alpha2', src.total, 0, src.gen, b + n)
         /\ party # 2 /\ src.mode = "precache" =>
              LET d == IF cached > 0 THEN b + n ELSE b
              IN  /\ Holds(preAlpha', Len(preAlpha'), src.start, src.gen, d)
                  /\ party = 0 => Holds(preGamma', Len(preGamma'), src.start, src.gen, d)
<1>1. src \in Source /\ alpha2 \in Seq(Cell) /\ preAlpha \in Seq(Cell) /\ preGamma \in Seq(Cell)
  BY DEF TypeOK
<1>2. PICK t \in Nat, a \in Nat : t = src.total /\ a = src.start
  BY <1>1
<1>3. CASE party = 2
  <2>1. alpha2' = Consumed(alpha2, b, b + n)
    BY <1>3 DEF ConsumeAlpha
  <2>2. t <= Len(alpha2) /\ Holds(alpha2, t, 0, src.gen, b)
    BY <1>2, <1>3
  <2>3. b <= b + n /\ 0 + (b + n) <= b + n /\ b \in Int /\ b + n \in Int /\ b + n \in Nat
    OBVIOUS
  <2>4. Holds(alpha2', t, 0, src.gen, b + n)
    BY <1>1, <2>1, <2>2, <2>3, ConsumedHolds
  <2>. QED  BY <1>2, <1>3, <2>4
<1>4. CASE party # 2 /\ src.mode = "precache" /\ cached = 0
  <2>1. preAlpha' = preAlpha
    BY <1>4 DEF ConsumeAlpha
  <2>. QED  BY <1>4, <2>1 DEF Cached
<1>5. CASE party # 2 /\ src.mode = "precache" /\ cached > 0
  <2>1. preAlpha' = Consumed(preAlpha, b - a, b - a + cached)
    BY <1>2, <1>5 DEF ConsumeAlpha
  <2>2. /\ Holds(preAlpha, Len(preAlpha), a, src.gen, b)
        /\ party = 0 => Holds(preGamma, Len(preGamma), a, src.gen, b)
    BY <1>2, <1>5 DEF Cached
  <2>3. Len(preAlpha) \in Nat /\ Len(preGamma) \in Nat /\ Len(preAlpha') = Len(preAlpha)
    BY <1>1, <2>1, ConsumedType, SMTT(60)
  <2>4. PICK k \in Nat, d \in Nat, p \in Int, q \in Int :
          k = Len(preAlpha) /\ d = b + n /\ p = b - a /\ q = b - a + cached
    BY <2>3
  <2>5. k <= Len(preAlpha) /\ b <= d /\ a + q <= d
    BY <2>4
  <2>6. Holds(preAlpha', k, a, src.gen, d)
    BY <1>1, <2>1, <2>2, <2>4, <2>5, ConsumedHolds
  <2>7. party = 0 => Holds(preGamma, Len(preGamma), a, src.gen, d)
    <3>1. PICK m \in Nat : m = Len(preGamma)
      BY <2>3
    <3>2. party = 0 => Holds(preGamma, m, a, src.gen, b)
      BY <2>2, <3>1
    <3>3. party = 0 => Holds(preGamma, m, a, src.gen, d)
      BY <2>5, <3>2, HoldsLess
    <3>. QED  BY <3>1, <3>3
  <2>. QED  BY <1>2, <1>5, <2>3, <2>4, <2>6, <2>7
<1>. QED  BY <1>3, <1>4, <1>5

\* take_batch_into and finalize_reserved_range: the range is consumed and the
\* stored items after it are left.
LEMMA ConsumeIntact ==
  ASSUME IInv, Intact, NEW b \in Nat, NEW n \in Nat, NEW cached \in Nat, cached <= n,
         pc \in {"prove", "filled"}, pc' = AfterAlpha(cached), b = src.cursor,
         req' = [base |-> b, len |-> n, cached |-> cached],
         cached > 0 => src.mode = "precache",
         ConsumeAlpha(b, n, cached),
         /\ src'.gen = src.gen /\ src'.total = src.total /\ src'.path = src.path
         /\ src'.mode = src.mode /\ src'.start = src.start /\ src'.len = src.len,
         UNCHANGED <<party, saveOf, meta, preGamma, preMeta, gens, scarred>>,
         HandoutIntact'
  PROVE  Intact'
<1>1. /\ FreshInv /\ CursorInv /\ SidecarInv /\ FilesInv
      /\ TypeOK /\ ReadsInRange /\ HeaderInv /\ StageInv
  BY DEF Intact, IInv
<1>2. /\ pc \in HasSrc \ PreStages /\ pc' \in HasSrc \ PreStages /\ src.path /\ saveOf # "first"
      /\ pc' \in {"gamma", "persist"} /\ pc \notin {"gamma", "persist", "recvExt"}
      /\ pc' = "gamma" => party = 0 /\ cached > 0
      /\ src.mode = "precache" => party # 2
  BY <1>1 DEF HasSrc, PreStages, HeaderInv, FreshInv, AfterAlpha, StageInv
<1>3. FreshInv'
  BY <1>1, <1>2 DEF FreshInv
<1>4. CursorInv'
  BY <1>1, <1>2 DEF CursorInv, Durable
<1>5. SidecarInv'
  BY <1>1, <1>2 DEF SidecarInv
<1>6. RequestInv'
  BY <1>1, <1>2 DEF RequestInv
<1>7. FilesInv'
  <2>1. SUFFICES ASSUME ~scarred PROVE FilesInv'
    BY <1>2 DEF FilesInv
  <2>2. /\ party = 2 => /\ Len(alpha2) = src.total /\ src.total <= Len(alpha2)
                        /\ Holds(alpha2, src.total, 0, src.gen, b)
        /\ party # 2 /\ src.mode = "precache" => Cached(src.start, src.gen, b)
    <3>1. src.total \in Nat
      BY <1>1 DEF TypeOK
    <3>. QED  BY <1>1, <1>2, <2>1, <3>1 DEF FilesInv, Front
  <2>3. /\ party = 2 => Holds(alpha2', src.total, 0, src.gen, b + n)
        /\ party # 2 /\ src.mode = "precache" =>
              LET d == IF cached > 0 THEN b + n ELSE b
              IN  /\ Holds(preAlpha', Len(preAlpha'), src.start, src.gen, d)
                  /\ party = 0 => Holds(preGamma', Len(preGamma'), src.start, src.gen, d)
    BY <1>1, <2>2, ConsumeAlphaIntact
  <2>4. Len(alpha2') = Len(alpha2)
    BY <1>1, ConsumeAlphaType
  <2>5. Front' = IF party = 2 \/ cached > 0 THEN b + n ELSE b
    BY <1>2 DEF Front, Punched
  <2>6. party = 2 => Len(alpha2') = src'.total /\ Holds(alpha2', src'.total, 0, src'.gen, Front')
    BY <2>2, <2>3, <2>4, <2>5
  <2>7. party # 2 /\ src.mode = "precache" => Cached(src.start, src.gen, Front)'
    BY <2>3, <2>5 DEF Cached
  <2>8. src'.total \in Nat
    BY <1>1 DEF TypeOK
  <2>. QED  BY <1>2, <2>6, <2>7, <2>8 DEF FilesInv, Cached
<1>8. DiskInv'
  BY <1>2 DEF DiskInv
<1>. QED  BY <1>3, <1>4, <1>5, <1>6, <1>7, <1>8 DEF Intact

\* take_batch_into reads where the files hold the items.
LEMMA TakeIntact ==
  ASSUME IInv, Intact, NEW n \in 1..MaxItems, Take(n)
  PROVE  Intact'
<1>. DEFINE cached == CachedLen(src.cursor, n)
            items == Delivered(src.cursor, n, cached)
<1>1. /\ FilesInv /\ FreshInv /\ TypeOK /\ ReadsInRange /\ StageInv
      /\ pc = "prove" /\ pc' = AfterAlpha(cached) /\ n <= src.total - src.cursor
      /\ req' = [base |-> src.cursor, len |-> n, cached |-> cached]
      /\ HandOut(items) /\ ConsumeAlpha(src.cursor, n, cached)
      /\ UNCHANGED <<party, src, saveOf, meta, preGamma, preMeta, gens>>
  BY DEF Intact, IInv, Take, remaining
<1>2. /\ n \in Nat /\ src.cursor \in Nat /\ src.total \in Nat
      /\ src.start \in Nat /\ src.len \in Nat
      /\ preAlpha \in Seq(Cell) /\ preGamma \in Seq(Cell)
  BY <1>1, BoundsAssumption DEF TypeOK
<1>3. /\ cached \in Nat /\ cached <= n
      /\ cached > 0 => /\ src.mode = "precache" /\ src.start <= src.cursor
                       /\ src.cursor + cached <= src.start + src.len
  BY <1>1, <1>2, CachedLenBound
<1>. HIDE DEF cached
<1>4. out'.gen = src.gen /\ out'.items = items /\ scarred' = scarred
  BY <1>1 DEF HandOut
<1>5. ~scarred => \A x \in items : x[2] = <<src.gen, x[1]>>
  <2>1. SUFFICES ASSUME ~scarred PROVE \A x \in items : x[2] = <<src.gen, x[1]>>
    OBVIOUS
  <2>2. PICK c \in Nat : c = src.cursor
    BY <1>2
  <2>3. party = 2 => c + n <= src.total /\ Holds(alpha2, src.total, 0, src.gen, c)
    BY <1>1, <1>2, <2>1, <2>2 DEF FilesInv, Front, HasSrc
  <2>4. party # 2 /\ cached > 0 =>
          /\ src.start <= c /\ c - src.start + cached <= Len(preAlpha)
          /\ party = 0 => c - src.start + cached <= Len(preGamma)
    <3>1. src.mode = "precache" => /\ src.len <= Len(preAlpha)
                                   /\ party = 0 => src.len <= Len(preGamma)
      BY <1>1 DEF ReadsInRange, HasSrc
    <3>2. Len(preAlpha) \in Nat /\ Len(preGamma) \in Nat
      BY <1>2
    <3>3. PICK a \in Nat, m \in Nat, k \in Nat :
            a = src.start /\ m = src.len /\ k = cached
      BY <1>2, <1>3
    <3>4. k > 0 => a <= c /\ c + k <= a + m
      BY <1>3, <2>2, <3>3
    <3>5. k > 0 => /\ m <= Len(preAlpha)
                   /\ party = 0 => m <= Len(preGamma)
      BY <1>3, <3>1, <3>3
    <3>6. k > 0 => /\ a <= c /\ c - a + k <= Len(preAlpha)
                   /\ party = 0 => c - a + k <= Len(preGamma)
      BY <3>2, <3>4, <3>5
    <3>. QED  BY <3>3, <3>6
  <2>5. party # 2 /\ cached > 0 => Cached(src.start, src.gen, c)
    BY <1>1, <1>3, <2>1, <2>2 DEF FilesInv, Front, HasSrc, PreStages
  <2>6. \A x \in Delivered(c, n, cached) : x[2] = <<src.gen, x[1]>>
    <3>1. PICK m \in Nat, k \in Nat : m = n /\ k = cached /\ k <= m
      BY <1>2, <1>3
    <3>2. TypeOK
      BY <1>1
    <3>3. /\ party = 2 => c + m <= src.total /\ Holds(alpha2, src.total, 0, src.gen, c)
          /\ party # 2 /\ k > 0 =>
               /\ src.start <= c /\ c - src.start + k <= Len(preAlpha)
               /\ party = 0 => c - src.start + k <= Len(preGamma)
               /\ Cached(src.start, src.gen, c)
      BY <2>3, <2>4, <2>5, <3>1
    <3>4. c <= c
      OBVIOUS
    <3>5. \A x \in Delivered(c, m, k) : x[2] = <<src.gen, x[1]>>
      BY <3>1, <3>2, <3>3, <3>4, DeliveredIntact
    <3>. QED  BY <3>1, <3>5
  <2>. QED  BY <2>2, <2>6
<1>6. HandoutIntact'
  BY <1>4, <1>5 DEF HandoutIntact
<1>. HIDE DEF items
<1>. QED  BY <1>1, <1>2, <1>3, <1>4, <1>6, ConsumeIntact

\* finalize_reserved_range consumes the range that was filled.
LEMMA FinalizeIntact ==
  ASSUME IInv, Intact, Finalize
  PROVE  Intact'
<1>1. /\ RequestInv /\ HandoutIntact /\ TypeOK /\ StageInv
      /\ pc = "filled" /\ pc' = AfterAlpha(req.cached)
      /\ ConsumeAlpha(req.base, req.len, req.cached)
      /\ UNCHANGED <<party, req, saveOf, meta, preGamma, preMeta, gens, out, scarred>>
  BY DEF Intact, IInv, Finalize, history
<1>2. /\ req \in Request /\ req.base \in Nat /\ req.len \in Nat /\ req.cached \in Nat
      /\ req.base = src.cursor /\ req.cached <= req.len
      /\ req.cached > 0 => src.mode = "precache"
  BY <1>1 DEF TypeOK, StageInv, RequestInv
<1>3. /\ src'.gen = src.gen /\ src'.total = src.total /\ src'.path = src.path
      /\ src'.mode = src.mode /\ src'.start = src.start /\ src'.len = src.len
  <2>1. src \in Source /\ src' = [src EXCEPT !.cursor = req.base + req.len]
    BY <1>1 DEF Finalize, TypeOK
  <2>. QED  BY <2>1
<1>4. req' = [base |-> req.base, len |-> req.len, cached |-> req.cached]
  BY <1>1, <1>2
<1>5. HandoutIntact'
  BY <1>1 DEF HandoutIntact
<1>. QED  BY <1>1, <1>2, <1>3, <1>4, <1>5, ConsumeIntact

\* fill_into_par_safe: every view reads where the files hold the items.
LEMMA FillIntact ==
  ASSUME IInv, Intact, NEW c \in 1..MaxItems, Fill(c)
  PROVE  Intact'
<1>. DEFINE items == UNION {Delivered(v.start, v.len, ViewCached(v)) : v \in Views(c)}
<1>1. /\ FreshInv /\ CursorInv /\ SidecarInv /\ RequestInv /\ FilesInv
      /\ TypeOK /\ ReadsInRange /\ HeaderInv /\ StageInv
      /\ pc = "reserved" /\ pc' = "filled" /\ HandOut(items)
      /\ \A v \in Views(c) : ViewFills(v)
      /\ UNCHANGED <<party, src, req, saveOf, meta, alpha2, preAlpha, preGamma, preMeta, gens>>
  BY DEF Intact, IInv, Fill, disk
<1>2. pc \in HasSrc \ PreStages /\ pc' \in HasSrc \ PreStages /\ src.path /\ saveOf # "first"
  BY <1>1 DEF HasSrc, PreStages, HeaderInv, FreshInv
<1>3. out'.gen = src.gen /\ out'.items = items /\ scarred' = scarred
  BY <1>1 DEF HandOut
<1>4. ~scarred => \A x \in items : x[2] = <<src.gen, x[1]>>
  <2>1. SUFFICES ASSUME ~scarred, NEW v \in Views(c)
                 PROVE  \A x \in Delivered(v.start, v.len, ViewCached(v)) : x[2] = <<src.gen, x[1]>>
    OBVIOUS
  <2>2. c \in Nat \ {0} /\ TypeOK /\ ViewFills(v)
    BY <1>1, BoundsAssumption
  <2>3. /\ v.start \in Nat /\ v.len \in Nat
        /\ req.base <= v.start /\ v.start + v.len <= req.base + req.len
    BY <2>2, ViewsInRange
  <2>4. /\ ViewCached(v) \in Nat /\ ViewCached(v) <= v.len
        /\ party # 2 /\ ViewCached(v) > 0 =>
             /\ src.mode = "precache"
             /\ src.start <= v.start /\ v.start - src.start + ViewCached(v) <= Len(preAlpha)
             /\ party = 0 => v.start - src.start + ViewCached(v) <= Len(preGamma)
    BY <2>2, ViewCachedBound
  <2>5. PICK b \in Nat, n \in Nat, k \in Nat, d \in Nat :
          b = v.start /\ n = v.len /\ k = ViewCached(v) /\ d = src.cursor
    BY <1>1, <2>3, <2>4 DEF TypeOK
  <2>6. d <= b /\ k <= n /\ (party = 2 => b + n <= src.total)
    <3>1. /\ req.base = src.cursor /\ req.base + req.len <= src.total
          /\ req.base \in Nat /\ req.len \in Nat /\ src.total \in Nat
      BY <1>1 DEF StageInv, TypeOK
    <3>2. PICK e \in Nat, t \in Nat : e = req.len /\ t = src.total
      BY <3>1
    <3>3. d <= b /\ b + n <= d + e /\ d + e <= t
      BY <2>3, <2>5, <3>1, <3>2
    <3>4. k <= n
      BY <2>4, <2>5
    <3>5. b + n <= t
      BY <3>3
    <3>. QED  BY <3>2, <3>3, <3>4, <3>5
  <2>7. party = 2 => Holds(alpha2, src.total, 0, src.gen, d)
    BY <1>1, <1>2, <2>1, <2>5 DEF FilesInv, Front
  <2>8. party # 2 /\ k > 0 =>
          /\ src.start <= b /\ b - src.start + k <= Len(preAlpha)
          /\ party = 0 => b - src.start + k <= Len(preGamma)
          /\ Cached(src.start, src.gen, d)
    <3>1. party # 2 /\ src.mode = "precache" => Cached(src.start, src.gen, d)
      BY <1>1, <1>2, <2>1, <2>5 DEF FilesInv, Front
    <3>. QED  BY <2>4, <2>5, <3>1
  <2>9. \A x \in Delivered(b, n, k) : x[2] = <<src.gen, x[1]>>
    BY <2>2, <2>6, <2>7, <2>8, DeliveredIntact
  <2>. QED  BY <2>5, <2>9
<1>5. HandoutIntact'
  BY <1>3, <1>4 DEF HandoutIntact
<1>. HIDE DEF items
<1>6. FreshInv' /\ CursorInv' /\ RequestInv'
  BY <1>1, <1>2 DEF FreshInv, CursorInv, Durable, RequestInv
<1>7. SidecarInv'
  BY <1>1, <1>2 DEF SidecarInv
<1>8. FilesInv'
  BY <1>1, <1>2, <1>3 DEF FilesInv, Front, Cached
<1>9. DiskInv'
  BY <1>1, <1>2 DEF DiskInv
<1>. QED  BY <1>5, <1>6, <1>7, <1>8, <1>9 DEF Intact

\* P0's gamma file is consumed for the same range.
LEMMA ConsumeGammaIntact ==
  ASSUME IInv, Intact, ConsumeGamma
  PROVE  Intact'
<1>1. /\ FreshInv /\ CursorInv /\ SidecarInv /\ RequestInv /\ FilesInv /\ HandoutIntact
      /\ TypeOK /\ HeaderInv
      /\ pc = "gamma" /\ pc' = "persist"
      /\ preGamma' = Consumed(preGamma, req.base - src.start, req.base - src.start + req.cached)
      /\ UNCHANGED <<party, src, req, saveOf, meta, alpha2, preAlpha, preMeta, gens, out, scarred>>
  BY DEF Intact, IInv, ConsumeGamma, history
<1>2. pc \in HasSrc \ PreStages /\ pc' \in HasSrc \ PreStages /\ src.path /\ saveOf # "first"
  BY <1>1 DEF HasSrc, PreStages, HeaderInv, FreshInv
<1>3. party = 0 /\ req.cached > 0 /\ req.cached <= req.len /\ src.mode = "precache"
  BY <1>1 DEF RequestInv
<1>4. FreshInv' /\ CursorInv' /\ RequestInv'
  BY <1>1, <1>2 DEF FreshInv, CursorInv, Durable, RequestInv
<1>5. SidecarInv'
  BY <1>1, <1>2 DEF SidecarInv
<1>6. FilesInv'
  <2>1. SUFFICES ASSUME ~scarred PROVE FilesInv'
    BY <1>1, <1>2 DEF FilesInv
  <2>2. /\ req.base \in Nat /\ req.len \in Nat /\ req.cached \in Nat /\ src.start \in Nat
        /\ preGamma \in Seq(Cell)
    BY <1>1 DEF TypeOK
  <2>3. Len(preGamma) \in Nat
    BY <2>2
  <2>4. PICK a \in Nat, b \in Nat, n \in Nat, m \in Nat, k \in Nat :
          a = src.start /\ b = req.base /\ n = req.len /\ m = req.cached /\ k = Len(preGamma)
    BY <2>2, <2>3
  <2>. DEFINE d == b + n
  <2>5. d <= d /\ a + (b - a + m) <= d /\ k <= Len(preGamma) /\ d \in Nat
        /\ b - a \in Int /\ b - a + m \in Int
    <3>1. m <= n
      BY <1>3, <2>4
    <3>2. k <= Len(preGamma)
      BY <2>4
    <3>. QED  BY <3>1, <3>2
  <2>6. Front = d /\ Front' = d
    BY <1>1, <1>3, <2>4 DEF Front, Punched
  <2>. HIDE DEF d
  <2>7. Holds(preAlpha, Len(preAlpha), a, src.gen, d) /\ Holds(preGamma, k, a, src.gen, d)
    BY <1>1, <1>2, <1>3, <2>1, <2>4, <2>6 DEF FilesInv, Cached
  <2>8. Holds(preGamma', k, a, src.gen, d)
    BY <1>1, <2>2, <2>4, <2>5, <2>7, ConsumedHolds
  <2>9. Len(preGamma') = k
    BY <1>1, <2>2, <2>4, ConsumedType
  <2>. QED  BY <1>1, <1>3, <2>4, <2>6, <2>7, <2>8, <2>9 DEF FilesInv, Cached
<1>7. DiskInv' /\ HandoutIntact'
  BY <1>1, <1>2 DEF DiskInv, HandoutIntact
<1>. QED  BY <1>4, <1>5, <1>6, <1>7 DEF Intact

\* persist_cursor: header and object move past the consumed range together.
LEMMA PersistCursorIntact ==
  ASSUME IInv, Intact, PersistCursor
  PROVE  Intact'
<1>1. /\ FreshInv /\ SidecarInv /\ RequestInv /\ FilesInv /\ HandoutIntact
      /\ TypeOK /\ HeaderInv
      /\ pc = "persist" /\ pc' = "prove" /\ meta' = Patched(req.base + req.len)
      /\ UNCHANGED <<party, saveOf, alpha2, preAlpha, preGamma, preMeta, gens, scarred>>
  BY DEF Intact, IInv, PersistCursor
<1>2. pc \in HasSrc \ PreStages /\ pc' \in HasSrc \ PreStages /\ src.path /\ saveOf # "first"
  BY <1>1 DEF HasSrc, PreStages, HeaderInv, FreshInv
<1>3. PICK b \in Nat, n \in Nat, k \in Nat : b = req.base /\ n = req.len /\ k = b + n
  <2>1. req.base \in Nat /\ req.len \in Nat
    BY <1>1 DEF TypeOK
  <2>2. PICK b \in Nat, n \in Nat : b = req.base /\ n = req.len
    BY <2>1
  <2>3. b + n \in Nat
    OBVIOUS
  <2>. QED  BY <2>2, <2>3
<1>4. /\ src'.gen = src.gen /\ src'.total = src.total /\ src'.cursor = k
      /\ src'.mode = src.mode /\ src'.start = src.start /\ src'.len = src.len
      /\ src'.path = src.path
  <2>1. src \in Source /\ src' = [src EXCEPT !.cursor = k]
    BY <1>1, <1>3 DEF PersistCursor, TypeOK
  <2>. QED  BY <1>3, <2>1
<1>5. out'.gen = out.gen /\ out'.items = out.items
  <2>1. out \in Handout /\ out' = [out EXCEPT !.complete = TRUE]
    BY <1>1 DEF TypeOK, PersistCursor
  <2>. QED  BY <2>1
<1>6. meta'.ok = meta.ok /\ meta'.gen = meta.gen /\ (meta.ok => meta'.cursor = k)
  <2>1. meta' = Patched(k)
    BY <1>1, <1>3
  <2>. QED  BY <1>1, <1>2, <1>3, <2>1, PatchedType
<1>7. FreshInv' /\ CursorInv' /\ RequestInv'
  BY <1>1, <1>2, <1>4, <1>6 DEF FreshInv, CursorInv, Durable, RequestInv
<1>8. SidecarInv'
  BY <1>1, <1>2, <1>4 DEF SidecarInv
<1>9. FilesInv'
  <2>1. SUFFICES ASSUME ~scarred PROVE FilesInv'
    BY <1>1, <1>2 DEF FilesInv
  <2>2. Front' = k /\ (Punched => Front = k) /\ (~Punched => Front = b)
    BY <1>1, <1>3, <1>4 DEF Front
  <2>3. party = 2 => Len(alpha2) = src.total + 0 /\ Holds(alpha2, src.total, 0, src.gen, k)
    BY <1>1, <1>2, <2>1, <2>2 DEF FilesInv, Punched
  <2>4. party # 2 /\ src.mode = "precache" => Cached(src.start, src.gen, k)
    <3>1. SUFFICES ASSUME party # 2, src.mode = "precache" PROVE Cached(src.start, src.gen, k)
      OBVIOUS
    <3>2. Cached(src.start, src.gen, Front)
      BY <1>1, <1>2, <2>1, <3>1 DEF FilesInv
    <3>3. CASE Punched
      BY <2>2, <3>2, <3>3
    <3>4. CASE ~Punched
      <4>1. preAlpha \in Seq(Cell) /\ preGamma \in Seq(Cell) /\ src.start \in Nat
        BY <1>1 DEF TypeOK
      <4>2. PICK a \in Nat, s \in Nat, t \in Nat :
              a = src.start /\ s = Len(preAlpha) /\ t = Len(preGamma)
        BY <4>1
      <4>3. Holds(preAlpha, s, a, src.gen, b) /\ (party = 0 => Holds(preGamma, t, a, src.gen, b))
        BY <2>2, <3>2, <3>4, <4>2 DEF Cached
      <4>4. b <= k /\ s <= s /\ t <= t
        BY <1>3
      <4>5. Holds(preAlpha, s, a, src.gen, k)
        BY <4>3, <4>4, HoldsLess
      <4>6. party = 0 => Holds(preGamma, t, a, src.gen, k)
        BY <4>3, <4>4, HoldsLess
      <4>. QED  BY <4>2, <4>5, <4>6 DEF Cached
    <3>. QED  BY <3>3, <3>4
  <2>. QED  BY <1>1, <1>4, <2>2, <2>3, <2>4 DEF FilesInv, Cached
<1>10. DiskInv' /\ HandoutIntact'
  BY <1>1, <1>2, <1>4, <1>5 DEF DiskInv, HandoutIntact
<1>. QED  BY <1>7, <1>8, <1>9, <1>10 DEF Intact

\* An object with a header describes what load would find, unless the stage is
\* one of those AtRisk.
LEMMA DiskFromFiles ==
  ASSUME IInv, Intact, pc \in HasSrc, src.path, ~scarred, ~AtRisk
  PROVE  DiskIntact
<1>1. /\ FreshInv /\ CursorInv /\ SidecarInv /\ RequestInv /\ FilesInv
      /\ TypeOK /\ HeaderInv /\ StageInv
  BY DEF Intact, IInv
<1>. SUFFICES ASSUME meta.ok PROVE DiskIntact
  BY DEF DiskIntact
<1>2. meta.gen = src.gen /\ meta.cursor = Durable
  BY <1>1 DEF HeaderInv, CursorInv
<1>3. CASE party = 2
  <2>1. pc \notin {"gamma", "persist", "recvExt"} /\ ~PrecacheMatches
    BY <1>3 DEF AtRisk, PrecacheMatches
  <2>2. meta.total = src.total
    <3>1. CASE pc = "save"
      BY <1>3, <3>1 DEF AtRisk
    <3>2. CASE pc # "save"
      BY <1>1, <3>2 DEF HeaderInv
    <3>. QED  BY <3>1, <3>2
  <2>3. Front = meta.cursor
    BY <1>2, <2>1 DEF Front, Durable
  <2>4. src.total \in Nat
    BY <1>1 DEF TypeOK
  <2>. QED  BY <1>1, <1>2, <1>3, <2>1, <2>2, <2>3, <2>4 DEF FilesInv, DiskIntact
<1>4. CASE party # 2
  <2>1. SUFFICES ASSUME PrecacheMatches PROVE Cached(meta.cursor, meta.gen, meta.cursor)
    BY <1>4 DEF DiskIntact
  <2>2. preMeta.ok /\ preMeta.gen = src.gen /\ preMeta.start = meta.cursor
    BY <1>2, <2>1 DEF PrecacheMatches
  <2>3. CASE pc \in PreStages
    <3>1. pc = "preTruncate"
      BY <1>1, <2>2, <2>3 DEF PreStages, AtRisk, SidecarInv
    <3>2. req.base = meta.cursor
      BY <1>1, <1>2, <3>1 DEF StageInv, PreStages, Durable
    <3>. QED  BY <1>1, <1>2, <3>1, <3>2 DEF SidecarInv, Cached
  <2>4. CASE pc \notin PreStages
    <3>1. src.mode = "precache" /\ src.start = meta.cursor
      <4>1. pc \in HasSrc \ PreStages
        BY <2>4
      <4>2. src.mode = "precache"
        BY <1>1, <2>2, <4>1 DEF SidecarInv
      <4>3. preMeta.start = src.start
        BY <1>1, <4>1, <4>2 DEF SidecarInv
      <4>. QED  BY <2>2, <4>2, <4>3
    <3>2. Front = meta.cursor
      <4>1. pc \in {"gamma", "persist"} => ~Punched
        BY DEF AtRisk, Punched
      <4>. QED  BY <1>2, <4>1 DEF Front, Durable
    <3>. QED  BY <1>1, <1>2, <1>4, <2>4, <3>1, <3>2 DEF FilesInv
  <2>. QED  BY <2>3, <2>4
<1>. QED  BY <1>3, <1>4

\* Every end of an iteration: the header already has the cursor that Drop
\* writes once more, and the directory is as load needs it or is marked.
LEMMA EndIntact ==
  ASSUME IInv, Intact,
         \/ Finish \/ SaveAborts \/ Fails \/ Kill
         \/ \E r \in Requests : PrecacheTooLong(r)
         \/ \E c \in 1..MaxItems : FillFails(c)
  PROVE  Intact'
<1>1. /\ FreshInv /\ CursorInv /\ DiskInv /\ HandoutIntact /\ TypeOK
  BY DEF Intact, IInv
<1>2. /\ Down
      /\ scarred' = (scarred \/ AtRisk)
      /\ UNCHANGED <<party, alpha2, preAlpha, preGamma, preMeta, gens, out>>
  BY DEF Finish, SaveAborts, Fails, Kill, PrecacheTooLong, FillFails, DropSrc, disk
<1>3. pc' = "down" /\ pc' \notin HasSrc /\ saveOf' = "none"
  BY <1>2 DEF Down, HasSrc
<1>4. meta' = meta
  <2>1. CASE Kill
    BY <2>1 DEF Kill, disk
  <2>2. CASE ~Kill
    <3>1. /\ meta' = IF pc \in HasSrc THEN Patched(src.cursor) ELSE meta
          /\ pc \notin {"gamma", "persist"}
      BY <2>2 DEF Finish, SaveAborts, Fails, PrecacheTooLong, FillFails, DropSrc
    <3>2. CASE pc \in HasSrc /\ src.path /\ meta.ok
      <4>1. meta.cursor = src.cursor
        BY <1>1, <3>1, <3>2 DEF CursorInv, Durable
      <4>2. meta \in Header
        BY <1>1 DEF TypeOK
      <4>3. meta' = [meta EXCEPT !.cursor = src.cursor]
        BY <3>1, <3>2 DEF Patched
      <4>. QED  BY <4>1, <4>2, <4>3
    <3>3. CASE ~(pc \in HasSrc /\ src.path /\ meta.ok)
      BY <3>1, <3>3 DEF Patched
    <3>. QED  BY <3>2, <3>3
  <2>. QED  BY <2>1, <2>2
<1>5. FreshInv' /\ CursorInv' /\ RequestInv'
  BY <1>1, <1>2, <1>3 DEF FreshInv, CursorInv, RequestInv
<1>6. SidecarInv' /\ FilesInv'
  BY <1>3 DEF SidecarInv, FilesInv
<1>7. DiskInv'
  <2>1. SUFFICES ASSUME ~scarred, ~AtRisk PROVE DiskIntact'
    BY <1>2 DEF DiskInv
  <2>2. DiskIntact
    BY <1>1, <2>1, DiskFromFiles DEF DiskInv
  <2>. QED  BY <1>2, <1>4, <2>2 DEF DiskIntact, PrecacheMatches, Cached
<1>8. HandoutIntact'
  BY <1>1, <1>2 DEF HandoutIntact
<1>. QED  BY <1>5, <1>6, <1>7, <1>8 DEF Intact

\* An empty directory promises nothing.
LEMMA InitIntact == Init => Intact
<1>. SUFFICES ASSUME Init PROVE Intact
  OBVIOUS
<1>1. /\ pc = "down" /\ pc \notin HasSrc /\ saveOf = "none" /\ out.items = {}
      /\ ~meta.ok /\ ~preMeta.ok
  BY DEF Init, HasSrc, NoOut, NoMeta, NoPreMeta
<1>2. FreshInv /\ CursorInv /\ SidecarInv /\ RequestInv
  BY <1>1 DEF FreshInv, CursorInv, SidecarInv, RequestInv
<1>3. FilesInv /\ DiskInv /\ HandoutIntact
  BY <1>1 DEF FilesInv, DiskInv, DiskIntact, HandoutIntact
<1>. QED  BY <1>2, <1>3 DEF Intact

\* Every step of the worker keeps the stored items intact.
LEMMA NextIntact == IInv /\ Intact /\ [Next]_vars => Intact'
<1>. SUFFICES ASSUME IInv, Intact, [Next]_vars PROVE Intact'
  OBVIOUS
<1>. QED
  BY IdleIntact, FreshCreateIntact, FreshReceiveIntact, LoadIntact, ExtendBeginIntact,
     ExtendApplyIntact, SaveTruncateIntact, SaveWriteIntact, PrecacheClearIntact,
     PrecacheFillIntact, PrecacheWriteIntact, ReserveIntact, TakeIntact, FillIntact,
     FinalizeIntact, ConsumeGammaIntact, PersistCursorIntact, EndIntact
     DEF Next

\* Unless an interruption hit one of the windows of AtRisk since the header of
\* the generation was first written, every item that take_batch or the forks
\* of a reserved range hand out is the item at its position, whether it was
\* read from P2's file, from the precache or regenerated.
THEOREM HandoutsIntact == Spec => []HandoutIntact
<1>1. Intact => HandoutIntact
  BY DEF Intact
<1>. QED  BY <1>1, InitIInv, NextIInv, InitIntact, NextIntact, PTL DEF Spec
=============================================================================
