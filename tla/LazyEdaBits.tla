---------------------------- MODULE LazyEdaBits ----------------------------
(***************************************************************************)
(* One `LazyEdaBits` source of one party: the object the worker holds in   *)
(* memory, the files it keeps in the preprocessing directory, and the      *)
(* passage of the worker's prove loop through load, fresh generation,      *)
(* extension, save, precache, consumption and drop.  The process may be    *)
(* killed between any two disk effects and is started again afterwards.    *)
(*                                                                         *)
(* An edaBit is a cell <<g, i>>: item i of the stream that generation g    *)
(* (one pair of RNG seeds) defines.  The K field elements and the ring     *)
(* element of an item are written and read together, so a file is a        *)
(* sequence of cells; a punched hole, a set_len tail and a truncated file  *)
(* of a given size read as Zero.  A missing file and an empty file are     *)
(* treated alike by every reader and are both the empty sequence; a        *)
(* missing and a torn header are both unreadable (ok = FALSE).             *)
(* Precache files without a sidecar are opened by no reader; load is       *)
(* modelled as removing them with the sidecar, where the code may leave    *)
(* them.  The chunks of a precache are written here as one alpha step and  *)
(* one gamma step, where the code alternates them: a kill among them with  *)
(* an old sidecar in place counts as an interruption AtRisk either way.    *)
(*                                                                         *)
(* The production build is modelled (feature reuse-preproc off), and the   *)
(* sources whose budget is positive (total > 0).                           *)
(***************************************************************************)
EXTENDS Integers, Sequences, FiniteSets

CONSTANTS
  Parties,    \* the parties to consider, a subset of {0, 1, 2}
  Budgets,    \* numbers of items one proof may require
  Requests,   \* window lengths EDABITS_PRECACHE_T_LOG2 may ask for
  USize,      \* number of values of the machine's usize
  MaxItems,   \* bound: items of one generation
  MaxFaults   \* bound: kills, errors and failed writes

ASSUME PartiesAssumption == Parties \subseteq {0, 1, 2}
ASSUME BudgetsAssumption == Budgets \subseteq Nat \ {0}
ASSUME RequestsAssumption == Requests \subseteq Nat
ASSUME BoundsAssumption ==
  MaxItems \in Nat /\ MaxFaults \in Nat /\ USize \in Nat \ {0}

VARIABLES
  party,      \* this party's id, fixed
  pc,         \* where the worker is in its loop
  src,        \* the LazyEdaBits object (meaningful when pc \in HasSrc)
  req,        \* the range being taken or reserved
  saving,     \* progress of the header writes of pool.save
  saveOf,     \* which pool.save call is running
  meta,       \* edabits_K.meta on disk
  others,     \* are the headers of the pool's other sources readable?
  alpha2,     \* edabits_K.alpha2 on disk (P2)
  preAlpha,   \* edabits_K.precache_alpha on disk (P0, P1)
  preGamma,   \* edabits_K.precache_gamma on disk (P0)
  preMeta,    \* edabits_K.precache.meta on disk (P0, P1)
  gens,       \* fresh generations so far
  faults,     \* kills, errors and failed writes so far
  out,        \* history: the latest hand-out
  used,       \* history: items of earlier completed hand-outs
  scarred     \* history: an interruption has hit a window of AtRisk, and no
              \* generation has been completed since

disk == <<meta, others, alpha2, preAlpha, preGamma, preMeta>>
history == <<out, used, scarred>>
vars == <<party, pc, src, req, saving, saveOf, disk, gens, faults, history>>

-----------------------------------------------------------------------------
(* Files *)

Cell == Nat \X Nat
Zero == <<0, 0>>

MinOf(a, b) == IF a <= b THEN a ELSE b

\* Items a, a+1, ..., a+n-1 of generation g, as regenerated from the seeds.
Items(g, a, n) == [i \in 1..n |-> <<g, a + i - 1>>]

Zeros(n) == [i \in 1..n |-> Zero]

\* The file after set_len has added n zero items to it.
Grown(f, n) == f \o Zeros(n)

\* The file after items a..b-1 (counted from 0) have been punched out.
Consumed(f, a, b) ==
  IF a > b \/ b > Len(f) THEN f
  ELSE [i \in 1..Len(f) |-> IF a < i /\ i <= b THEN Zero ELSE f[i]]

\* The file after the cells s have been written at item offset off.
WriteAt(f, off, s) ==
  [i \in 1..Len(f) |-> IF off < i /\ i <= off + Len(s) THEN s[i - off] ELSE f[i]]

NoMeta == [ok |-> FALSE, gen |-> 0, total |-> 0, cursor |-> 0]
NoPreMeta == [ok |-> FALSE, gen |-> 0, total |-> 0, start |-> 0, len |-> 0]

\* EdaBitsStorageMode: "none", "p2" or "precache" (window start, len).
NoSrc == [gen |-> 0, total |-> 0, cursor |-> 0, mode |-> "none",
          start |-> 0, len |-> 0, path |-> FALSE]

NoReq == [base |-> 0, len |-> 0, cached |-> 0]
NoOut == [gen |-> 0, items |-> {}, complete |-> FALSE]

remaining == src.total - src.cursor

\* History: the items of the latest hand-out, and all items of completed ones.
OutItems == {<<out.gen, x[1]>> : x \in out.items}
UsedSoFar == IF out.complete THEN used \cup OutItems ELSE used

-----------------------------------------------------------------------------
(* Where the worker is *)

\* The source object exists.
HasSrc == {"loaded", "recvExt", "save", "ready", "preAlpha", "preGamma",
           "preTruncate", "preWrite", "prove", "reserved", "filled", "gamma", "persist"}

Stages == HasSrc \cup {"down", "fresh", "recvFresh"}

IdleSave == [f \in {"self", "others"} |-> "done"]
StartSave == [f \in {"self", "others"} |-> "todo"]

Init ==
  /\ party \in Parties
  /\ pc = "down"
  /\ src = NoSrc
  /\ req = NoReq
  /\ saving = IdleSave
  /\ saveOf = "none"
  /\ meta = NoMeta
  /\ others = FALSE
  /\ alpha2 = <<>>
  /\ preAlpha = <<>>
  /\ preGamma = <<>>
  /\ preMeta = NoPreMeta
  /\ gens = 0
  /\ faults = 0
  /\ out = NoOut
  /\ used = {}
  /\ scarred = FALSE

-----------------------------------------------------------------------------
(* PreprocessingPool::load: either the source comes back, or the pool is    *)
(* generated afresh because some header, or P2's file, is unusable.         *)

\* Fault: the length of P2's file is not checked.
LoadSucceedsUnchecked == meta.ok /\ others

LoadSucceeds ==
  /\ meta.ok
  /\ others
  /\ party = 2 => Len(alpha2) >= meta.total

\* Fault: the sidecar is adopted wherever its window starts.
PrecacheMatchesAnywhere ==
  /\ party # 2
  /\ preMeta.ok
  /\ preMeta.gen = meta.gen
  /\ preMeta.total = meta.total
  /\ Len(preAlpha) >= preMeta.len
  /\ party = 0 => Len(preGamma) >= preMeta.len

\* load_precache adopts the sidecar only if it describes this very stream and
\* starts at the cursor, and only if the files are long enough.
PrecacheMatches ==
  /\ party # 2
  /\ preMeta.ok
  /\ preMeta.gen = meta.gen
  /\ preMeta.total = meta.total
  /\ preMeta.start = meta.cursor
  /\ Len(preAlpha) >= preMeta.len
  /\ party = 0 => Len(preGamma) >= preMeta.len

ClearPrecacheFiles ==
  /\ preAlpha' = <<>>
  /\ preGamma' = <<>>
  /\ preMeta' = NoPreMeta

\* Between proofs the worker blocks in accept() until a user connects.
AwaitUser == pc = "down" /\ UNCHANGED vars

Load ==
  /\ pc = "down"
  /\ LoadSucceeds
  /\ \E n \in Budgets : meta.cursor + n <= MaxItems
  /\ pc' = "loaded"
  /\ src' = [gen |-> meta.gen, total |-> meta.total, cursor |-> meta.cursor,
             mode |-> IF party = 2 THEN "p2"
                      ELSE IF PrecacheMatches THEN "precache" ELSE "none",
             start |-> IF PrecacheMatches THEN preMeta.start ELSE 0,
             len |-> IF PrecacheMatches THEN preMeta.len ELSE 0,
             path |-> TRUE]
  /\ IF party = 2 \/ PrecacheMatches
       THEN UNCHANGED <<preAlpha, preGamma, preMeta>>
       ELSE ClearPrecacheFiles
  /\ UNCHANGED <<party, req, saving, saveOf, meta, others, alpha2, gens, faults, history>>

LoadFails ==
  /\ pc = "down"
  /\ ~LoadSucceeds
  /\ pc' = "fresh"
  /\ UNCHANGED <<party, src, req, saving, saveOf, disk, gens, faults, history>>

-----------------------------------------------------------------------------
(* preprocess_pool: P2 first truncates its file to the new size, then       *)
(* receives the shares into it; the headers are only written by the save at *)
(* the end.  The pool is saved twice (by preprocess_pool_base and again by  *)
(* preprocess_pool).                                                        *)

FreshCreate(n) ==
  /\ pc = "fresh"
  /\ n <= MaxItems
  /\ gens' = gens + 1
  /\ pc' = "recvFresh"
  /\ req' = [NoReq EXCEPT !.len = n]
  /\ alpha2' = IF party = 2 THEN Zeros(n) ELSE alpha2
  /\ out' = NoOut /\ used' = UsedSoFar /\ scarred' = scarred
  /\ UNCHANGED <<party, src, saving, saveOf, meta, others, preAlpha, preGamma, preMeta,
                 faults>>

FreshReceive ==
  /\ pc = "recvFresh"
  /\ pc' = "save"
  /\ src' = [NoSrc EXCEPT !.gen = gens, !.total = req.len,
                          !.mode = IF party = 2 THEN "p2" ELSE "none"]
  /\ alpha2' = IF party = 2 THEN WriteAt(alpha2, 0, Items(gens, 0, req.len)) ELSE alpha2
  /\ req' = NoReq
  /\ saving' = StartSave
  /\ saveOf' = "first"
  /\ UNCHANGED <<party, meta, others, preAlpha, preGamma, preMeta, gens, faults, history>>

-----------------------------------------------------------------------------
(* extend_pool_batched for a deficit n: P2 grows the file and writes what   *)
(* it receives behind the old end of the FILE; P0 sent items total,         *)
(* total+1, ... of the stream.  Then total is bumped.                       *)

ExtendBegin(n) ==
  /\ pc = "loaded"
  /\ remaining < n
  /\ src.cursor + n <= MaxItems
  /\ pc' = "recvExt"
  /\ req' = [base |-> Len(alpha2), len |-> n - remaining, cached |-> 0]
  /\ IF party = 2
       THEN alpha2' = Grown(alpha2, n - remaining)
       ELSE alpha2' = alpha2
  /\ UNCHANGED <<party, src, saving, saveOf, meta, others, preAlpha, preGamma, preMeta,
                 gens, faults, history>>

ExtendApply ==
  /\ pc = "recvExt"
  /\ pc' = "save"
  /\ IF party = 2
       THEN /\ alpha2' = WriteAt(alpha2, req.base, Items(src.gen, src.total, req.len))
            /\ src' = [src EXCEPT !.total = @ + req.len]
            /\ UNCHANGED <<preAlpha, preGamma, preMeta>>
       ELSE /\ src' = [src EXCEPT !.total = @ + req.len, !.mode = "none",
                                  !.start = 0, !.len = 0]
            /\ ClearPrecacheFiles
            /\ UNCHANGED alpha2
  /\ req' = NoReq
  /\ saving' = StartSave
  /\ saveOf' = "extend"
  /\ UNCHANGED <<party, meta, others, gens, faults, history>>

\* Nothing to add here; the pool is saved nevertheless if another source was
\* extended.
NoExtend(n) ==
  /\ pc = "loaded"
  /\ n <= remaining
  /\ pc' = "ready"
  /\ UNCHANGED <<party, src, req, saving, saveOf, disk, gens, faults, history>>

ExtendOthers(n) ==
  /\ pc = "loaded"
  /\ n <= remaining
  /\ pc' = "save"
  /\ saving' = StartSave
  /\ saveOf' = "extend"
  /\ UNCHANGED <<party, src, req, disk, gens, faults, history>>

-----------------------------------------------------------------------------
(* PreprocessingPool::save writes the headers of all sources in parallel;   *)
(* each is truncated, then written.  This source is "self"; the data file   *)
(* is already in place and is not copied.                                   *)

SaveTruncate(f) ==
  /\ pc = "save"
  /\ saving[f] = "todo"
  /\ saving' = [saving EXCEPT ![f] = "torn"]
  /\ IF f = "self" THEN meta' = NoMeta /\ others' = others
                   ELSE others' = FALSE /\ meta' = meta
  /\ UNCHANGED <<party, pc, src, req, saveOf, alpha2, preAlpha, preGamma, preMeta, gens,
                 faults, history>>

SaveWrite(f) ==
  /\ pc = "save"
  /\ saving[f] = "torn"
  /\ saving' = [saving EXCEPT ![f] = "done"]
  /\ IF f = "self"
       THEN /\ meta' = [ok |-> TRUE, gen |-> src.gen, total |-> src.total,
                        cursor |-> src.cursor]
            /\ src' = [src EXCEPT !.path = TRUE]
            /\ others' = others
            /\ scarred' = (scarred /\ saveOf # "first")
       ELSE others' = TRUE /\ UNCHANGED <<meta, src, scarred>>
  /\ UNCHANGED <<party, pc, req, saveOf, alpha2, preAlpha, preGamma, preMeta, gens, faults,
                 out, used>>

\* A header write fails (disk full): the header stays unreadable.
SaveError(f) ==
  /\ pc = "save"
  /\ saving[f] = "torn"
  /\ faults < MaxFaults
  /\ faults' = faults + 1
  /\ saving' = [saving EXCEPT ![f] = "failed"]
  /\ UNCHANGED <<party, pc, src, req, saveOf, disk, gens, history>>

\* All headers are joined.  After a fresh generation an error ends the
\* process (the `?`, see SaveAborts); after an extension it is ignored (the
\* `.ok()`) and the proof goes on with an unreadable header.
SaveJoined == \A f \in DOMAIN saving : saving[f] \in {"done", "failed"}
SaveFailed == \E f \in DOMAIN saving : saving[f] = "failed"

SaveAgain ==
  /\ pc = "save"
  /\ SaveJoined /\ ~SaveFailed
  /\ saveOf = "first"
  /\ saveOf' = "second"
  /\ saving' = StartSave
  /\ UNCHANGED <<party, pc, src, req, disk, gens, faults, history>>

SaveEnd ==
  /\ pc = "save"
  /\ SaveJoined
  /\ saveOf = "extend" \/ (saveOf = "second" /\ ~SaveFailed)
  /\ saveOf' = "none"
  /\ saving' = IdleSave
  /\ pc' = "ready"
  /\ UNCHANGED <<party, src, req, disk, gens, faults, history>>

-----------------------------------------------------------------------------
(* prepare_precache.  The worker skips it unless EDABITS_PRECACHE_T_LOG2 is *)
(* set; a request beyond what remains is an error (see PrecacheTooLong).    *)

PrecacheSkip ==
  /\ pc = "ready"
  /\ pc' = "prove"
  /\ UNCHANGED <<party, src, req, saving, saveOf, disk, gens, faults, history>>

PrecacheClear(r) ==
  /\ pc = "ready"
  /\ r <= remaining
  /\ party = 2 \/ r = 0
  /\ pc' = "prove"
  /\ IF party = 2
       THEN UNCHANGED <<src, preAlpha, preGamma, preMeta>>
       ELSE /\ src' = [src EXCEPT !.mode = "none", !.start = 0, !.len = 0]
            /\ ClearPrecacheFiles
  /\ UNCHANGED <<party, req, saving, saveOf, meta, others, alpha2, gens, faults, history>>

HasMatchingPrecache(r) ==
  /\ src.mode = "precache"
  /\ src.start = src.cursor
  /\ r <= src.len
  /\ r <= Len(preAlpha)
  /\ party = 0 => r <= Len(preGamma)

PrecacheHit(r) ==
  /\ pc = "ready"
  /\ party # 2 /\ 0 < r /\ r <= remaining
  /\ HasMatchingPrecache(r)
  /\ pc' = "prove"
  /\ UNCHANGED <<party, src, req, saving, saveOf, disk, gens, faults, history>>

PrecacheCreate(r) ==
  /\ pc = "ready"
  /\ party # 2 /\ 0 < r /\ r <= remaining
  /\ ~HasMatchingPrecache(r)
  /\ pc' = "preAlpha"
  /\ req' = [base |-> src.cursor, len |-> r, cached |-> 0]
  /\ preAlpha' = Zeros(r)
  /\ preGamma' = IF party = 0 THEN Zeros(r) ELSE <<>>
  /\ UNCHANGED <<party, src, saving, saveOf, meta, others, alpha2, preMeta, gens, faults,
                 history>>

PrecacheAlpha ==
  /\ pc = "preAlpha"
  /\ preAlpha' = WriteAt(preAlpha, 0, Items(src.gen, req.base, req.len))
  /\ pc' = IF party = 0 THEN "preGamma" ELSE "preTruncate"
  /\ UNCHANGED <<party, src, req, saving, saveOf, meta, others, alpha2, preGamma, preMeta,
                 gens, faults, history>>

PrecacheGamma ==
  /\ pc = "preGamma"
  /\ preGamma' = WriteAt(preGamma, 0, Items(src.gen, req.base, req.len))
  /\ pc' = "preTruncate"
  /\ UNCHANGED <<party, src, req, saving, saveOf, meta, others, alpha2, preAlpha, preMeta,
                 gens, faults, history>>

PrecacheTruncate ==
  /\ pc = "preTruncate"
  /\ preMeta' = NoPreMeta
  /\ pc' = "preWrite"
  /\ UNCHANGED <<party, src, req, saving, saveOf, meta, others, alpha2, preAlpha, preGamma,
                 gens, faults, history>>

PrecacheWrite ==
  /\ pc = "preWrite"
  /\ preMeta' = [ok |-> TRUE, gen |-> src.gen, total |-> src.total,
                 start |-> req.base, len |-> req.len]
  /\ src' = [src EXCEPT !.mode = "precache", !.start = req.base, !.len = req.len]
  /\ req' = NoReq
  /\ pc' = "prove"
  /\ UNCHANGED <<party, saving, saveOf, meta, others, alpha2, preAlpha, preGamma, gens,
                 faults, history>>

-----------------------------------------------------------------------------
(* Consumption *)

\* Fault: the upper end of the window is not tested.
CachedLenUnbounded(base, n) ==
  IF src.mode = "precache" /\ src.start <= base
  THEN MinOf(src.start + src.len - base, n)
  ELSE 0

\* How many of the n items from base on lie in the precache window, as
\* fill_precache_into and reserve_range compute it.
CachedLen(base, n) ==
  IF src.mode = "precache" /\ src.start <= base /\ base < src.start + src.len
  THEN MinOf(src.start + src.len - base, n)
  ELSE 0

\* The cells of items base .. base+n-1 read from a file whose first cell is
\* item first.
ReadRange(f, first, base, n) ==
  {<<base + i, f[base - first + i + 1]>> : i \in 0 .. n - 1}

Regenerated(base, n) == {<<base + i, <<src.gen, base + i>>>> : i \in 0 .. n - 1}

\* What a range of n items from base on, the first `cached` of them stored,
\* delivers: pairs <<position, cell>>.
Delivered(base, n, cached) ==
  IF party = 2
  THEN ReadRange(alpha2, 0, base, n)
  ELSE ReadRange(preAlpha, src.start, base, cached)
       \cup (IF party = 0 THEN ReadRange(preGamma, src.start, base, cached) ELSE {})
       \cup Regenerated(base + cached, n - cached)

\* A new hand-out takes the place of the previous one.
HandOut(items) ==
  /\ out' = [gen |-> src.gen, items |-> items, complete |-> FALSE]
  /\ used' = UsedSoFar
  /\ scarred' = scarred

ConsumeAlpha(base, n, cached) ==
  IF party = 2
  THEN alpha2' = Consumed(alpha2, base, base + n) /\ preAlpha' = preAlpha
  ELSE /\ preAlpha' = IF cached > 0
                      THEN Consumed(preAlpha, base - src.start, base - src.start + cached)
                      ELSE preAlpha
       /\ alpha2' = alpha2

AfterAlpha(cached) == IF party = 0 /\ cached > 0 THEN "gamma" ELSE "persist"

\* take_batch_into: read and consume the stored part, regenerate the rest.
Take(n) ==
  /\ pc = "prove"
  /\ 0 < n /\ n <= remaining
  /\ LET cached == CachedLen(src.cursor, n) IN
       /\ req' = [base |-> src.cursor, len |-> n, cached |-> cached]
       /\ HandOut(Delivered(src.cursor, n, cached))
       /\ ConsumeAlpha(src.cursor, n, cached)
       /\ pc' = AfterAlpha(cached)
  /\ UNCHANGED <<party, src, saving, saveOf, meta, others, preGamma, preMeta, gens, faults>>

\* reserve_range: nothing moves, the range and its cached prefix are noted.
Reserve(n) ==
  /\ pc = "prove"
  /\ 0 < n /\ n <= remaining
  /\ req' = [base |-> src.cursor, len |-> n, cached |-> CachedLen(src.cursor, n)]
  /\ pc' = "reserved"
  /\ UNCHANGED <<party, src, saving, saveOf, disk, gens, faults, history>>

\* The views par_chunks_preproc hands to the forks for chunk size c.
Views(c) ==
  {[start |-> req.base + i * c, len |-> MinOf(c, req.len - i * c)]
     : i \in {j \in 0 .. req.len - 1 : j * c < req.len}}

\* fill_into_par_safe: the number of items a view expects in the store.  The
\* subtraction is done in usize.
ViewCached(v) ==
  CASE party = 2 -> MinOf((req.base + req.len - v.start) % USize, v.len)
    [] party # 2 /\ src.mode = "precache" /\ src.len > 0 /\ src.start <= v.start ->
         MinOf((src.start + src.len - v.start) % USize, v.len)
    [] OTHER -> 0

\* The view can be filled: what it expects in the store can be read there,
\* and P2 has nothing to regenerate.
ViewFills(v) ==
  LET cached == ViewCached(v)
      from == v.start - src.start
  IN  IF party = 2
      THEN cached = v.len /\ v.start + cached <= Len(alpha2)
      ELSE cached > 0 => /\ req.cached > 0
                         /\ from + cached <= Len(preAlpha)
                         /\ party = 0 => from + cached <= Len(preGamma)

\* All forks have filled their views.  Filling writes nothing, so the order
\* in which the forks run is immaterial.
Fill(c) ==
  /\ pc = "reserved"
  /\ \A v \in Views(c) : ViewFills(v)
  /\ HandOut(UNION {Delivered(v.start, v.len, ViewCached(v)) : v \in Views(c)})
  /\ pc' = "filled"
  /\ UNCHANGED <<party, src, req, saving, saveOf, disk, gens, faults>>

\* finalize_reserved_range, called by finalize_success.
Finalize ==
  /\ pc = "filled"
  /\ src' = [src EXCEPT !.cursor = req.base + req.len]
  /\ ConsumeAlpha(req.base, req.len, req.cached)
  /\ pc' = AfterAlpha(req.cached)
  /\ UNCHANGED <<party, req, saving, saveOf, meta, others, preGamma, preMeta, gens, faults,
                 history>>

ConsumeGamma ==
  /\ pc = "gamma"
  /\ preGamma' = Consumed(preGamma, req.base - src.start,
                          req.base - src.start + req.cached)
  /\ pc' = "persist"
  /\ UNCHANGED <<party, src, req, saving, saveOf, meta, others, alpha2, preAlpha, preMeta,
                 gens, faults, history>>

\* Fault: the cursor is not written back.
Unpatched(c) == meta

\* update_cursor patches the cursor inside the header.  Its errors are
\* ignored; patching an unreadable header leaves it unreadable.
Patched(c) == IF src.path /\ meta.ok THEN [meta EXCEPT !.cursor = c] ELSE meta

\* The end of a take or of a finalisation: cursor and header are advanced.
PersistCursor ==
  /\ pc = "persist"
  /\ src' = [src EXCEPT !.cursor = req.base + req.len]
  /\ meta' = Patched(req.base + req.len)
  /\ out' = [out EXCEPT !.complete = TRUE]
  /\ req' = NoReq
  /\ pc' = "prove"
  /\ UNCHANGED <<party, saving, saveOf, others, alpha2, preAlpha, preGamma, preMeta, gens,
                 faults, used, scarred>>

-----------------------------------------------------------------------------
(* The end of an iteration, errors and kills *)

\* An interruption here leaves a durable state that misdescribes the files:
\*  - items punched out while the header still counts them as unused;
\*  - P2's file longer than the header's total, or already truncated for a
\*    new generation, under a readable old header;
\*  - precache files zeroed under a readable old sidecar.
AtRisk ==
  \/ pc \in {"gamma", "persist"} /\ (party = 2 \/ req.cached > 0)
  \/ pc \in {"recvExt", "recvFresh"} /\ party = 2 /\ meta.ok
  \/ pc = "save" /\ party = 2 /\ meta.ok
       /\ <<meta.gen, meta.total>> # <<src.gen, src.total>>
  \/ pc \in {"preAlpha", "preGamma"} /\ preMeta.ok

Down ==
  /\ pc' = "down"
  /\ src' = NoSrc
  /\ req' = NoReq
  /\ saving' = IdleSave
  /\ saveOf' = "none"

\* Drop persists the cursor once more.
DropSrc ==
  /\ Down
  /\ meta' = IF pc \in HasSrc THEN Patched(src.cursor) ELSE meta
  /\ scarred' = (scarred \/ AtRisk)
  /\ UNCHANGED <<party, others, alpha2, preAlpha, preGamma, preMeta, gens, out, used>>

\* The proof is done and the pool goes out of scope.
Finish == pc = "prove" /\ DropSrc /\ UNCHANGED faults

PrecacheTooLong(r) == pc = "ready" /\ remaining < r /\ DropSrc /\ UNCHANGED faults

SaveAborts ==
  pc = "save" /\ SaveJoined /\ SaveFailed /\ saveOf # "extend" /\ DropSrc /\ UNCHANGED faults

FillFails(c) ==
  pc = "reserved" /\ (\E v \in Views(c) : ~ViewFills(v)) /\ DropSrc /\ UNCHANGED faults

\* Any other error (a peer is gone, a write fails) ends the process: `?` up
\* to main, and the objects on the way are dropped.
Fails ==
  /\ pc \in {"fresh", "recvFresh", "loaded", "recvExt", "ready", "preAlpha",
             "preGamma", "preTruncate", "preWrite", "prove", "reserved", "filled"}
  /\ faults < MaxFaults
  /\ faults' = faults + 1
  /\ DropSrc

\* The process is killed: nothing is dropped.
Kill ==
  /\ pc # "down"
  /\ faults < MaxFaults
  /\ faults' = faults + 1
  /\ Down
  /\ scarred' = (scarred \/ AtRisk)
  /\ UNCHANGED <<party, disk, gens, out, used>>

-----------------------------------------------------------------------------

Next ==
  \/ AwaitUser \/ Load \/ LoadFails
  \/ \E n \in Budgets : FreshCreate(n) \/ ExtendBegin(n) \/ NoExtend(n) \/ ExtendOthers(n)
  \/ FreshReceive \/ ExtendApply
  \/ \E f \in {"self", "others"} : SaveTruncate(f) \/ SaveWrite(f) \/ SaveError(f)
  \/ SaveAgain \/ SaveEnd \/ SaveAborts
  \/ PrecacheSkip
  \/ \E r \in Requests :
       PrecacheClear(r) \/ PrecacheHit(r) \/ PrecacheCreate(r) \/ PrecacheTooLong(r)
  \/ PrecacheAlpha \/ PrecacheGamma \/ PrecacheTruncate \/ PrecacheWrite
  \/ \E n \in 1..MaxItems : Take(n) \/ Reserve(n)
  \/ \E c \in 1..MaxItems : Fill(c) \/ FillFails(c)
  \/ Finalize \/ ConsumeGamma \/ PersistCursor
  \/ Finish \/ Fails \/ Kill

Spec == Init /\ [][Next]_vars

-----------------------------------------------------------------------------
(* Properties *)

Source == [gen : Nat, total : Nat, cursor : Nat, mode : {"none", "p2", "precache"},
           start : Nat, len : Nat, path : BOOLEAN]
Request == [base : Nat, len : Nat, cached : Nat]
Header == [ok : BOOLEAN, gen : Nat, total : Nat, cursor : Nat]
Sidecar == [ok : BOOLEAN, gen : Nat, total : Nat, start : Nat, len : Nat]
Progress == [{"self", "others"} -> {"todo", "torn", "done", "failed"}]
Handout == [gen : Nat, items : SUBSET (Nat \X Cell), complete : BOOLEAN]

\* Types of all variables.
TypeOK ==
  /\ party \in Parties
  /\ pc \in Stages
  /\ src \in Source
  /\ req \in Request
  /\ saving \in Progress
  /\ saveOf \in {"none", "first", "second", "extend"}
  /\ meta \in Header
  /\ others \in BOOLEAN
  /\ alpha2 \in Seq(Cell)
  /\ preAlpha \in Seq(Cell)
  /\ preGamma \in Seq(Cell)
  /\ preMeta \in Sidecar
  /\ gens \in Nat
  /\ faults \in Nat
  /\ out \in Handout
  /\ used \subseteq Cell
  /\ scarred \in BOOLEAN

\* take_batch, reserve_range, persist_cursor, Drop: no item whose hand-out was
\* completed is ever handed out again, whatever kills, errors and failed
\* writes happen in between.
OneTimeUse == \A x \in out.items : <<out.gen, x[1]>> \notin used

\* Unless an interruption has hit one of the windows of AtRisk since the header
\* of this generation was first written, every item handed out, whether read from P2's file, from
\* the precache or regenerated, is the item at its position.
HandoutIntact == ~scarred => \A x \in out.items : x[2] = <<out.gen, x[1]>>

\* Whatever interruptions the directory has been through, a source that load
\* accepted or preprocess built covers every read the code will do: P2's file
\* holds `total` items and a precache window lies within the files (the reads
\* panic otherwise).
ReadsInRange ==
  pc \in HasSrc =>
    /\ src.cursor <= src.total
    /\ party = 2 => src.total <= Len(alpha2)
    /\ src.mode = "precache" /\ pc \notin {"preAlpha", "preGamma", "preTruncate", "preWrite"} =>
         /\ src.start <= src.cursor
         /\ src.len <= Len(preAlpha)
         /\ party = 0 => src.len <= Len(preGamma)

\* "consumed elements are zeroed on disk and the cursor is persisted
\* crash-safely": no zeroed item is handed out as a share.
HandoutNotZeroed == \A x \in out.items : x[2] # Zero

\* "appended to existing data (cursor preserved)": an item that is handed out
\* is never another item of the stream.
HandoutOwnItem == \A x \in out.items : x[2] \in {Zero, <<out.gen, x[1]>>}

\* "P0/P1 regenerate gamma and alpha values on demand": a reserved range can
\* be filled whatever the chunk size of its views.
ViewAlwaysFills ==
  pc = "reserved" => \A c \in 1..MaxItems : \A v \in Views(c) : ViewFills(v)
=============================================================================
