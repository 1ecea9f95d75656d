-------------------------- MODULE MCPoolLifecycle --------------------------
(* Model-checking instances of PoolLifecycle. *)
EXTENDS PoolLifecycle

T(k, n) == [kind |-> k, n |-> n]

\* One proof that takes a little of several kinds and one that takes more edaBits.
MCPrograms ==
  {<<T("EdaBits", 1), T("DaBits", 1), T("RandOhvs", 1)>>,
   <<T("DaBits", 1), T("EdaBits", 2)>>}

\* The budget is a bound: twice the edaBits that the proofs take.
MCBudget(prog) ==
  [k \in Kinds |-> Total(Needs(prog, k)) * (IF k = "EdaBits" THEN 2 ELSE 1)]
=============================================================================
