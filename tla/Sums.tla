-------------------------------- MODULE Sums --------------------------------
(***************************************************************************)
(* Sums of sequences of numbers.                                           *)
(***************************************************************************)
EXTENDS Integers, Sequences

\* Partial(f)[n]: the sum of the first n elements of f
Partial(f) ==
  LET sum[n \in 0 .. Len(f)] == IF n = 0 THEN 0 ELSE sum[n - 1] + f[n]
  IN  sum

Total(f) == Partial(f)[Len(f)]
=============================================================================
