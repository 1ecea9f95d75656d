----------------------------- MODULE MCSession -----------------------------
(* Thread pools and calls of the instances.                                  *)
EXTENDS Session

Threads211 == (0 :> 2) @@ (1 :> 1) @@ (2 :> 1)
Threads222 == [p \in Workers |-> 2]

Call(len, rounds, nested) == [len |-> len, rounds |-> rounds, nested |-> nested]

(* One call on the main thread, one with nested iterators on two forks, and   *)
(* one with two rounds on four forks, twice as many as there are threads.     *)
Calls == <<Call(1, 1, FALSE), Call(2, 1, TRUE), Call(7, 2, FALSE)>>

(* populate_operands_casts: nested iterators on four forks.                  *)
Casts == <<Call(4, 2, TRUE)>>
=============================================================================
