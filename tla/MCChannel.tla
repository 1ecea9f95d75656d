------------------------------ MODULE MCChannel ------------------------------
(* Two senders, one blocking and one async, and two receivers.  The messages *)
(* have sizes below, at and above the budgets, and one is empty.             *)
EXTENDS Channel

CONSTANTS s1, s2, r1, r2

MCScript == s1 :> <<0, 1>> @@ s2 :> <<3, 2>>

\* One receive more than there are messages, and one receive fewer.
MCWants == {r1 :> 3 @@ r2 :> 2, r1 :> 2 @@ r2 :> 1}
=============================================================================
