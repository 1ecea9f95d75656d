---------------------------- MODULE MCProveDag ----------------------------
(***************************************************************************)
(* One proof of eight cycles: RAM addresses of two uneven chunks, a bytecode *)
(* of two, lookups of four, and advice of two sizes.                        *)
(***************************************************************************)
EXTENDS ProveDag

AdviceSizes == [untrusted |-> 1, trusted |-> 2]
====
