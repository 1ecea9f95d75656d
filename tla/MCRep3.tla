------------------------------- MODULE MCRep3 -------------------------------
(***************************************************************************)
(* The protocols on small fields and words.                                *)
(***************************************************************************)
EXTENDS Rep3Calls

\* well-spread values in place of the generators' output
MCDraw(i, t) == ((i * 131 + t * 37 + 17) * ((t % 97) * 13 + i * 5 + 3)) % 65521
=============================================================================
