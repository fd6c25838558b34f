------------------------------ MODULE MCService ------------------------------
(* Service for TLC: three connections, with the ids trans_create gives to   *)
(* them when they come one after the other (1, 2, 2), and when the first is *)
(* overtaken by the others (1, 2, 3).                                       *)
EXTENDS Service, TLC

CONSTANTS c1, c2, c3

Symmetry == Permutations(Keys)

(* A server that a SIGPIPE has ended does nothing more: one state. *)
View == IF end = "pipe" THEN <<end>> ELSE vars

MCIds == {c1 :> 1 @@ c2 :> 2 @@ c3 :> 2, c1 :> 1 @@ c2 :> 2 @@ c3 :> 3}
=============================================================================
