--------------------------- MODULE MCScreenStream ---------------------------
(* ScreenStream on a small instance: two pictures the hash tells apart. *)
EXTENDS ScreenStream

CONSTANTS p1, p2

MCHashOf == [p \in Picture |-> IF p = p1 THEN 1 ELSE 2]
=============================================================================
