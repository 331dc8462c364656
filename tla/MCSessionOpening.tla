-------------------------- MODULE MCSessionOpening --------------------------
(* Instances of SessionOpening for TLC: each account owns a host, and every  *)
(* code belongs to the first.                                                *)
EXTENDS SessionOpening

CONSTANTS a1, a2, h1

OneHostEach   == [h \in Host |-> IF h = h1 THEN a1 ELSE a2]
IssuedByFirst == [k \in Code |-> a1]

=============================================================================
