--------------------------- MODULE MCRelayTickets ---------------------------
(* Instances of RelayTickets for TLC: small sets and the symmetry between   *)
(* their members.                                                           *)
EXTENDS RelayTickets, TLC

CONSTANT h1

OneHost == [s \in Session |-> h1]
Ample == [g \in 1 .. GrantCount |-> 4]
Growing == [g \in 1 .. GrantCount |-> g]

Symmetry ==
  Permutations(Session) \cup Permutations(Worker) \cup Permutations(Pump)

=============================================================================
