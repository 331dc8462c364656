----------------------------- MODULE Rendezvous -----------------------------
(***************************************************************************)
(* What the relay promises the two ends of a ticket, without its threads,  *)
(* table and channels: a side that comes meets the other side that waits,  *)
(* waits itself, or is turned away because its own side waits already; two *)
(* that met are served together and end together.                          *)
(***************************************************************************)
CONSTANTS Side, Ticket, Role, NoTicket, NoRole

VARIABLES
  stage,   \* how far each side is
  said,    \* the ticket it named and the role it has
  pairs    \* those that met: the one that waited, the one that came

parties == <<stage, said, pairs>>

Says(s, t, r) == said' = [said EXCEPT ![s] = [ticket |-> t, role |-> r]]

Init ==
  /\ stage = [s \in Side |-> "new"]
  /\ said = [s \in Side |-> [ticket |-> NoTicket, role |-> NoRole]]
  /\ pairs = {}

\* A connection that says nothing the relay understands.
Leave(s) ==
  /\ stage[s] = "new"
  /\ stage' = [stage EXCEPT ![s] = "gone"]
  /\ UNCHANGED <<said, pairs>>

Wait(s, t, r) ==
  /\ stage[s] = "new"
  /\ Says(s, t, r)
  /\ stage' = [stage EXCEPT ![s] = "waiting"]
  /\ UNCHANGED pairs

TurnAway(s, t, r) ==
  /\ stage[s] = "new"
  /\ \E w \in Side : stage[w] = "waiting" /\ said[w] = [ticket |-> t, role |-> r]
  /\ Says(s, t, r)
  /\ stage' = [stage EXCEPT ![s] = "gone"]
  /\ UNCHANGED pairs

Meet(w, s, t, r) ==
  /\ stage[s] = "new" /\ stage[w] = "waiting"
  /\ said[w].ticket = t /\ said[w].role # r
  /\ Says(s, t, r)
  /\ stage' = [stage EXCEPT ![w] = "met", ![s] = "met"]
  /\ pairs' = pairs \cup {<<w, s>>}

GiveUp(s) ==
  /\ stage[s] = "waiting"
  /\ stage' = [stage EXCEPT ![s] = "gone"]
  /\ UNCHANGED <<said, pairs>>

Serve(w, s) ==
  /\ <<w, s>> \in pairs /\ stage[w] = "met" /\ stage[s] = "met"
  /\ stage' = [stage EXCEPT ![w] = "served", ![s] = "served"]
  /\ UNCHANGED <<said, pairs>>

Part(w, s) ==
  /\ <<w, s>> \in pairs /\ stage[w] = stage[s] /\ stage[w] \in {"met", "served"}
  /\ stage' = [stage EXCEPT ![w] = "gone", ![s] = "gone"]
  /\ UNCHANGED <<said, pairs>>

Next ==
  \/ \E s \in Side : Leave(s) \/ GiveUp(s)
  \/ \E s \in Side, t \in Ticket, r \in Role : Wait(s, t, r) \/ TurnAway(s, t, r)
  \/ \E w, s \in Side, t \in Ticket, r \in Role : Meet(w, s, t, r)
  \/ \E w, s \in Side : Serve(w, s) \/ Part(w, s)

Spec == Init /\ [][Next]_parties

=============================================================================
