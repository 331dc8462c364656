---------------------------- MODULE LinkHandover ----------------------------
(***************************************************************************)
(* What the two ends of a remote session may count on while the session    *)
(* moves from the relay to a direct link: each end uses one carrier at a   *)
(* time, never comes back to one it has left, and is not left behind on a  *)
(* relay that the other end has given up.                                  *)
(***************************************************************************)
CONSTANT End

VARIABLE carrier    \* what carries the session at each end

Carrier == {"relay", "direct", "over"}

Init == carrier = [e \in End |-> "relay"]

Upgrade(e) == /\ carrier[e] = "relay"
              /\ carrier' = [carrier EXCEPT ![e] = "direct"]

Leave(e) == /\ carrier[e] # "over"
            /\ carrier' = [carrier EXCEPT ![e] = "over"]

Next == \E e \in End : Upgrade(e) \/ Leave(e)

\* An end that is alone on the relay.
LeftBehind(e) == /\ carrier[e] = "relay"
                 /\ \E d \in End : carrier[d] # "relay"

Follow(e) == LeftBehind(e) /\ (Upgrade(e) \/ Leave(e))

Spec == /\ Init /\ [][Next]_carrier
        /\ \A e \in End : WF_carrier(Follow(e))
=============================================================================
