--------------------------- MODULE DirectUpgrade ---------------------------
(***************************************************************************)
(* How the two ends of a session that runs over the relay try to move it   *)
(* to a direct link: each end has a loop that carries the session          *)
(* (run_host_relay and run_host_direct, run_controller_relay and           *)
(* run_controller_direct) and a punch thread (probe_and_upgrade_direct,    *)
(* upgrade_controller_direct) that exchanges addresses through the         *)
(* signalling service, probes them, shakes hands over UDP and puts the     *)
(* link into a channel the loop looks at.                                  *)
(*                                                                         *)
(* An address of an end is a path to it: a packet sent on a path arrives   *)
(* from that path, is lost, overtaken or, being sent again and again,      *)
(* repeated.  The relay ends both connections of a pair when one of them   *)
(* goes (RelayPairing).                                                    *)
(***************************************************************************)
EXTENDS FiniteSets

CONSTANTS
  Path,     \* the pairs of addresses on which the ends might meet
  NoPath

ASSUME PathAssumption == NoPath \notin Path

End == {"controller", "host"}
Other(e) == CHOOSE d \in End : d # e

VARIABLES
  room,      \* the signalling service's Room: each end's Offer, of this punch
             \* thread's socket or left by an earlier one
  punch,     \* how far each punch thread is
  peers,     \* the candidates it was given
  chosen,    \* PunchOutcome.peer
  net,       \* the UDP packets on their way
  carrier,   \* what carries the session at each end
  relay,     \* why the relay's pump has ended, if it has
  report     \* the last event each end posted to /direct

vars == <<room, punch, peers, chosen, net, carrier, relay, report>>

-----------------------------------------------------------------------------
Offer  == {"none", "stale", "fresh"}
Packet == [kind: {"punch", "hello"}, to: End, path: Path]

Punch(e, p) == [kind |-> "punch", to |-> e, path |-> p]
Hello(e, p) == [kind |-> "hello", to |-> e, path |-> p]

Init ==
  /\ room \in [End -> {"none", "stale"}]
  /\ punch = [e \in End |-> "joining"]
  /\ peers = [e \in End |-> "none"]
  /\ chosen = [e \in End |-> NoPath]
  /\ net = {}
  /\ carrier = [e \in End |-> "relay"]
  /\ relay = "up"
  /\ report = [e \in End |-> "none"]

At(e, phase) == punch[e] = phase
Moves(e, phase) == punch' = [punch EXCEPT ![e] = phase]

\* A call to /direct either arrives or is lost; nobody looks at the answer.
Posts(e, event) == report' \in {report, [report EXCEPT ![e] = event]}

-----------------------------------------------------------------------------
(* Signalling *)

\* join_once at one end and join at the service: the end's own offer replaces
\* what was there, and the answer is the other's, if it has one.
Join(e) ==
  /\ At(e, "joining")
  /\ room' = [room EXCEPT ![e] = "fresh"]
  /\ peers' = [peers EXCEPT ![e] = room[Other(e)]]
  /\ Moves(e, IF room[Other(e)] = "none" THEN "joining" ELSE "probing")
  /\ UNCHANGED <<chosen, net, carrier, relay, report>>

\* exchange_candidates after JOIN_ROUNDS rounds without a peer, and probe_direct
\* on no candidates: "no_peer".
NoPeer(e) ==
  /\ At(e, "joining") /\ peers[e] = "none"
  /\ Moves(e, "failed")
  /\ Posts(e, "punch")
  /\ UNCHANGED <<room, peers, chosen, net, carrier, relay>>

\* No socket, no signalling service, no valid ticket: nothing is posted.
JoinFails(e) ==
  /\ At(e, "joining")
  /\ Moves(e, "failed")
  /\ UNCHANGED <<room, peers, chosen, net, carrier, relay, report>>

\* room_fresh and the filter on seen_at: an offer ages out.
OfferExpires(e) ==
  /\ room[e] # "none"
  /\ room' = [room EXCEPT ![e] = "none"]
  /\ UNCHANGED <<punch, peers, chosen, net, carrier, relay, report>>

-----------------------------------------------------------------------------
(* probe_direct *)

\* A round of probes; a stale candidate has nobody behind it.
ProbeSends(e) ==
  /\ At(e, "probing") /\ peers[e] = "fresh"
  /\ net' = net \cup {Punch(Other(e), p) : p \in Path}
  /\ UNCHANGED <<room, punch, peers, chosen, carrier, relay, report>>

Read(m) == net \ {m}

\* A probe is answered on the path it came from, whoever's candidates were
\* known; anything else that arrives is read and dropped.
ProbeReads(e) ==
  /\ At(e, "probing")
  /\ \E m \in net :
       /\ m.to = e
       /\ IF m.kind = "punch"
          THEN /\ chosen' = [chosen EXCEPT ![e] = m.path]
               /\ Moves(e, "shaking")
               /\ net' = Read(m) \cup {Punch(Other(e), m.path)}
          ELSE net' = Read(m) /\ UNCHANGED <<chosen, punch>>
  /\ UNCHANGED <<room, peers, carrier, relay, report>>

\* PROBE_WAIT is over, or the socket reports an error.
ProbeFails(e) ==
  /\ At(e, "probing")
  /\ Moves(e, "failed")
  /\ Posts(e, "punch")
  /\ UNCHANGED <<room, peers, chosen, net, carrier, relay>>

-----------------------------------------------------------------------------
(* DirectLink::handshake *)

ShakeSends(e) ==
  /\ At(e, "shaking")
  /\ net' = net \cup {Hello(Other(e), chosen[e])}
  /\ UNCHANGED <<room, punch, peers, chosen, carrier, relay, report>>

ExpectedFromAnywhere(e, m) == m.kind = "hello"

\* The first hello from the chosen peer ends the handshake, after one more
\* hello of its own.
Expected(e, m) == m.kind = "hello" /\ m.path = chosen[e]

ShakeReads(e) ==
  /\ At(e, "shaking")
  /\ \E m \in net :
       /\ m.to = e
       /\ IF Expected(e, m)
          THEN /\ Moves(e, "linked")
               /\ net' = Read(m) \cup {Hello(Other(e), chosen[e])}
          ELSE net' = Read(m) /\ UNCHANGED punch
  /\ UNCHANGED <<room, peers, chosen, carrier, relay, report>>

\* HS_WAIT is over, or the socket reports an error: at once, so the other end may
\* still be probing.
ShakeFails(e) ==
  /\ At(e, "shaking")
  /\ Moves(e, "failed")
  /\ Posts(e, "punch")
  /\ UNCHANGED <<room, peers, chosen, net, carrier, relay>>

HandOverAsStart(e) ==
  /\ At(e, "linked")
  /\ Moves(e, "start")
  /\ Posts(e, "start")
  /\ UNCHANGED <<room, peers, chosen, net, carrier, relay>>

\* The punch thread posts "start" and hands the link over; a loop that has
\* ended takes its receiver with it, and the link is dropped.
HandOver(e) ==
  /\ At(e, "linked")
  /\ Moves(e, IF carrier[e] = "relay" THEN "sent" ELSE "dropped")
  /\ Posts(e, "start")
  /\ UNCHANGED <<room, peers, chosen, net, carrier, relay>>

-----------------------------------------------------------------------------
(* The loops *)

\* The loop finds the link, drops the relay session and goes on over the link.
SwitchToDirect(e) ==
  /\ carrier[e] = "relay" /\ At(e, "sent")
  /\ carrier' = [carrier EXCEPT ![e] = "direct"]
  /\ relay' = IF relay = "up" THEN "given up" ELSE relay
  /\ UNCHANGED <<room, punch, peers, chosen, net, report>>

RelayLostOnlyWhenBroken(e) ==
  /\ carrier[e] = "relay" /\ relay = "broken"
  /\ carrier' = [carrier EXCEPT ![e] = "over"]
  /\ punch' = [punch EXCEPT ![e] = IF @ = "sent" THEN "dropped" ELSE @]
  /\ UNCHANGED <<room, peers, chosen, net, relay, report>>

\* The relay session can no longer be read or written.  A link that reaches
\* the channel after the loop looked is lost with it.
RelayLost(e) ==
  /\ carrier[e] = "relay" /\ relay # "up"
  /\ carrier' = [carrier EXCEPT ![e] = "over"]
  /\ punch' = [punch EXCEPT ![e] = IF @ = "sent" THEN "dropped" ELSE @]
  /\ UNCHANGED <<room, peers, chosen, net, relay, report>>

\* The relay or the network ends the session for its own reasons.
RelayBreaks ==
  /\ relay = "up"
  /\ relay' = "broken"
  /\ UNCHANGED <<room, punch, peers, chosen, net, carrier, report>>

\* The direct link cannot be used any more: the other end's socket is gone, or
\* a packet cannot be opened.
DirectLost(e) ==
  /\ carrier[e] = "direct"
  /\ carrier' = [carrier EXCEPT ![e] = "over"]
  /\ Posts(e, "stop")
  /\ UNCHANGED <<room, punch, peers, chosen, net, relay>>

Lose ==
  /\ \E m \in net : net' = net \ {m}
  /\ UNCHANGED <<room, punch, peers, chosen, carrier, relay, report>>

-----------------------------------------------------------------------------
PunchEnds(e) == NoPeer(e) \/ JoinFails(e) \/ ProbeFails(e) \/ ShakeFails(e) \/ HandOver(e)

Step(e) == \/ Join(e) \/ ProbeSends(e) \/ ProbeReads(e)
           \/ ShakeSends(e) \/ ShakeReads(e) \/ PunchEnds(e)
           \/ SwitchToDirect(e) \/ RelayLost(e)

Next == \/ RelayBreaks \/ Lose
        \/ \E e \in End : Step(e) \/ OfferExpires(e) \/ DirectLost(e)

\* The threads run, and the waits of probe_direct, handshake and
\* exchange_candidates end; nothing is assumed of the network.
Fairness == \A e \in End : /\ WF_vars(SwitchToDirect(e) \/ RelayLost(e))
                           /\ WF_vars(PunchEnds(e))

Spec == Init /\ [][Next]_vars /\ Fairness

-----------------------------------------------------------------------------
(* Properties *)

TypeOK ==
  /\ room \in [End -> Offer] /\ peers \in [End -> Offer]
  /\ punch \in [End -> {"joining", "probing", "shaking", "linked", "sent",
                        "dropped", "failed"}]
  /\ chosen \in [End -> Path \cup {NoPath}]
  /\ net \subseteq Packet
  /\ carrier \in [End -> {"relay", "direct", "over"}]
  /\ relay \in {"up", "given up", "broken"}
  /\ report \in [End -> {"none", "punch", "start", "stop"}]

\* The session moves as LinkHandover promises: an end never returns to the
\* relay, and none stays on a relay that the other has given up.
Handover == INSTANCE LinkHandover WITH End <- End, carrier <- carrier
MovesAsPromised == Handover!Spec

\* An end that holds a link has it to the address that the other end chose, and
\* shook hands with the other end and not with a probe of it: packets that arrive
\* late, on another path or in the probing phase never make the two hold links on
\* different paths.  The other may have no link: the last hello can be lost, and
\* its socket can fail while this end still probes.  Then its punch has "failed",
\* this end holds the link alone, and MovesAsPromised says how that ends.
Holds(e) == punch[e] \in {"linked", "sent", "dropped"}
LinksAgree ==
  \A e \in End : Holds(e) =>
    /\ chosen[e] \in Path /\ chosen[Other(e)] = chosen[e]
    /\ punch[Other(e)] \notin {"joining", "probing"}

=============================================================================
