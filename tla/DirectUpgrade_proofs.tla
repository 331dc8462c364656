----------------------- MODULE DirectUpgrade_proofs -------------------------
(* Proofs about DirectUpgrade, for any number of paths between the ends. *)
EXTENDS DirectUpgrade, TLAPS

\* An end that shakes hands, or ever did, has chosen a path for good.
Early(e) == punch[e] \in {"joining", "probing"}
PathChosen ==
  \A e \in End : Holds(e) \/ At(e, "shaking") => chosen[e] \in Path

\* A hello was sent by an end that has chosen, on the path it chose.
HellosMeant ==
  \A m \in net : m.kind = "hello" =>
    ~Early(Other(m.to)) /\ m.path = chosen[Other(m.to)]

IInv == TypeOK /\ LinksAgree /\ PathChosen /\ HellosMeant

LEMMA OtherEnd ==
  ASSUME NEW e \in End
  PROVE  /\ Other(e) \in End /\ Other(e) # e /\ Other(Other(e)) = e
         /\ End = {e, Other(e)}
BY DEF End, Other

LEMMA InvInit == Init => IInv
<1> SUFFICES ASSUME Init PROVE IInv
  OBVIOUS
<1>1. TypeOK
  BY DEF Init, TypeOK, Offer, Packet
<1>2. LinksAgree /\ PathChosen /\ HellosMeant
  BY DEF Init, LinksAgree, Holds, PathChosen, At, HellosMeant
<1>3. QED
  BY <1>1, <1>2 DEF IInv

\* A packet of an end that has a path to send it on.
LEMMA PacketType ==
  ASSUME NEW e \in End, NEW p \in Path
  PROVE  /\ Punch(e, p) \in Packet /\ Hello(e, p) \in Packet
         /\ Punch(e, p).kind # "hello"
         /\ Hello(e, p).to = e /\ Hello(e, p).path = p
BY DEF Punch, Hello, Packet

\* Steps after which every end is as far as before or further, that choose no
\* path, send no hello and let no end hold a link that did not.
Quiet ==
  /\ chosen' = chosen
  /\ \A m \in net' : m \in net \/ m.kind # "hello"
  /\ \A e \in End : /\ Early(e)' => Early(e)
                    /\ Holds(e)' => Holds(e)
                    /\ At(e, "shaking")' => At(e, "shaking")

LEMMA QuietInv ==
  ASSUME IInv, TypeOK', Quiet PROVE IInv'
<1>1. \A m \in net' : m.to \in End
  BY DEF TypeOK, Packet
<1>2. LinksAgree'
  BY OtherEnd DEF IInv, Quiet, LinksAgree, Early
<1>3. PathChosen'
  BY DEF IInv, Quiet, PathChosen
<1>4. HellosMeant'
  BY <1>1, OtherEnd DEF IInv, Quiet, HellosMeant
<1>5. QED
  BY <1>2, <1>3, <1>4 DEF IInv

\* The posts only touch the report.
LEMMA PostsType ==
  ASSUME TypeOK, NEW e \in End, NEW event \in {"punch", "start", "stop"}, Posts(e, event)
  PROVE  report' \in [End -> {"none", "punch", "start", "stop"}]
BY DEF TypeOK, Posts

\* Signalling, the ends of the waits, and the loops.
LEMMA QuietSteps ==
  ASSUME IInv, NEW e \in End,
         \/ Join(e) \/ OfferExpires(e) \/ PunchEnds(e) \/ ProbeSends(e)
         \/ SwitchToDirect(e) \/ RelayLost(e) \/ DirectLost(e)
  PROVE  TypeOK' /\ Quiet
<1> USE DEF IInv
<1>1. CASE Join(e)
  <2>1. room' \in [End -> Offer] /\ peers' \in [End -> Offer]
    BY <1>1, OtherEnd DEF Join, TypeOK, Offer
  <2>2. PICK phase \in {"joining", "probing"} : Moves(e, phase)
    BY <1>1 DEF Join
  <2>3. At(e, "joining") /\ UNCHANGED <<chosen, net, carrier, relay, report>>
    BY <1>1 DEF Join
  <2>4. QED
    BY <2>1, <2>2, <2>3 DEF Moves, At, TypeOK, Quiet, Early, Holds
<1>2. CASE OfferExpires(e)
  BY <1>2 DEF OfferExpires, TypeOK, Offer, Quiet, Early, Holds, At
<1>3. CASE PunchEnds(e)
  <2>1. PICK phase \in {"failed", "sent", "dropped"} :
          /\ Moves(e, phase)
          /\ phase # "failed" => At(e, "linked")
    BY <1>3 DEF PunchEnds, NoPeer, JoinFails, ProbeFails, ShakeFails, HandOver
  <2>2. report' \in [End -> {"none", "punch", "start", "stop"}]
    BY <1>3, PostsType
    DEF PunchEnds, NoPeer, JoinFails, ProbeFails, ShakeFails, HandOver, TypeOK
  <2>3. UNCHANGED <<room, peers, chosen, net, carrier, relay>>
    BY <1>3 DEF PunchEnds, NoPeer, JoinFails, ProbeFails, ShakeFails, HandOver
  <2>4. TypeOK'
    BY <2>1, <2>2, <2>3 DEF TypeOK, Moves
  <2>5. Quiet
    BY <2>1, <2>3 DEF Quiet, Moves, At, Early, Holds, TypeOK
  <2>6. QED
    BY <2>4, <2>5
<1>4. CASE ProbeSends(e)
  <2>1. /\ UNCHANGED <<room, punch, peers, chosen, carrier, relay, report>>
        /\ \A m \in net' : m \in net \/ \E p \in Path : m = Punch(Other(e), p)
    BY <1>4 DEF ProbeSends
  <2>2. \A m \in net' : m \in Packet /\ (m \in net \/ m.kind # "hello")
    <3>1. Other(e) \in End
      BY OtherEnd
    <3>2. \A p \in Path : /\ Punch(Other(e), p) \in Packet
                          /\ Punch(Other(e), p).kind # "hello"
      BY <3>1, PacketType
    <3>3. QED
      BY <2>1, <3>2 DEF TypeOK
  <2>3. QED
    BY <2>1, <2>2 DEF TypeOK, Quiet, Early, Holds, At
<1>5. CASE SwitchToDirect(e)
  <2>1. UNCHANGED <<room, punch, peers, chosen, net, report>>
        /\ carrier' = [carrier EXCEPT ![e] = "direct"]
        /\ relay' \in {"given up", relay}
    BY <1>5 DEF SwitchToDirect
  <2>2. QED
    BY <2>1 DEF TypeOK, Quiet, Early, Holds, At
<1>6. CASE RelayLost(e)
  <2>1. UNCHANGED <<room, peers, chosen, net, relay, report>>
        /\ carrier' = [carrier EXCEPT ![e] = "over"]
        /\ punch' = [punch EXCEPT ![e] = IF @ = "sent" THEN "dropped" ELSE @]
    BY <1>6 DEF RelayLost
  <2>2. TypeOK'
    BY <2>1 DEF TypeOK
  <2>3. Quiet
    BY <2>1 DEF TypeOK, Quiet, Early, Holds, At
  <2>4. QED
    BY <2>2, <2>3
<1>7. CASE DirectLost(e)
  <2>1. report' \in [End -> {"none", "punch", "start", "stop"}]
    BY <1>7, PostsType DEF DirectLost
  <2>2. QED
    BY <1>7, <2>1 DEF DirectLost, TypeOK, Quiet, Early, Holds, At
<1>8. QED
  BY <1>1, <1>2, <1>3, <1>4, <1>5, <1>6, <1>7

\* A probe that arrives chooses the path; before it nobody held a link.
LEMMA ProbeInv ==
  ASSUME IInv, NEW e \in End, ProbeReads(e) PROVE IInv'
<1> USE DEF IInv
<1>1. PICK m \in net : m.to = e /\ m \in Packet
        /\ IF m.kind = "punch"
           THEN /\ chosen' = [chosen EXCEPT ![e] = m.path]
                /\ Moves(e, "shaking")
                /\ net' = Read(m) \cup {Punch(Other(e), m.path)}
           ELSE net' = Read(m) /\ UNCHANGED <<chosen, punch>>
  BY DEF ProbeReads, TypeOK
<1>2. At(e, "probing") /\ UNCHANGED <<room, peers, carrier, relay, report>>
  BY DEF ProbeReads
<1>3. CASE m.kind # "punch"
  <2>1. TypeOK' /\ Quiet
    BY <1>1, <1>2, <1>3 DEF TypeOK, Read, Quiet, Early, Holds, At
  <2>2. QED
    BY <2>1, QuietInv
<1>4. CASE m.kind = "punch"
  <2>1. m.path \in Path /\ Punch(Other(e), m.path) \in Packet
        /\ Punch(Other(e), m.path).kind # "hello"
    BY <1>1, OtherEnd, PacketType DEF Packet
  <2>2. /\ punch' = [punch EXCEPT ![e] = "shaking"]
        /\ chosen' = [chosen EXCEPT ![e] = m.path]
        /\ net' = (net \ {m}) \cup {Punch(Other(e), m.path)}
    BY <1>1, <1>4 DEF Moves, Read
  <2>3. TypeOK'
    BY <1>2, <2>1, <2>2 DEF TypeOK
  <2>4. ~Holds(e) /\ ~Holds(Other(e))
    BY <1>2, OtherEnd DEF At, Holds, LinksAgree
  <2>5. \A d \in End : d # e => punch'[d] = punch[d] /\ chosen'[d] = chosen[d]
    BY <2>2 DEF TypeOK
  <2>6. punch'[e] = "shaking" /\ chosen'[e] = m.path
    BY <2>2 DEF TypeOK
  <2>7. LinksAgree'
    BY <2>4, <2>5, <2>6, OtherEnd DEF LinksAgree, Holds
  <2>8. PathChosen'
    BY <2>1, <2>5, <2>6 DEF PathChosen, Holds, At
  <2>9. HellosMeant'
    <3> SUFFICES ASSUME NEW h \in net', h.kind = "hello"
                 PROVE  /\ punch'[Other(h.to)] \notin {"joining", "probing"}
                        /\ h.path = chosen'[Other(h.to)]
      BY DEF HellosMeant, Early
    <3>1. h \in net /\ h.to \in End
      BY <2>1, <2>2 DEF TypeOK, Packet
    <3>2. ~Early(Other(h.to)) /\ h.path = chosen[Other(h.to)]
      BY <3>1 DEF HellosMeant
    <3>3. Other(h.to) \in End /\ Other(h.to) # e
      BY <1>2, <3>1, <3>2, OtherEnd DEF At, Early
    <3>4. QED
      BY <2>5, <3>2, <3>3 DEF Early
  <2>10. QED
    BY <2>3, <2>7, <2>8, <2>9
<1>5. QED
  BY <1>3, <1>4

\* A hello goes out on the chosen path.
LEMMA HelloInv ==
  ASSUME IInv, NEW e \in End, ~Early(e), chosen[e] \in Path, TypeOK',
         UNCHANGED chosen, ~Early(e)',
         \A d \in End : Early(d)' => Early(d),
         \A m \in net' : m \in net \/ m = Hello(Other(e), chosen[e])
  PROVE  HellosMeant'
<1> SUFFICES ASSUME NEW h \in net', h.kind = "hello"
             PROVE  ~Early(Other(h.to))' /\ h.path = chosen[Other(h.to)]
  BY DEF HellosMeant
<1>1. h.to \in End
  BY DEF TypeOK, Packet
<1>2. CASE h \in net
  BY <1>1, <1>2, OtherEnd DEF IInv, HellosMeant
<1>3. CASE h = Hello(Other(e), chosen[e])
  BY <1>3, OtherEnd, PacketType
<1>4. QED
  BY <1>2, <1>3

LEMMA ShakeInv ==
  ASSUME IInv, NEW e \in End, ShakeSends(e) \/ ShakeReads(e) PROVE IInv'
<1> USE DEF IInv
<1>1. /\ punch[e] = "shaking" /\ ~Early(e) /\ chosen[e] \in Path
      /\ UNCHANGED <<room, peers, chosen, carrier, relay, report>>
  BY DEF ShakeSends, ShakeReads, At, Early, PathChosen
<1>2. Hello(Other(e), chosen[e]) \in Packet
  BY <1>1, OtherEnd, PacketType
<1>3. CASE punch' = punch /\ \A m \in net' : m \in net \/ m = Hello(Other(e), chosen[e])
  <2>1. TypeOK'
    BY <1>1, <1>2, <1>3 DEF TypeOK
  <2>2. LinksAgree' /\ PathChosen'
    BY <1>1, <1>3 DEF LinksAgree, PathChosen, Holds, At
  <2>3. HellosMeant'
    BY <1>1, <1>3, <2>1, HelloInv DEF Early
  <2>4. QED
    BY <2>1, <2>2, <2>3
<1>4. CASE \E m \in net : /\ m.to = e /\ Expected(e, m) /\ Moves(e, "linked")
                          /\ net' = Read(m) \cup {Hello(Other(e), chosen[e])}
  <2>1. PICK m \in net : /\ m.to = e /\ Expected(e, m) /\ Moves(e, "linked")
                         /\ net' = Read(m) \cup {Hello(Other(e), chosen[e])}
    BY <1>4
  <2>2. punch' = [punch EXCEPT ![e] = "linked"]
        /\ \A h \in net' : h \in net \/ h = Hello(Other(e), chosen[e])
    BY <2>1 DEF Moves, Read
  <2>3. punch'[e] = "linked" /\ \A d \in End : d # e => punch'[d] = punch[d]
    BY <2>2 DEF TypeOK
  <2>4. chosen[Other(e)] = chosen[e] /\ ~Early(Other(e))
    BY <2>1 DEF Expected, HellosMeant
  <2>5. TypeOK'
    BY <1>1, <1>2, <2>2 DEF TypeOK
  <2>6. LinksAgree'
    <3> SUFFICES ASSUME NEW d \in End, Holds(d)'
                 PROVE  /\ chosen[d] \in Path /\ chosen[Other(d)] = chosen[d]
                        /\ ~Early(Other(d))'
      BY <1>1 DEF LinksAgree, Early
    <3>1. CASE d = e
      BY <1>1, <2>3, <2>4, <3>1, OtherEnd DEF Early
    <3>2. CASE d = Other(e)
      BY <1>1, <2>3, <2>4, <3>2, OtherEnd DEF Early
    <3>3. QED
      BY <3>1, <3>2, OtherEnd
  <2>7. PathChosen'
    BY <1>1, <2>3 DEF PathChosen, Holds, At
  <2>8. HellosMeant'
    BY <1>1, <2>2, <2>3, <2>5, HelloInv DEF Early
  <2>9. QED
    BY <2>5, <2>6, <2>7, <2>8
<1>5. QED
  BY <1>3, <1>4 DEF ShakeSends, ShakeReads, Read

LEMMA Invariant == Spec => []IInv
<1>1. IInv /\ [Next]_vars => IInv'
  <2> SUFFICES ASSUME IInv, [Next]_vars PROVE IInv'
    OBVIOUS
  <2>1. CASE UNCHANGED vars \/ RelayBreaks \/ Lose
    <3>1. TypeOK' /\ Quiet
      BY <2>1 DEF vars, RelayBreaks, Lose, IInv, TypeOK, Quiet, Early, Holds, At
    <3>2. QED
      BY <3>1, QuietInv
  <2>2. ASSUME NEW e \in End, Step(e) \/ OfferExpires(e) \/ DirectLost(e) PROVE IInv'
    BY <2>2, QuietSteps, QuietInv, ProbeInv, ShakeInv DEF Step
  <2>3. QED
    BY <2>1, <2>2 DEF Next
<1>2. QED
  BY <1>1, InvInit, PTL DEF Spec

\* Rooms, punch threads, packets and loops keep their types.
THEOREM TypeCorrect == Spec => []TypeOK
<1>1. IInv => TypeOK
  BY DEF IInv
<1>2. QED
  BY <1>1, Invariant, PTL

\* An end's link leads where the other end's choice does, whatever is lost, late or
\* stale; the other end may have given up.
THEOREM LinksMatch == Spec => []LinksAgree
<1>1. IInv => LinksAgree
  BY DEF IInv
<1>2. QED
  BY <1>1, Invariant, PTL

\* Every step of the loops is one LinkHandover allows: the session of an end
\* moves from the relay to a direct link or ends, and never comes back.
THEOREM MovesForward == Spec => Handover!Init /\ [][Handover!Next]_carrier
<1>1. Init => Handover!Init
  BY DEF Init, Handover!Init
<1>2. TypeOK /\ [Next]_vars => [Handover!Next]_carrier
  <2> SUFFICES ASSUME TypeOK, [Next]_vars PROVE Handover!Next \/ UNCHANGED carrier
    OBVIOUS
  <2>1. ASSUME NEW e \in End, SwitchToDirect(e) PROVE Handover!Next
    BY <2>1 DEF SwitchToDirect, Handover!Next, Handover!Upgrade
  <2>2. ASSUME NEW e \in End, RelayLost(e) \/ DirectLost(e) PROVE Handover!Next
    BY <2>2 DEF RelayLost, DirectLost, Handover!Next, Handover!Leave
  <2>3. ASSUME NEW e \in End,
               \/ Join(e) \/ OfferExpires(e) \/ PunchEnds(e) \/ ProbeSends(e)
               \/ ProbeReads(e) \/ ShakeSends(e) \/ ShakeReads(e)
        PROVE  UNCHANGED carrier
    BY <2>3 DEF Join, OfferExpires, PunchEnds, NoPeer, JoinFails, ProbeFails, ShakeFails,
       HandOver, ProbeSends, ProbeReads, ShakeSends, ShakeReads
  <2>4. CASE UNCHANGED vars \/ RelayBreaks \/ Lose
    BY <2>4 DEF vars, RelayBreaks, Lose
  <2>5. QED
    BY <2>1, <2>2, <2>3, <2>4 DEF Next, Step
<1>3. QED
  BY <1>1, <1>2, TypeCorrect, PTL DEF Spec

=============================================================================
