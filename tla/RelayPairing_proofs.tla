------------------------ MODULE RelayPairing_proofs -------------------------
(* Proofs about RelayPairing, for any number of connections and tickets: its *)
(* table, channels and threads, and that it implements Rendezvous.           *)
EXTENDS RelayPairing, TLAPS

\* A connection in a channel is no thread's own any more, and channels are
\* filled once: what is sent was never sent before, nor has received anything.
Taken ==
  /\ \A w \in Side : inbox[w] # NoSide => /\ pc[inbox[w]] \in {"given", "closed"}
                                          /\ inbox[inbox[w]] = NoSide
  /\ \A s \in Side : pc[s] \in {"connecting", "given"} => inbox[s] = NoSide

\* A side that waits and was sent nobody is in pending, unless another side of
\* its ticket timed out.
Findable ==
  \A s \in Side : Alone(s) =>
    \/ pending[hello[s].ticket] = s
    \/ \E w \in Side : pc[w] = "timed_out" /\ hello[w].ticket = hello[s].ticket

IInv == TypeOK /\ PendingWaits /\ Taken /\ PairsMatch /\ GivenIsHeld /\ Findable

LEMMA InvInit == Init => IInv
BY SentinelAssumption
DEF Init, IInv, TypeOK, Hello, Role, Step, PendingWaits, Taken, PairsMatch,
    GivenIsHeld, Findable, Alone

\* A hello: the one step that changes pending and the channels.
LEMMA HelloInv ==
  ASSUME IInv, NEW s \in Side, NEW t \in Ticket, NEW r \in Role,
         ReadHello(s, t, r)
  PROVE  IInv'
<1> USE DEF ReadHello
<1>1. /\ pc[s] = "connecting" /\ inbox[s] = NoSide
      /\ hello' = [hello EXCEPT ![s] = [ticket |-> t, role |-> r]]
      /\ \A u \in Ticket : pending[u] # s
      /\ \A w \in Side : inbox[w] # s
      /\ s # NoSide /\ t # NoTicket /\ r # NoRole
  <2>1. pc[s] = "connecting" /\ hello' = [hello EXCEPT ![s] = [ticket |-> t, role |-> r]]
    OBVIOUS
  <2>2. inbox[s] = NoSide /\ \A w \in Side : inbox[w] # s
    BY <2>1, SentinelAssumption DEF IInv, Taken
  <2>3. \A u \in Ticket : pending[u] # s
    BY <2>1, SentinelAssumption DEF IInv, PendingWaits
  <2>4. s # NoSide /\ t # NoTicket /\ r # NoRole
    BY SentinelAssumption DEF Role, NoRole
  <2>5. QED
    BY <2>1, <2>2, <2>3, <2>4
<1>a. ASSUME NEW x \in Side, Findable,
             x # s, pc[x] = "waiting", inbox[x] = NoSide,
             pending[hello[x].ticket] # x,
             \A y \in Side : y # s => pc'[y] = pc[y]
      PROVE  \E w \in Side : /\ pc'[w] = "timed_out"
                             /\ hello'[w].ticket = hello[x].ticket
  <2>1. PICK w \in Side : pc[w] = "timed_out" /\ hello[w].ticket = hello[x].ticket
    BY <1>a DEF Findable, Alone
  <2>2. w # s
    BY <1>1, <2>1
  <2>3. QED
    BY <1>1, <1>a, <2>1, <2>2 DEF IInv, TypeOK
<1>2. CASE Wait(s, t)
  <2>1. TypeOK'
    BY <1>1, <1>2 DEF Wait, IInv, TypeOK, Hello, Step
  <2>2. PendingWaits'
    BY <1>1, <1>2 DEF Wait, IInv, TypeOK, PendingWaits, Hello
  <2>3. Taken' /\ PairsMatch'
    BY <1>1, <1>2 DEF Wait, IInv, TypeOK, Taken, PairsMatch, Hello
  <2>4. GivenIsHeld'
    BY <1>1, <1>2 DEF Wait, IInv, TypeOK, GivenIsHeld
  <2>5. Findable'
    <3> SUFFICES ASSUME NEW x \in Side, pc'[x] = "waiting", inbox[x] = NoSide
                 PROVE  \/ pending'[hello'[x].ticket] = x
                        \/ \E w \in Side : /\ pc'[w] = "timed_out"
                                           /\ hello'[w].ticket = hello'[x].ticket
      BY <1>2 DEF Wait, Findable, Alone
    <3>1. CASE x = s
      BY <1>1, <1>2, <3>1 DEF Wait, IInv, TypeOK
    <3>2. CASE x # s
      <4>1. /\ pc[x] = "waiting" /\ hello'[x] = hello[x]
            /\ \A y \in Side : y # s => pc'[y] = pc[y]
        BY <1>1, <1>2, <3>2 DEF Wait, IInv, TypeOK
      <4>2. CASE pending[hello[x].ticket] = x
        <5>1. pending' = [pending EXCEPT ![t] = s] /\ pending[t] = NoSide
          BY <1>2 DEF Wait
        <5>2. hello[x].ticket # t
          BY <4>2, <5>1, SentinelAssumption
        <5>3. QED
          BY <4>1, <4>2, <5>1, <5>2 DEF IInv, TypeOK
      <4>3. QED
        BY <1>a, <3>2, <4>1, <4>2 DEF IInv
    <3>3. QED
      BY <3>1, <3>2
  <2>6. QED
    BY <2>1, <2>2, <2>3, <2>4, <2>5 DEF IInv
<1>3. CASE RefuseSameSide(s, t, r)
  <2>1. TypeOK'
    BY <1>1, <1>3 DEF RefuseSameSide, IInv, TypeOK, Hello, Step
  <2>2. PendingWaits'
    BY <1>1, <1>3 DEF RefuseSameSide, IInv, TypeOK, PendingWaits, Hello
  <2>3. Taken' /\ PairsMatch'
    BY <1>1, <1>3 DEF RefuseSameSide, IInv, TypeOK, Taken, PairsMatch, Hello
  <2>4. GivenIsHeld'
    BY <1>1, <1>3 DEF RefuseSameSide, IInv, TypeOK, GivenIsHeld
  <2>5. Findable'
    BY <1>1, <1>3 DEF RefuseSameSide, IInv, TypeOK, Findable, Alone, Hello
  <2>6. QED
    BY <2>1, <2>2, <2>3, <2>4, <2>5 DEF IInv
<1>4. CASE Give(s, t, r)
  <2> DEFINE w == pending[t]
  <2>1. /\ w \in Side /\ w # s /\ w # NoSide
        /\ pc[w] \in {"waiting", "late"} /\ inbox[w] = NoSide
        /\ hello[w].ticket = t /\ hello[w].role # r
        /\ pending' = [pending EXCEPT ![t] = NoSide]
        /\ inbox' = [inbox EXCEPT ![w] = s]
        /\ pc' = [pc EXCEPT ![s] = "given"]
        /\ \A u \in Ticket : pending[u] = w => u = t
        /\ \A v \in Side : inbox[v] # w
    BY <1>1, <1>4 DEF Give, IInv, TypeOK, PendingWaits, Taken
  <2> HIDE DEF w
  <2>2. TypeOK'
    BY <1>1, <2>1 DEF IInv, TypeOK, Hello, Step
  <2>3. PendingWaits'
    BY <1>1, <2>1 DEF IInv, TypeOK, PendingWaits, Hello
  <2>4. Taken' /\ PairsMatch'
    BY <1>1, <2>1 DEF IInv, TypeOK, Taken, PairsMatch, Hello
  <2>5. GivenIsHeld'
    <3> SUFFICES ASSUME NEW x \in Side, pc'[x] = "given"
                 PROVE  \E v \in Side :
                          /\ inbox'[v] = x
                          /\ pc'[v] \in {"waiting", "late", "matched", "pumping"}
      BY DEF GivenIsHeld
    <3>1. CASE x = s
      BY <2>1, <3>1 DEF IInv, TypeOK
    <3>2. CASE x # s
      <4>1. pc[x] = "given"
        BY <2>1, <3>2 DEF IInv, TypeOK
      <4>2. PICK v \in Side : /\ inbox[v] = x
                              /\ pc[v] \in {"waiting", "late", "matched", "pumping"}
        BY <4>1 DEF IInv, GivenIsHeld
      <4>3. v # s /\ v # w
        BY <1>1, <2>1, <4>2, SentinelAssumption
      <4>4. QED
        BY <2>1, <4>2, <4>3 DEF IInv, TypeOK
    <3>3. QED
      BY <3>1, <3>2
  <2>6. Findable'
    <3> SUFFICES ASSUME NEW x \in Side, pc'[x] = "waiting", inbox'[x] = NoSide
                 PROVE  \/ pending'[hello'[x].ticket] = x
                        \/ \E v \in Side : /\ pc'[v] = "timed_out"
                                           /\ hello'[v].ticket = hello'[x].ticket
      BY DEF Findable, Alone
    <3>1. /\ x # s /\ x # w /\ pc[x] = "waiting" /\ inbox[x] = NoSide
          /\ hello'[x] = hello[x]
          /\ \A y \in Side : y # s => pc'[y] = pc[y]
      BY <1>1, <2>1 DEF IInv, TypeOK
    <3>2. CASE pending[hello[x].ticket] = x
      <4>1. hello[x].ticket # t
        BY <3>1, <3>2 DEF w
      <4>2. QED
        BY <2>1, <3>1, <3>2, <4>1 DEF IInv, TypeOK
    <3>3. QED
      BY <1>a, <3>1, <3>2 DEF IInv
  <2>7. QED
    BY <2>2, <2>3, <2>4, <2>5, <2>6 DEF IInv
<1>5. QED
  BY <1>2, <1>3, <1>4

\* A thread goes one step further and keeps what it has.
LEMMA StepInv ==
  ASSUME IInv, NEW s \in Side,
         HelloFails(s) \/ Receive(s) \/ TimeOut(s) \/ Admitted(s)
  PROVE  IInv'
<1> USE DEF HelloFails, Receive, TimeOut, Admitted
<1>1. TypeOK'
  BY DEF IInv, TypeOK, Step
<1>2. PendingWaits'
  BY DEF IInv, TypeOK, PendingWaits
<1>3. Taken' /\ PairsMatch'
  BY DEF IInv, TypeOK, Taken, PairsMatch
<1>4. GivenIsHeld'
  BY DEF IInv, TypeOK, GivenIsHeld
<1>5. Findable'
  BY DEF IInv, TypeOK, Findable, Alone
<1>6. QED
  BY <1>1, <1>2, <1>3, <1>4, <1>5 DEF IInv

\* A thread ends, and takes the connection it was sent with it.
LEMMA OverInv ==
  ASSUME IInv, NEW s \in Side, Forget(s) \/ Refused(s) \/ PumpEnds(s)
  PROVE  IInv'
<1> DEFINE how == IF Forget(s) THEN "timed_out" ELSE "closed"
<1>1. /\ pc[s] \in {"late", "matched", "pumping"}
      /\ pc' = Over(s, how) /\ inbox' = inbox /\ hello' = hello
      /\ how \in {"timed_out", "closed"}
  BY DEF Forget, Refused, PumpEnds
<1>2. \/ /\ pc[s] = "late" /\ how = "timed_out"
         /\ pending' = [pending EXCEPT ![hello[s].ticket] = NoSide]
      \/ pc[s] # "late" /\ pending' = pending
  BY DEF Forget, Refused, PumpEnds
<1>3. hello[s].ticket \in Ticket
  BY <1>1 DEF IInv, TypeOK, Hello, Step
<1> HIDE DEF how
<1>4. \A x \in Side :
        /\ x = s => pc'[x] = how
        /\ x # s /\ x = inbox[s] => pc'[x] = "closed"
        /\ x # s /\ x # inbox[s] => pc'[x] = pc[x]
  BY <1>1 DEF Over
<1>5. \A u \in Ticket : pending'[u] \in {pending[u], NoSide}
  BY <1>2 DEF IInv, TypeOK
<1>6. TypeOK'
  <2>1. pc' \in [Side -> Step]
    BY <1>1, <1>4 DEF Over, IInv, TypeOK, Step
  <2>2. pending' \in [Ticket -> Side \cup {NoSide}]
    BY <1>2 DEF IInv, TypeOK
  <2>3. QED
    BY <1>1, <1>4, <2>1, <2>2 DEF IInv, TypeOK, Step
<1>7. PendingWaits'
  <2> SUFFICES ASSUME NEW u \in Ticket, pending'[u] # NoSide
               PROVE  /\ pc'[pending'[u]] \in {"waiting", "late"}
                      /\ hello[pending'[u]].ticket = u
                      /\ inbox[pending'[u]] = NoSide
    BY <1>1 DEF PendingWaits
  <2>1. /\ pending'[u] = pending[u] /\ pending[u] \in Side
        /\ pc[pending[u]] \in {"waiting", "late"}
        /\ hello[pending[u]].ticket = u /\ inbox[pending[u]] = NoSide
    BY <1>5 DEF IInv, TypeOK, PendingWaits
  <2>2. pending[u] # s
    BY <1>1, <1>2, <1>3, <2>1 DEF IInv, TypeOK
  <2>3. pending[u] # inbox[s]
    BY <1>1, <2>1, SentinelAssumption DEF IInv, Taken
  <2>4. QED
    BY <1>4, <2>1, <2>2, <2>3
<1>8. Taken' /\ PairsMatch'
  <2>1. PairsMatch'
    BY <1>1 DEF IInv, PairsMatch
  <2>2. \A w \in Side : inbox[w] # NoSide => /\ inbox[w] \in Side
                                            /\ inbox[w] # s
    BY <1>1 DEF IInv, TypeOK, Taken
  <2>3. Taken'
    BY <1>1, <1>4, <2>2 DEF IInv, Taken
  <2>4. QED
    BY <2>1, <2>3
<1>9. GivenIsHeld'
  <2> SUFFICES ASSUME NEW x \in Side, pc'[x] = "given"
               PROVE  \E w \in Side :
                        /\ inbox[w] = x
                        /\ pc'[w] \in {"waiting", "late", "matched", "pumping"}
    BY <1>1 DEF GivenIsHeld
  <2>1. pc[x] = "given" /\ x # s /\ x # inbox[s]
    BY <1>1, <1>4
  <2>2. PICK w \in Side : /\ inbox[w] = x
                          /\ pc[w] \in {"waiting", "late", "matched", "pumping"}
    BY <2>1 DEF IInv, GivenIsHeld
  <2>3. w # s /\ w # inbox[s]
    BY <2>1, <2>2, SentinelAssumption DEF IInv, Taken
  <2>4. QED
    BY <1>4, <2>2, <2>3
<1>10. Findable'
  <2> SUFFICES ASSUME NEW x \in Side, pc'[x] = "waiting", inbox[x] = NoSide
               PROVE  \/ pending'[hello[x].ticket] = x
                      \/ \E w \in Side : /\ pc'[w] = "timed_out"
                                         /\ hello[w].ticket = hello[x].ticket
    BY <1>1 DEF Findable, Alone
  <2>1. pc[x] = "waiting" /\ x # s /\ x # inbox[s]
    BY <1>1, <1>4
  <2>2. CASE pending[hello[x].ticket] = x
    <3>1. CASE pc[s] = "late" /\ hello[s].ticket = hello[x].ticket
      BY <1>2, <1>4, <3>1
    <3>2. CASE pc[s] # "late" \/ hello[s].ticket # hello[x].ticket
      <4>1. hello[x].ticket \in Ticket
        BY <2>1 DEF IInv, TypeOK, Hello, Step
      <4>2. QED
        BY <1>2, <1>3, <2>2, <3>2, <4>1 DEF IInv, TypeOK
    <3>3. QED
      BY <3>1, <3>2
  <2>3. CASE \E w \in Side : pc[w] = "timed_out" /\ hello[w].ticket = hello[x].ticket
    <3>1. PICK w \in Side : pc[w] = "timed_out" /\ hello[w].ticket = hello[x].ticket
      BY <2>3
    <3>2. w # s /\ w # inbox[s]
      BY <1>1, <3>1, SentinelAssumption DEF IInv, Taken
    <3>3. QED
      BY <1>4, <3>1, <3>2
  <2>4. QED
    BY <2>1, <2>2, <2>3 DEF IInv, Findable, Alone
<1>11. QED
  BY <1>6, <1>7, <1>8, <1>9, <1>10 DEF IInv

LEMMA Invariant == Spec => []IInv
<1>1. IInv /\ [Next]_vars => IInv'
  <2> SUFFICES ASSUME IInv, [Next]_vars PROVE IInv'
    OBVIOUS
  <2>1. CASE UNCHANGED vars
    BY <2>1 DEF vars, IInv, TypeOK, PendingWaits, Taken, PairsMatch, GivenIsHeld,
       Findable, Alone
  <2>2. CASE Next
    BY <2>2, HelloInv, StepInv, OverInv DEF Next
  <2>3. QED
    BY <2>1, <2>2
<1>2. QED
  BY <1>1, InvInit, PTL DEF Spec

\* The table, the channels and the threads keep their types.
THEOREM TypeCorrect == Spec => []TypeOK
<1>1. IInv => TypeOK
  BY DEF IInv
<1>2. QED
  BY <1>1, Invariant, PTL

\* A connection that was handed over is always in the channel of a thread that
\* goes on to read it.
THEOREM GivenIsNotLost == Spec => []GivenIsHeld
<1>1. IInv => GivenIsHeld
  BY DEF IInv
<1>2. QED
  BY <1>1, Invariant, PTL

\* The relay joins a controller and a host of one ticket, each connection once,
\* whatever sides come, leave and time out.
THEOREM SidesMatch == Spec => []PairsMatch
<1>1. IInv => PairsMatch
  BY DEF IInv
<1>2. QED
  BY <1>1, Invariant, PTL

\* A side that finds another one in pending always reaches it.
THEOREM SendReaches == Spec => []PendingWaits
<1>1. IInv => PendingWaits
  BY DEF IInv
<1>2. QED
  BY <1>1, Invariant, PTL

\* Two sides of a ticket only miss each other after a third one timed out.
THEOREM SidesMeet == Spec => []TwoSidesMeet
<1>1. IInv => TwoSidesMeet
  <2> SUFFICES ASSUME IInv, NEW s \in Side, NEW x \in Side, Alone(s), Alone(x),
                      hello[s].ticket = hello[x].ticket,
                      hello[s].role # hello[x].role
               PROVE  \E w \in Side : /\ pc[w] = "timed_out"
                                      /\ hello[w].ticket = hello[s].ticket
    BY DEF TwoSidesMeet
  <2>1. CASE pending[hello[s].ticket] = s /\ pending[hello[x].ticket] = x
    BY <2>1
  <2>2. QED
    BY <2>1 DEF IInv, Findable
<1>2. QED
  BY <1>1, Invariant, PTL

-----------------------------------------------------------------------------
(* That RelayPairing implements Rendezvous.                                 *)

\* The thread that holds a connection it was sent holds an open one.
Holding(w) == pc[w] \in {"waiting", "late", "matched", "pumping"} /\ inbox[w] # NoSide
Hold == \A w \in Side : Holding(w) => pc[inbox[w]] = "given"

LEMMA HoldInvariant == Spec => []Hold
<1>1. Init => Hold
  BY DEF Init, Hold, Holding
<1>2. ASSUME IInv, Hold, [Next]_vars PROVE Hold'
  <2>1. CASE UNCHANGED vars
    BY <1>2, <2>1 DEF vars, Hold, Holding
  <2>2. ASSUME NEW s \in Side,
               HelloFails(s) \/ Receive(s) \/ TimeOut(s) \/ Admitted(s)
        PROVE  Hold'
    <3>1. inbox' = inbox /\ \A x \in Side \ {s} : pc'[x] = pc[x]
      BY <1>2, <2>2 DEF HelloFails, Receive, TimeOut, Admitted, IInv, TypeOK
    <3>2. Holding(s)' => Holding(s)
      BY <1>2, <2>2
      DEF HelloFails, Receive, TimeOut, Admitted, Holding, IInv, TypeOK
    <3>3. pc[s] # "given"
      BY <2>2 DEF HelloFails, Receive, TimeOut, Admitted
    <3>4. \A w \in Side : inbox[w] # NoSide => inbox[w] \in Side
      BY <1>2 DEF IInv, TypeOK
    <3>5. QED
      BY <1>2, <3>1, <3>2, <3>3, <3>4 DEF Hold, Holding
  <2>3. ASSUME NEW s \in Side, NEW t \in Ticket, NEW r \in Role, ReadHello(s, t, r)
        PROVE  Hold'
    <3>1. pc[s] = "connecting" /\ inbox[s] = NoSide
      BY <1>2, <2>3 DEF ReadHello, IInv, Taken
    <3>2. \A w \in Side : inbox[w] # NoSide => inbox[w] \in Side /\ inbox[w] # s
      BY <1>2, <3>1 DEF IInv, TypeOK, Taken
    <3>3. CASE Wait(s, t) \/ RefuseSameSide(s, t, r)
      <4>1. inbox' = inbox /\ \A x \in Side \ {s} : pc'[x] = pc[x]
        BY <1>2, <3>3 DEF Wait, RefuseSameSide, IInv, TypeOK
      <4>2. QED
        BY <1>2, <3>1, <3>2, <4>1 DEF Hold, Holding
    <3>4. CASE Give(s, t, r)
      <4> DEFINE w == pending[t]
      <4>1. w \in Side /\ inbox[w] = NoSide
        BY <1>2, <3>4 DEF Give, IInv, TypeOK, PendingWaits
      <4>2. /\ inbox'[w] = s /\ \A x \in Side \ {w} : inbox'[x] = inbox[x]
            /\ pc'[s] = "given" /\ \A x \in Side \ {s} : pc'[x] = pc[x]
        BY <1>2, <3>4, <4>1 DEF Give, IInv, TypeOK
      <4> HIDE DEF w
      <4>3. QED
        BY <1>2, <3>1, <3>2, <4>1, <4>2 DEF Hold, Holding
    <3>5. QED
      BY <2>3, <3>3, <3>4 DEF ReadHello
  <2>4. ASSUME NEW s \in Side, NEW how, how \in {"timed_out", "closed"},
               pc[s] \in {"late", "matched", "pumping"},
               pc' = Over(s, how), inbox' = inbox
        PROVE  Hold'
    <3>1. /\ pc'[s] = how
          /\ \A x \in Side \ {s} : pc'[x] = IF x = inbox[s] THEN "closed" ELSE pc[x]
      BY <2>4 DEF Over
    <3>2. SUFFICES ASSUME NEW w \in Side, Holding(w)' PROVE pc'[inbox[w]] = "given"
      BY <2>4 DEF Hold
    <3>3. w # s /\ w # inbox[s] /\ Holding(w)
      BY <2>4, <3>1, <3>2 DEF Holding
    <3>4. pc[inbox[w]] = "given" /\ inbox[w] \in Side
      BY <1>2, <3>3 DEF Hold, Holding, IInv, TypeOK
    <3>5. inbox[w] # s /\ inbox[w] # inbox[s]
      BY <1>2, <2>4, <3>3, <3>4 DEF IInv, PairsMatch, Holding
    <3>6. QED
      BY <3>1, <3>4, <3>5
  <2>5. ASSUME NEW s \in Side, Forget(s) \/ Refused(s) \/ PumpEnds(s) PROVE Hold'
    BY <2>4, <2>5 DEF Forget, Refused, PumpEnds
  <2>6. QED
    BY <1>2, <2>1, <2>2, <2>3, <2>5 DEF Next
<1>3. QED
  BY <1>1, <1>2, Invariant, PTL DEF Spec

\* Where a side is that nobody was handed.
LEMMA OwnStage ==
  ASSUME IInv, NEW s \in Side, pc[s] # "given"
  PROVE  /\ pc[s] = "connecting" => StageOf[s] = "new"
         /\ pc[s] \in {"waiting", "late"} =>
              StageOf[s] = IF inbox[s] = NoSide THEN "waiting" ELSE "met"
         /\ pc[s] = "matched" => StageOf[s] = "met"
         /\ pc[s] = "pumping" => StageOf[s] = "served"
<1>1. pc[s] # "closed" => \A w \in Side : inbox[w] # s
  BY SentinelAssumption DEF IInv, Taken
<1>2. QED
  BY <1>1 DEF StageOf, Served

\* The two of a pair are at the same stage.
LEMMA PairStage ==
  ASSUME IInv, Hold, NEW w \in Side, Holding(w)
  PROVE  /\ inbox[w] \in Side /\ inbox[w] # w
         /\ <<w, inbox[w]>> \in PairsOf
         /\ StageOf[w] = StageOf[inbox[w]]
         /\ StageOf[w] = IF pc[w] = "pumping" THEN "served" ELSE "met"
<1> DEFINE y == inbox[w]
<1>1. y \in Side /\ pc[y] = "given" /\ y # w /\ y # NoSide
  BY DEF Holding, Hold, IInv, TypeOK
<1>2. <<w, y>> \in PairsOf
  BY <1>1 DEF PairsOf
<1>3. StageOf[w] = IF pc[w] = "pumping" THEN "served" ELSE "met"
  BY OwnStage DEF Holding
<1>4. Served(y) <=> pc[w] = "pumping"
  BY <1>1 DEF Served, IInv, PairsMatch
<1>5. StageOf[y] = IF pc[w] = "pumping" THEN "served" ELSE "met"
  BY <1>1, <1>4 DEF StageOf
<1>6. QED
  BY <1>1, <1>2, <1>3, <1>5

\* What a thread that ends takes with it is gone, and nothing else changes.
LEMMA OverStage ==
  ASSUME IInv, NEW s \in Side, NEW how, how \in {"timed_out", "closed"},
         pc[s] \in {"late", "matched", "pumping"},
         pc' = Over(s, how), inbox' = inbox
  PROVE  StageOf' = [x \in Side |-> IF x \in {s, inbox[s]} THEN "gone" ELSE StageOf[x]]
<1>1. \A x \in Side : pc'[x] = IF x = s THEN how
                               ELSE IF x = inbox[s] THEN "closed" ELSE pc[x]
  BY DEF Over
<1>2. ASSUME NEW x \in Side, x # s, x # inbox[s]
      PROVE  Served(x)' <=> Served(x)
  <2>1. pc'[x] = pc[x]
    BY <1>1, <1>2
  <2>2. ASSUME NEW v \in Side, inbox[v] = x
        PROVE  pc'[v] = "pumping" <=> pc[v] = "pumping"
    <3>1. v # s
      BY <1>2, <2>2
    <3>2. v = inbox[s] => pc[v] # "pumping"
      BY SentinelAssumption DEF IInv, Taken
    <3>3. QED
      BY <1>1, <3>1, <3>2
  <2>3. QED
    BY <2>1, <2>2 DEF Served
<1>3. ASSUME NEW x \in Side
      PROVE  StageOf'[x] = IF x \in {s, inbox[s]} THEN "gone" ELSE StageOf[x]
  <2>1. CASE x \in {s, inbox[s]}
    <3>1. pc'[x] \in {"closed", "timed_out"}
      BY <1>1, <2>1
    <3>2. QED
      BY <2>1, <3>1 DEF StageOf
  <2>2. CASE x \notin {s, inbox[s]}
    <3>1. pc'[x] = pc[x] /\ (Served(x)' <=> Served(x))
      BY <1>1, <1>2, <2>2
    <3>2. QED
      BY <2>2, <3>1 DEF StageOf
  <2>3. QED
    BY <2>1, <2>2
<1>4. StageOf' = [x \in Side |-> StageOf'[x]]
  BY DEF StageOf
<1>5. QED
  BY <1>3, <1>4, Zenon

\* A side keeps its stage when its own thread and the one that may serve it do.
LEMMA SameStage ==
  ASSUME NEW x \in Side, pc'[x] = pc[x], inbox'[x] = inbox[x],
         Served(x)' <=> Served(x)
  PROVE  StageOf'[x] = StageOf[x]
  BY DEF StageOf

\* One side moves; the others see nothing of it.
LEMMA OneMoves ==
  ASSUME IInv, NEW s \in Side, NEW to, pc' = [pc EXCEPT ![s] = to],
         inbox' = inbox, pc[s] # "pumping", to # "pumping"
  PROVE  StageOf' = [StageOf EXCEPT ![s] = StageOf'[s]]
<1>1. ASSUME NEW x \in Side, x # s PROVE StageOf'[x] = StageOf[x]
  <2>1. pc'[x] = pc[x] /\ \A v \in Side : pc'[v] = "pumping" <=> pc[v] = "pumping"
    BY <1>1 DEF IInv, TypeOK
  <2>2. Served(x)' <=> Served(x)
    BY <2>1 DEF Served
  <2>3. QED
    BY <2>1, <2>2, SameStage
<1>2. StageOf' = [x \in Side |-> StageOf'[x]]
  BY DEF StageOf
<1>3. StageOf = [x \in Side |-> StageOf[x]]
  BY DEF StageOf
<1> DEFINE f == StageOf'
           g == StageOf
<1>4. f = [x \in Side |-> f[x]] /\ g = [x \in Side |-> g[x]]
  BY <1>2, <1>3
<1>5. \A x \in Side : x # s => f[x] = g[x]
  BY <1>1
<1> HIDE DEF f, g
<1>6. f = [g EXCEPT ![s] = f[s]]
  BY <1>4, <1>5
<1>7. QED
  BY <1>6 DEF f, g

\* A hello that leads to waiting, to being turned away, or to meeting.
LEMMA HelloMeets ==
  ASSUME IInv, NEW s \in Side, NEW t \in Ticket, NEW r \in Role,
         ReadHello(s, t, r)
  PROVE  Meeting!Next
<1>1. /\ pc[s] = "connecting" /\ inbox[s] = NoSide /\ StageOf[s] = "new"
      /\ hello' = [hello EXCEPT ![s] = [ticket |-> t, role |-> r]]
  BY OwnStage DEF ReadHello, IInv, Taken
<1>2. \A w \in Side : inbox[w] # s
  BY <1>1, SentinelAssumption DEF IInv, Taken
<1>3. Meeting!Says(s, t, r)
  BY <1>1 DEF Meeting!Says
<1>4. CASE Wait(s, t)
  <2>1. pc' = [pc EXCEPT ![s] = "waiting"] /\ inbox' = inbox
    BY <1>4 DEF Wait
  <2>2. pc'[s] = "waiting" /\ ~Served(s)'
    BY <1>2, <2>1 DEF Served, IInv, TypeOK
  <2>3. StageOf'[s] = "waiting"
    BY <1>1, <2>1, <2>2 DEF StageOf
  <2>4. StageOf' = [StageOf EXCEPT ![s] = "waiting"]
    BY <1>1, <2>1, <2>3, OneMoves
  <2>5. PairsOf' = PairsOf
    BY <2>1 DEF PairsOf
  <2>6. Meeting!Wait(s, t, r)
    BY <1>1, <1>3, <2>4, <2>5 DEF Meeting!Wait
  <2>7. QED
    BY <2>6 DEF Meeting!Next
<1>5. CASE RefuseSameSide(s, t, r)
  <2> DEFINE w == pending[t]
  <2>1. /\ pc' = [pc EXCEPT ![s] = "closed"] /\ inbox' = inbox
        /\ w # NoSide /\ hello[w].role = r
    BY <1>5 DEF RefuseSameSide
  <2>2. /\ w \in Side /\ pc[w] \in {"waiting", "late"}
        /\ hello[w].ticket = t /\ inbox[w] = NoSide
    BY <2>1 DEF IInv, TypeOK, PendingWaits
  <2>3. StageOf[w] = "waiting"
    BY <2>2, OwnStage
  <2>4. hello[w] = [ticket |-> t, role |-> r]
    BY <2>1, <2>2 DEF IInv, TypeOK, Hello
  <2> HIDE DEF w
  <2>5. StageOf'[s] = "gone"
    BY <2>1 DEF StageOf, IInv, TypeOK
  <2>6. StageOf' = [StageOf EXCEPT ![s] = "gone"]
    BY <1>1, <2>1, <2>5, OneMoves
  <2>7. PairsOf' = PairsOf
    BY <2>1 DEF PairsOf
  <2>8. Meeting!TurnAway(s, t, r)
    BY <1>1, <1>3, <2>2, <2>3, <2>4, <2>6, <2>7 DEF Meeting!TurnAway
  <2>9. QED
    BY <2>8 DEF Meeting!Next
<1>6. CASE Give(s, t, r)
  <2>0. PICK w : w = pending[t]
    OBVIOUS
  <2>1. /\ w # NoSide /\ hello[w].role # r
        /\ inbox' = [inbox EXCEPT ![w] = s] /\ pc' = [pc EXCEPT ![s] = "given"]
    BY <1>6, <2>0 DEF Give
  <2>2. /\ w \in Side /\ pc[w] \in {"waiting", "late"} /\ w # s
        /\ hello[w].ticket = t /\ inbox[w] = NoSide
    BY <1>1, <2>1, <2>0 DEF IInv, TypeOK, PendingWaits
  <2>3. StageOf[w] = "waiting"
    BY <2>2, OwnStage
  <2>4. /\ inbox'[w] = s /\ \A x \in Side \ {w} : inbox'[x] = inbox[x]
        /\ pc'[s] = "given" /\ \A x \in Side \ {s} : pc'[x] = pc[x]
    BY <2>1, <2>2 DEF IInv, TypeOK
  <2>5. ~Served(s)' /\ ~Served(w)'
    <3>1. \A v \in Side : inbox[v] # w
      BY <2>2, SentinelAssumption DEF IInv, Taken
    <3>2. pc'[s] # "pumping" /\ pc'[w] # "pumping"
      BY <2>2, <2>4
    <3>3. \A v \in Side : inbox'[v] = s => v = w
      BY <1>2, <2>4
    <3>4. \A v \in Side : inbox'[v] # w
      BY <2>2, <2>4, <3>1
    <3>5. QED
      BY <3>2, <3>3, <3>4 DEF Served
  <2>6. s # NoSide
    BY SentinelAssumption
  <2>7. StageOf'[s] = "met" /\ StageOf'[w] = "met"
    <3>1. StageOf'[s] = "met"
      BY <2>4, <2>5 DEF StageOf
    <3>2. pc'[w] \in {"waiting", "late"} /\ inbox'[w] # NoSide
      BY <2>2, <2>4, <2>6
    <3>3. StageOf'[w] = "met"
      BY <2>2, <2>5, <3>2 DEF StageOf
    <3>4. QED
      BY <3>1, <3>3
  <2>8. ASSUME NEW x \in Side, x # s, x # w PROVE StageOf'[x] = StageOf[x]
    <3>1. Served(x)' <=> Served(x)
      BY <1>1, <2>2, <2>4, <2>8 DEF Served
    <3>2. QED
      BY <2>4, <2>8, <3>1, SameStage
  <2>9. StageOf' = [StageOf EXCEPT ![w] = "met", ![s] = "met"]
    <3> DEFINE f == StageOf'
               g == StageOf
    <3>1. f = [x \in Side |-> f[x]] /\ g = [x \in Side |-> g[x]]
      BY DEF StageOf
    <3>2. \A x \in Side : f[x] = IF x \in {s, w} THEN "met" ELSE g[x]
      BY <2>7, <2>8
    <3> HIDE DEF f, g
    <3>3. f = [g EXCEPT ![w] = "met", ![s] = "met"]
      BY <2>2, <3>1, <3>2
    <3>4. QED
      BY <3>3 DEF f, g
  <2>10. PairsOf' = PairsOf \cup {<<w, s>>}
    BY <2>2, <2>4, SentinelAssumption DEF PairsOf
  <2>11. Meeting!Meet(w, s, t, r)
    BY <1>1, <1>3, <2>1, <2>2, <2>3, <2>9, <2>10 DEF Meeting!Meet
  <2>12. QED
    BY <2>2, <2>11 DEF Meeting!Next
<1>7. QED
  BY <1>4, <1>5, <1>6 DEF ReadHello

LEMMA LeaveMeets ==
  ASSUME IInv, NEW s \in Side, HelloFails(s)
  PROVE  Meeting!Next
<1>1. /\ pc[s] = "connecting" /\ pc' = [pc EXCEPT ![s] = "closed"]
      /\ inbox' = inbox /\ hello' = hello /\ StageOf[s] = "new"
  BY OwnStage DEF HelloFails
<1>2. StageOf'[s] = "gone"
  BY <1>1 DEF StageOf, IInv, TypeOK
<1>3. StageOf' = [StageOf EXCEPT ![s] = "gone"]
  BY <1>1, <1>2, OneMoves
<1>4. PairsOf' = PairsOf
  BY <1>1 DEF PairsOf
<1>5. Meeting!Leave(s)
  BY <1>1, <1>3, <1>4 DEF Meeting!Leave
<1>6. QED
  BY <1>5 DEF Meeting!Next

\* To the two users, a thread that has received the other side's connection, or
\* is about to look for itself in pending, is still where it was.
LEMMA QuietMeets ==
  ASSUME IInv, NEW s \in Side, Receive(s) \/ TimeOut(s)
  PROVE  UNCHANGED <<StageOf, hello, PairsOf>>
<1>1. PICK to \in {"matched", "late"} : pc' = [pc EXCEPT ![s] = to]
  BY DEF Receive, TimeOut
<1>2. pc[s] = "waiting" /\ inbox' = inbox /\ hello' = hello
  BY DEF Receive, TimeOut
<1>3. StageOf'[s] = StageOf[s]
  <2>1. \A v \in Side : inbox[v] # s
    BY <1>2, SentinelAssumption DEF IInv, Taken
  <2>2. ~Served(s) /\ ~Served(s)'
    BY <1>1, <1>2, <2>1 DEF Served, IInv, TypeOK
  <2>3. pc'[s] = to /\ (to = "matched" => inbox[s] # NoSide)
                    /\ (to = "late" => inbox[s] = NoSide)
    BY <1>1, <1>2 DEF Receive, TimeOut, IInv, TypeOK
  <2>4. QED
    BY <1>2, <2>2, <2>3 DEF StageOf
<1>4. StageOf' = [StageOf EXCEPT ![s] = StageOf[s]]
  BY <1>1, <1>2, <1>3, OneMoves
<1>5. StageOf' = StageOf
  BY <1>4 DEF StageOf
<1>6. QED
  BY <1>2, <1>5 DEF PairsOf

\* The pair is admitted: both are served.
LEMMA AdmittedMeets ==
  ASSUME IInv, Hold, NEW w \in Side, Admitted(w)
  PROVE  Meeting!Next
<1>0. PICK y : y = inbox[w]
  OBVIOUS
<1>1. /\ pc[w] = "matched" /\ pc' = [pc EXCEPT ![w] = "pumping"]
      /\ inbox' = inbox /\ hello' = hello /\ Holding(w)
  BY DEF Admitted, Holding, IInv, TypeOK
<1>2. /\ y \in Side /\ y # w /\ <<w, y>> \in PairsOf
      /\ StageOf[w] = "met" /\ StageOf[y] = "met"
  BY <1>0, <1>1, PairStage
<1>3. pc[y] = "given"
  BY <1>0, <1>1 DEF Hold
<1>4. pc'[w] = "pumping" /\ \A x \in Side \ {w} : pc'[x] = pc[x]
  BY <1>1 DEF IInv, TypeOK
<1>5. StageOf'[w] = "served" /\ StageOf'[y] = "served"
  <2>1. Served(w)' /\ Served(y)'
    BY <1>0, <1>1, <1>2, <1>4 DEF Served
  <2>2. pc'[y] = "given"
    BY <1>2, <1>3, <1>4
  <2>3. QED
    BY <1>2, <1>4, <2>1, <2>2 DEF StageOf
<1>6. ASSUME NEW x \in Side, x # w, x # y PROVE StageOf'[x] = StageOf[x]
  <2>1. Served(x)' <=> Served(x)
    BY <1>0, <1>1, <1>4, <1>6 DEF Served
  <2>2. QED
    BY <1>1, <1>4, <1>6, <2>1, SameStage
<1>7. StageOf' = [StageOf EXCEPT ![w] = "served", ![y] = "served"]
  <2> DEFINE f == StageOf'
             g == StageOf
  <2>1. f = [x \in Side |-> f[x]] /\ g = [x \in Side |-> g[x]]
    BY DEF StageOf
  <2>2. \A x \in Side : f[x] = IF x \in {w, y} THEN "served" ELSE g[x]
    BY <1>5, <1>6
  <2> HIDE DEF f, g
  <2>3. f = [g EXCEPT ![w] = "served", ![y] = "served"]
    BY <1>2, <2>1, <2>2
  <2>4. QED
    BY <2>3 DEF f, g
<1>8. PairsOf' = PairsOf
  BY <1>1 DEF PairsOf
<1>9. Meeting!Serve(w, y)
  BY <1>1, <1>2, <1>7, <1>8 DEF Meeting!Serve
<1>10. QED
  BY <1>2, <1>9 DEF Meeting!Next

\* A thread ends: alone, or with the side it was sent.
LEMMA OverMeets ==
  ASSUME IInv, Hold, NEW w \in Side, Forget(w) \/ Refused(w) \/ PumpEnds(w)
  PROVE  Meeting!Next
<1> DEFINE y == inbox[w]
<1>1. PICK how \in {"timed_out", "closed"} :
        /\ pc[w] \in {"late", "matched", "pumping"}
        /\ pc' = Over(w, how) /\ inbox' = inbox /\ hello' = hello
  BY DEF Forget, Refused, PumpEnds
<1>2. StageOf' = [x \in Side |-> IF x \in {w, y} THEN "gone" ELSE StageOf[x]]
  BY <1>1, OverStage
<1>3. PairsOf' = PairsOf
  BY <1>1 DEF PairsOf
<1>4. StageOf = [x \in Side |-> StageOf[x]]
  BY DEF StageOf
<1>5. CASE y = NoSide
  <2>1. pc[w] = "late" /\ StageOf[w] = "waiting"
    BY <1>1, <1>5, OwnStage DEF IInv, TypeOK
  <2>2. StageOf' = [StageOf EXCEPT ![w] = "gone"]
    <3> DEFINE f == StageOf'
               g == StageOf
    <3>1. \A x \in Side : x # y
      BY <1>5, SentinelAssumption
    <3>2. f = [x \in Side |-> IF x = w THEN "gone" ELSE g[x]]
      BY <1>2, <3>1
    <3>3. g = [x \in Side |-> g[x]]
      BY <1>4
    <3> HIDE DEF f, g
    <3>4. f = [g EXCEPT ![w] = "gone"]
      BY <3>2, <3>3
    <3>5. QED
      BY <3>4 DEF f, g
  <2>3. Meeting!GiveUp(w)
    BY <1>1, <1>3, <2>1, <2>2 DEF Meeting!GiveUp
  <2>4. QED
    BY <2>3 DEF Meeting!Next
<1>6. CASE y # NoSide
  <2>1. Holding(w)
    BY <1>1, <1>6 DEF Holding
  <2>2. /\ y \in Side /\ y # w /\ <<w, y>> \in PairsOf
        /\ StageOf[w] = StageOf[y] /\ StageOf[w] \in {"met", "served"}
    BY <2>1, PairStage
  <2>3. StageOf' = [StageOf EXCEPT ![w] = "gone", ![y] = "gone"]
    <3> DEFINE f == StageOf'
               g == StageOf
    <3>1. f = [x \in Side |-> IF x \in {w, y} THEN "gone" ELSE g[x]]
      BY <1>2
    <3>2. g = [x \in Side |-> g[x]]
      BY <1>4
    <3> HIDE DEF f, g
    <3>3. f = [g EXCEPT ![w] = "gone", ![y] = "gone"]
      BY <2>2, <3>1, <3>2
    <3>4. QED
      BY <3>3 DEF f, g
  <2>4. Meeting!Part(w, y)
    BY <1>1, <1>3, <2>2, <2>3 DEF Meeting!Part
  <2>5. QED
    BY <2>2, <2>4 DEF Meeting!Next
<1>7. QED
  BY <1>5, <1>6

\* Whatever sides come, wait, time out and leave, the relay's threads, table and
\* channels bring about nothing that Rendezvous does not allow.
THEOREM SidesRendezvous == Spec => MeetsAsPromised
<1>1. Init => Meeting!Init
  <2> SUFFICES ASSUME Init PROVE Meeting!Init
    OBVIOUS
  <2>1. StageOf = [s \in Side |-> "new"]
    BY DEF Init, StageOf
  <2>2. PairsOf = {}
    <3>1. \A p \in Side \X Side : inbox[p[1]] = NoSide /\ p[2] # NoSide
      BY SentinelAssumption DEF Init
    <3>2. QED
      BY <3>1 DEF PairsOf
  <2>3. QED
    BY <2>1, <2>2 DEF Init, Meeting!Init
<1>2. ASSUME IInv, Hold, [Next]_vars
      PROVE  [Meeting!Next]_<<StageOf, hello, PairsOf>>
  <2>1. CASE UNCHANGED vars
    <3>1. UNCHANGED <<pc, hello, inbox>>
      BY <2>1 DEF vars
    <3>2. QED
      BY <3>1 DEF StageOf, PairsOf, Served
  <2>2. CASE Next
    BY <1>2, <2>2, LeaveMeets, HelloMeets, QuietMeets, AdmittedMeets, OverMeets DEF Next
  <2>3. QED
    BY <1>2, <2>1, <2>2
<1>3. QED
  BY <1>1, <1>2, Invariant, HoldInvariant, PTL
  DEF Spec, MeetsAsPromised, Meeting!Spec, Meeting!parties

=============================================================================
