---------------------------- MODULE RelayPairing ----------------------------
(***************************************************************************)
(* How the relay brings the two sides of a ticket together: accept_side in *)
(* services/relay/src/main.rs, one thread per connection.  The first side  *)
(* leaves the sending end of a channel in the table "pending" and waits at *)
(* the receiving end; the second takes it out and sends its own connection *)
(* through, and its thread is over.  The first then has the ticket         *)
(* admitted (RelayTickets) and forwards between the two.                   *)
(*                                                                         *)
(* A wait that times out takes "pending" in a second step, and another     *)
(* side may come between.  A connection belongs to the thread that has it, *)
(* or to the channel it is in, and is closed when that is dropped.         *)
(***************************************************************************)
EXTENDS FiniteSets

CONSTANTS
  Side,    \* connections to the relay
  Ticket   \* the tickets their hellos name

NoSide   == "no side"
NoTicket == "no ticket"
NoRole   == "no role"

ASSUME SentinelAssumption == NoSide \notin Side /\ NoTicket \notin Ticket

VARIABLES
  pc,       \* where the thread of each connection is
  hello,    \* the hello it read
  pending,  \* App.pending: whose sender is in the table under each ticket
  inbox     \* the side whose connection is in, or was taken from, a channel

vars == <<pc, hello, pending, inbox>>

Role == {"controller", "host"}

Hello == [ticket: Ticket \cup {NoTicket}, role: Role \cup {NoRole}]

\* given: the connection is another thread's.  late: recv_timeout has returned
\* and pending is not locked yet.  timed_out, closed: the connection is gone.
Step == {"connecting", "waiting", "late", "matched", "pumping", "given",
         "timed_out", "closed"}

-----------------------------------------------------------------------------
Init ==
  /\ pc = [s \in Side |-> "connecting"]
  /\ hello = [s \in Side |-> [ticket |-> NoTicket, role |-> NoRole]]
  /\ pending = [t \in Ticket |-> NoSide]
  /\ inbox = [s \in Side |-> NoSide]

\* The hello cannot be read, or is not one.
HelloFails(s) ==
  /\ pc[s] = "connecting"
  /\ pc' = [pc EXCEPT ![s] = "closed"]
  /\ UNCHANGED <<hello, pending, inbox>>

\* Nobody is there yet: wait.
Wait(s, t) ==
  /\ pending[t] = NoSide
  /\ pending' = [pending EXCEPT ![t] = s]
  /\ pc' = [pc EXCEPT ![s] = "waiting"]
  /\ UNCHANGED inbox

RefuseSameSideLosingIt(s, t, r) ==
  /\ pending[t] # NoSide /\ hello[pending[t]].role = r
  /\ pending' = [pending EXCEPT ![t] = NoSide]
  /\ pc' = [pc EXCEPT ![s] = "closed"]
  /\ UNCHANGED inbox

\* The same side is there already: it is put back, and this one is closed.
RefuseSameSide(s, t, r) ==
  /\ pending[t] # NoSide /\ hello[pending[t]].role = r
  /\ pc' = [pc EXCEPT ![s] = "closed"]
  /\ UNCHANGED <<pending, inbox>>

GiveAny(s, t, r) ==
  LET w == pending[t] IN
  /\ w # NoSide
  /\ pending' = [pending EXCEPT ![t] = NoSide]
  /\ inbox' = [inbox EXCEPT ![w] = s]
  /\ pc' = [pc EXCEPT ![s] = "given"]

\* The other side is there: it is taken out and sent this connection.  (It
\* still has its receiver: PendingWaits.)
Give(s, t, r) ==
  LET w == pending[t] IN
  /\ w # NoSide /\ hello[w].role # r
  /\ pending' = [pending EXCEPT ![t] = NoSide]
  /\ inbox' = [inbox EXCEPT ![w] = s]
  /\ pc' = [pc EXCEPT ![s] = "given"]

\* accept_side from the hello to the end of its lock on pending
ReadHello(s, t, r) ==
  /\ pc[s] = "connecting"
  /\ hello' = [hello EXCEPT ![s] = [ticket |-> t, role |-> r]]
  /\ Wait(s, t) \/ RefuseSameSide(s, t, r) \/ Give(s, t, r)

ReceiveNobody(w) ==
  /\ pc[w] = "waiting"
  /\ pc' = [pc EXCEPT ![w] = "matched"]
  /\ UNCHANGED <<hello, pending, inbox>>

\* recv_timeout returns the other side's connection.
Receive(w) ==
  /\ pc[w] = "waiting" /\ inbox[w] # NoSide
  /\ pc' = [pc EXCEPT ![w] = "matched"]
  /\ UNCHANGED <<hello, pending, inbox>>

NeverTimeOut(w) == FALSE /\ UNCHANGED vars

\* PAIR_WAIT has passed and the channel is empty.
TimeOut(w) ==
  /\ pc[w] = "waiting" /\ inbox[w] = NoSide
  /\ pc' = [pc EXCEPT ![w] = "late"]
  /\ UNCHANGED <<hello, pending, inbox>>

\* The thread of w is over; so is the connection it was sent, if any.
Over(w, how) ==
  [s \in Side |-> IF s = w THEN how
                  ELSE IF s = inbox[w] THEN "closed" ELSE pc[s]]

\* Whatever pending has under the ticket goes: the entry of this side, or of
\* another one that came after this one was taken out.
Forget(w) ==
  /\ pc[w] = "late"
  /\ pending' = [pending EXCEPT ![hello[w].ticket] = NoSide]
  /\ pc' = Over(w, "timed_out")
  /\ UNCHANGED <<hello, inbox>>

Admitted(w) ==
  /\ pc[w] = "matched"
  /\ pc' = [pc EXCEPT ![w] = "pumping"]
  /\ UNCHANGED <<hello, pending, inbox>>

\* The control plane refuses, or does not answer.
Refused(w) ==
  /\ pc[w] = "matched"
  /\ pc' = Over(w, "closed")
  /\ UNCHANGED <<hello, pending, inbox>>

\* pump returns: one side is gone, or the control plane has stopped it.
PumpEnds(w) ==
  /\ pc[w] = "pumping"
  /\ pc' = Over(w, "closed")
  /\ UNCHANGED <<hello, pending, inbox>>

Next ==
  \E s \in Side :
    \/ HelloFails(s)
    \/ \E t \in Ticket, r \in Role : ReadHello(s, t, r)
    \/ Receive(s) \/ TimeOut(s) \/ Forget(s)
    \/ Admitted(s) \/ Refused(s) \/ PumpEnds(s)

Spec == Init /\ [][Next]_vars

\* A thread that can go on goes on; admit answers or gives up after 5 seconds.
\* (Nothing makes a client send its hello, or a pump end.)
Fairness ==
  \A s \in Side : WF_vars(Receive(s) \/ TimeOut(s) \/ Forget(s)
                            \/ Admitted(s) \/ Refused(s))

FairSpec == Spec /\ Fairness

-----------------------------------------------------------------------------
(* Properties *)

TypeOK ==
  /\ pc \in [Side -> Step]
  /\ hello \in [Side -> Hello]
  /\ pending \in [Ticket -> Side \cup {NoSide}]
  /\ inbox \in [Side -> Side \cup {NoSide}]
  /\ \A s \in Side : /\ pc[s] \in Step \ {"connecting", "closed"} =>
                          hello[s].ticket # NoTicket /\ hello[s].role # NoRole
                     /\ pc[s] \in {"matched", "pumping"} => inbox[s] # NoSide

\* Whoever is in pending still waits for that ticket, and was sent nobody: the
\* send of a second side never fails, and never overtakes another one.
PendingWaits ==
  \A t \in Ticket : pending[t] # NoSide =>
    /\ pc[pending[t]] \in {"waiting", "late"}
    /\ hello[pending[t]].ticket = t
    /\ inbox[pending[t]] = NoSide

\* The relay only ever joins a controller and a host that named the same
\* ticket, and no connection to two others.
PairsMatch ==
  \A w \in Side : inbox[w] # NoSide =>
    /\ hello[w].ticket = hello[inbox[w]].ticket
    /\ hello[w].role # hello[inbox[w]].role
    /\ \A v \in Side : inbox[v] = inbox[w] => v = w
    /\ inbox[inbox[w]] = NoSide

\* A connection that was handed over is in the hands of a thread, or in the
\* channel of one, that has not ended.
GivenIsHeld ==
  \A s \in Side : pc[s] = "given" =>
    \E w \in Side : /\ inbox[w] = s
                    /\ pc[w] \in {"waiting", "late", "matched", "pumping"}

Alone(s) == pc[s] = "waiting" /\ inbox[s] = NoSide

\* Two sides of a ticket find each other: both wait in vain only if another side
\* of that ticket timed out before, whose late removal may have hit one of them.
TwoSidesMeet ==
  \A s, x \in Side :
    /\ Alone(s) /\ Alone(x)
    /\ hello[s].ticket = hello[x].ticket /\ hello[s].role # hello[x].role
    => \E w \in Side : pc[w] = "timed_out" /\ hello[w].ticket = hello[s].ticket

Served(s) == \/ pc[s] = "pumping"
             \/ \E w \in Side : inbox[w] = s /\ pc[w] = "pumping"

\* What the user of a connection sees of it: handed over or not, it is where
\* the thread that has it is.
StageOf ==
  [s \in Side |->
     IF pc[s] = "connecting" THEN "new"
     ELSE IF pc[s] \in {"closed", "timed_out"} THEN "gone"
     ELSE IF Served(s) THEN "served"
     ELSE IF pc[s] \in {"waiting", "late"} /\ inbox[s] = NoSide THEN "waiting"
     ELSE "met"]

PairsOf == {p \in Side \X Side : inbox[p[1]] = p[2]}

\* The threads, the table and the channels keep what Rendezvous promises: only
\* a controller and a host of one ticket meet, each once; they are served and
\* closed together, whichever thread gives up, and nobody is turned away but
\* for his own side's sake.
Meeting == INSTANCE Rendezvous
           WITH stage <- StageOf, said <- hello, pairs <- PairsOf
MeetsAsPromised == Meeting!Spec

\* No side hangs in the relay: once it has said hello, it is served or closed,
\* whether it waited or was handed to a thread that then gave up.
NoSideHangs ==
  \A s \in Side :
    pc[s] \in {"waiting", "late", "matched", "given"}
      ~> Served(s) \/ pc[s] \in {"closed", "timed_out"}

=============================================================================
