------------------------ MODULE RelayTickets_proofs ------------------------
(***************************************************************************)
(* Theorems about RelayTickets for any number of sessions, tickets, grants *)
(* connections and relay threads: its types, that a session never has two  *)
(* live tickets, that only an active session is charged, what the ledger   *)
(* says (how far a grant can be overdrawn, that no heartbeat is charged    *)
(* twice, that a relay goes on only on bytes that were paid), and that it  *)
(* implements MeteredSession.                                              *)
(*                                                                         *)
(* None but the first is inductive alone.  They rest on what a connection  *)
(* that is past the checks of heartbeat knows as long as it holds the      *)
(* session's row (HeldRows), and on tickets being admitted only once their *)
(* session is no longer awaiting the host (Admissions).  The ledger's rest *)
(* on what the remainders that connections have read may still lead them   *)
(* to take (Remainders, Claims), and on sums over finite sets, about which *)
(* the lemmas come first in the ledger's part.                             *)
(***************************************************************************)
EXTENDS RelayTickets, FiniteSetTheorems, TLAPS

\* A heartbeat transaction between its checks and its commit.
Inside(w) == txn[w].pc \in {"deduct", "grants", "write"}

\* Whatever names a ticket names one that was issued.
NamedTickets ==
  /\ \A r \in sent : Issued(r.tick)
  /\ \A w \in Worker : txn[w].tick # NoTicket => Issued(txn[w].tick)
  /\ \A p \in Pump : pump[p].tick # NoTicket => Issued(pump[p].tick)
  /\ \A i \in HeartbeatId :
       heartbeats[i].next # NoTicket => Issued(heartbeats[i].next)
  /\ \A t \in Ticket : Issued(t) => state[SessionOf(t)] # "absent"

\* Before the host's answer no ticket is admitted, nor about to be.
Admissions ==
  /\ \A t \in Ticket :
       Issued(t) /\ state[SessionOf(t)] = "awaiting_host_consent"
         => ~ticket[t].admitted
  /\ \A w \in Worker :
       txn[w].pc = "admit"
         => state[SessionOf(txn[w].tick)] # "awaiting_host_consent"

\* The transaction that is charging a session holds its row; the session is
\* active, and no ticket but the one it charges can be live.
HeldRows ==
  \A w \in Worker : Inside(w) =>
    /\ lock[SessionOf(txn[w].tick)] = w
    /\ state[SessionOf(txn[w].tick)] = "active"
    /\ \A t \in LiveTickets(SessionOf(txn[w].tick)) : t = txn[w].tick

IInv == TypeOK /\ NamedTickets /\ Admissions /\ HeldRows /\ OneLiveTicket

-----------------------------------------------------------------------------
(* Types *)

LEMMA TypeInit == Init => TypeOK
  BY SentinelAssumption, BytesAssumption
  DEF Init, TypeOK, TxnOK, PumpOK, SessionState, Bitrate, TicketRow, Unissued,
      HeartbeatRow, NoRow, Transaction, TxnStep, Idle, PumpRecord, PumpStep,
      Unstarted, Request

\* A ticket that issueRelayFields or rotateTicket inserts takes an unused name.
LEMMA NewTicketUnused ==
  ASSUME Unused # {} PROVE NewTicket \in Ticket /\ ~Issued(NewTicket)
  BY DEF Unused, NewTicket

LEMMA NewIdUnsent ==
  ASSUME Unsent # {} PROVE NewId \in Unsent
  BY DEF Unsent, NewId

\* issueRelayFields changes nothing, or inserts one ticket when every ticket of
\* the session has been revoked or admitted.
LEMMA IssueCases ==
  ASSUME NEW s, IssueRelayFields(s)
  PROVE  \/ ticket' = ticket
         \/ /\ Unused # {}
            /\ \A t \in LiveTickets(s) : ticket[t].admitted
            /\ ticket' = [ticket EXCEPT ![NewTicket] = FreshTicket(s, FALSE)]
  BY Zenon DEF IssueRelayFields, LiveTickets

LEMMA IssueType ==
  ASSUME TypeOK, NEW s \in Session, IssueRelayFields(s)
  PROVE  ticket' \in [Ticket -> TicketRow]
<1>1. CASE ticket' = ticket
  BY <1>1 DEF TypeOK
<1>2. CASE /\ Unused # {}
           /\ ticket' = [ticket EXCEPT ![NewTicket] = FreshTicket(s, FALSE)]
  BY <1>2, NewTicketUnused DEF TypeOK, FreshTicket, TicketRow
<1>3. QED
  BY <1>1, <1>2, IssueCases

LEMMA EnsureType ==
  ASSUME TypeOK, EnsureFreeGrant
  PROVE  grantState' \in [Grant -> {"absent", "open", "expired"}]
  BY DEF TypeOK, EnsureFreeGrant

LEMMA TypeSession ==
  ASSUME TypeOK, SessionNext
  PROVE  TypeOK'
<1>1. ASSUME NEW s \in Session, Open(s) PROVE TypeOK'
  BY <1>1, IssueType, EnsureType
  DEF Open, TypeOK, TxnOK, PumpOK, SessionState, relayVars, lockVars
<1>2. ASSUME NEW s \in Session, Consent(s) PROVE TypeOK'
  BY <1>2, IssueType, EnsureType
  DEF Consent, TypeOK, TxnOK, PumpOK, SessionState, relayVars, lockVars
<1>3. ASSUME NEW s \in Session, RejectIncoming(s) PROVE TypeOK'
  BY <1>3 DEF RejectIncoming, TypeOK, TxnOK, PumpOK, SessionState, ledgerVars,
              relayVars, lockVars
<1>4. ASSUME NEW h \in Host, StopRevoke(h) PROVE TypeOK'
  BY <1>4 DEF StopRevoke, TypeOK, TxnOK, PumpOK, TicketRow, sessionVars,
              ledgerVars, relayVars, lockVars
<1>5. ASSUME NEW h \in Host, StopClose(h) PROVE TypeOK'
  BY <1>5 DEF StopClose, TypeOK, TxnOK, PumpOK, SessionState, ledgerVars,
              relayVars, lockVars
<1>6. QED
  BY <1>1, <1>2, <1>3, <1>4, <1>5 DEF SessionNext

LEMMA TypeWorld ==
  ASSUME TypeOK, WorldNext
  PROVE  TypeOK'
<1>1. ASSUME NEW t \in Ticket, TicketExpires(t) PROVE TypeOK'
  BY <1>1 DEF TicketExpires, TypeOK, TxnOK, PumpOK, TicketRow, sessionVars,
              ledgerVars, relayVars, lockVars
<1>2. ASSUME NEW g \in Grant, GrantInserted(g) PROVE TypeOK'
  BY <1>2 DEF GrantInserted, TypeOK, TxnOK, PumpOK, sessionVars, relayVars,
              lockVars
<1>3. ASSUME NEW g \in Grant, GrantExpires(g) PROVE TypeOK'
  BY <1>3 DEF GrantExpires, TypeOK, TxnOK, PumpOK, sessionVars, relayVars,
              lockVars
<1>4. QED
  BY <1>1, <1>2, <1>3 DEF WorldNext

LEMMA TypePump ==
  ASSUME TypeOK, PumpNext
  PROVE  TypeOK'
<1>1. ASSUME NEW p \in Pump, NEW n \in Bytes, PumpSend(p, n) PROVE TypeOK'
  BY <1>1, NewIdUnsent, BytesAssumption, SentinelAssumption
  DEF PumpSend, TypeOK, TxnOK, PumpOK, PumpRecord, PumpStep, Request, Unsent,
      sessionVars, ledgerVars, lockVars
<1>2. ASSUME NEW p \in Pump, PumpReply(p) PROVE TypeOK'
  <2>1. pump' \in [Pump -> PumpRecord] /\ PumpOK'
    <3>1. CASE pump' = [pump EXCEPT ![p] = Ended]
      BY <3>1 DEF TypeOK, PumpOK, PumpRecord, PumpStep, Ended
    <3>2. CASE /\ pump[p].pc = "waiting"
               /\ heartbeats[pump[p].id].next # NoTicket
               /\ pump' = [pump EXCEPT ![p] =
                    [pc |-> "running", id |-> NoId,
                     tick |-> heartbeats[pump[p].id].next]]
      <4>1. heartbeats[pump[p].id].next \in Ticket
        BY <3>2 DEF TypeOK, PumpOK, PumpRecord, HeartbeatRow
      <4>2. QED
        BY <3>2, <4>1, SentinelAssumption
        DEF TypeOK, PumpOK, PumpRecord, PumpStep
    <3>3. QED
      BY <1>2, <3>1, <3>2, Zenon DEF PumpReply
  <2>2. QED
    BY <1>2, <2>1
    DEF PumpReply, TypeOK, TxnOK, sessionVars, ledgerVars, lockVars
<1>3. ASSUME NEW p \in Pump, PumpBreak(p) PROVE TypeOK'
  BY <1>3
  DEF PumpBreak, TypeOK, TxnOK, PumpOK, PumpRecord, PumpStep, Ended,
      sessionVars, ledgerVars, lockVars
<1>4. QED
  BY <1>1, <1>2, <1>3 DEF PumpNext

LEMMA IdleType == Idle \in Transaction
  BY BytesAssumption DEF Idle, Transaction, TxnStep

\* A connection's record after a step that only moves it on.
LEMMA TxnMoves ==
  ASSUME TypeOK, NEW w \in Worker, NEW pc \in {"deduct", "grants", "write"},
         NEW rem \in [Grant -> Int], NEW gone \in SUBSET Grant,
         txn[w].pc \notin {"idle", "admit"},
         txn' = [txn EXCEPT ![w] = [@ EXCEPT !.pc = pc, !.remaining = rem,
                                             !.gone = gone]]
  PROVE  txn' \in [Worker -> Transaction] /\ TxnOK'
<1> DEFINE r == [txn[w] EXCEPT !.pc = pc, !.remaining = rem, !.gone = gone]
<1>1. txn[w] \in Transaction
  BY DEF TypeOK
<1>2. r \in Transaction
  BY <1>1 DEF Transaction, TxnStep
<1>3. /\ r.pc = pc /\ r.tick = txn[w].tick /\ r.pump = txn[w].pump
      /\ r.id = txn[w].id
  BY <1>1 DEF Transaction
<1>4. txn' = [txn EXCEPT ![w] = r]
  OBVIOUS
<1> HIDE DEF r
<1>5. txn' \in [Worker -> Transaction]
  BY <1>2, <1>4 DEF TypeOK
<1>6. TxnOK'
  BY <1>3, <1>4 DEF TypeOK, TxnOK
<1>7. QED
  BY <1>5, <1>6

LEMMA TypeWorker ==
  ASSUME TypeOK, NEW w \in Worker,
         \/ \E p \in Pump, t \in Ticket : AdmitLoad(w, p, t)
         \/ \E r \in sent : HeartbeatBegin(w, r)
         \/ AdmitCommit(w)
         \/ HeartbeatReplay(w) \/ HeartbeatRefuse(w) \/ HeartbeatAccept(w)
         \/ DeductRead(w) \/ DeductLock(w)
         \/ Abort(w)
  PROVE  TypeOK'
<1>1. ASSUME NEW p \in Pump, NEW t \in Ticket, AdmitLoad(w, p, t) PROVE TypeOK'
  <2> DEFINE r == [Idle EXCEPT !.pc = "admit", !.tick = t, !.pump = p]
  <2>1. /\ r \in Transaction
        /\ r.pc = "admit" /\ r.tick = t /\ r.pump = p /\ r.id = NoId
    BY IdleType DEF Idle, Transaction, TxnStep
  <2>2. txn' = [txn EXCEPT ![w] = r]
    BY <1>1 DEF AdmitLoad
  <2> HIDE DEF r
  <2>3. txn' \in [Worker -> Transaction] /\ TxnOK'
    BY <2>1, <2>2, SentinelAssumption DEF TypeOK, TxnOK
  <2>4. pump' \in [Pump -> PumpRecord] /\ PumpOK'
    BY <1>1, SentinelAssumption
    DEF AdmitLoad, TypeOK, PumpOK, PumpRecord, PumpStep
  <2>5. QED
    BY <1>1, <2>3, <2>4 DEF AdmitLoad, TypeOK, sessionVars, ledgerVars, lockVars
<1>2. ASSUME NEW r \in sent, HeartbeatBegin(w, r) PROVE TypeOK'
  <2> DEFINE q == [Idle EXCEPT !.pc = "locking", !.id = r.id, !.tick = r.tick,
                               !.bytes = r.bytes]
  <2>1. r \in Request
    BY DEF TypeOK
  <2>2. /\ q \in Transaction
        /\ q.pc = "locking" /\ q.tick = r.tick /\ q.pump = NoPump /\ q.id = r.id
    BY <2>1, IdleType DEF Idle, Transaction, TxnStep, Request
  <2>3. txn' = [txn EXCEPT ![w] = q]
    BY <1>2 DEF HeartbeatBegin
  <2> HIDE DEF q
  <2>4. r.tick # NoTicket /\ r.id # NoId
    BY <2>1, SentinelAssumption DEF Request
  <2>5. txn' \in [Worker -> Transaction] /\ TxnOK'
    BY <2>2, <2>3, <2>4 DEF TypeOK, TxnOK
  <2>6. QED
    BY <1>2, <2>5
    DEF HeartbeatBegin, TypeOK, PumpOK, sessionVars, ledgerVars, relayVars,
        lockVars
<1>3. CASE AdmitCommit(w)
  <2>1. txn' \in [Worker -> Transaction] /\ TxnOK'
    BY <1>3, IdleType DEF AdmitCommit, TypeOK, TxnOK, Idle
  <2>2. ticket' \in [Ticket -> TicketRow]
    BY <1>3 DEF AdmitCommit, TypeOK, TicketRow
  <2>3. pump' \in [Pump -> PumpRecord] /\ PumpOK'
    <3> DEFINE p == txn[w].pump
    <3>1. p \in Pump
      BY <1>3 DEF AdmitCommit, TypeOK, TxnOK, Transaction
    <3>2. CASE pump' = pump
      BY <3>2 DEF TypeOK, PumpOK
    <3>3. CASE pump[p].pc = "admitting" /\ pump' = [pump EXCEPT ![p].pc = "running"]
      BY <3>1, <3>3 DEF TypeOK, PumpOK, PumpRecord, PumpStep
    <3>4. QED
      BY <1>3, <3>2, <3>3, Zenon DEF AdmitCommit
  <2>4. QED
    BY <1>3, <2>1, <2>2, <2>3
    DEF AdmitCommit, TypeOK, sessionVars, ledgerVars, lockVars
<1>4. CASE HeartbeatReplay(w)
  BY <1>4, BytesAssumption
  DEF HeartbeatReplay, TypeOK, TxnOK, PumpOK, Transaction, TxnStep, Idle,
      sessionVars, ledgerVars, relayVars, lockVars
<1>5. CASE HeartbeatRefuse(w)
  BY <1>5, BytesAssumption
  DEF HeartbeatRefuse, HasRow, TypeOK, TxnOK, PumpOK, Transaction, TxnStep,
      Idle, sessionVars, ledgerVars, relayVars, lockVars
<1>6. CASE HeartbeatAccept(w)
  <2> DEFINE pc == IF txn[w].bytes > 0 THEN "deduct" ELSE "write"
  <2>1. txn[w] \in Transaction
    BY DEF TypeOK
  <2>2. txn' = [txn EXCEPT ![w] = [@ EXCEPT !.pc = pc,
                                           !.remaining = txn[w].remaining,
                                           !.gone = Over]]
    BY <1>6, <2>1 DEF HeartbeatAccept, TypeOK, Transaction
  <2>3. txn' \in [Worker -> Transaction] /\ TxnOK'
    <3>1. /\ pc \in {"deduct", "grants", "write"}
          /\ txn[w].remaining \in [Grant -> Int] /\ Over \in SUBSET Grant
          /\ txn[w].pc \notin {"idle", "admit"}
      BY <1>6, <2>1 DEF HeartbeatAccept, HasRow, Over, Transaction
    <3> HIDE DEF pc
    <3>2. QED
      BY <2>2, <3>1, TxnMoves
  <2>4. lock' \in [Session -> Worker \cup {Nobody}]
    BY <1>6 DEF HeartbeatAccept, TypeOK
  <2>5. QED
    BY <1>6, <2>3, <2>4
    DEF HeartbeatAccept, TypeOK, PumpOK, sessionVars, ledgerVars, relayVars
<1>7. CASE DeductRead(w)
  <2>1. Remaining(used, txn[w].gone) \in [Grant -> Int]
    BY GrantAssumption DEF Remaining, TypeOK, Grant
  <2> DEFINE pc  == IF Usable(txn[w].gone) = {} THEN "write" ELSE "grants"
             rem == Remaining(used, txn[w].gone)
  <2>2. txn[w] \in Transaction
    BY DEF TypeOK
  <2>3. txn' = [txn EXCEPT ![w] = [@ EXCEPT !.pc = pc, !.remaining = rem,
                                           !.gone = txn[w].gone]]
    BY <1>7, <2>2 DEF DeductRead, TypeOK, Transaction
  <2>4. txn' \in [Worker -> Transaction] /\ TxnOK'
    <3>1. /\ pc \in {"deduct", "grants", "write"}
          /\ txn[w].gone \in SUBSET Grant
          /\ txn[w].pc \notin {"idle", "admit"}
      BY <1>7, <2>2 DEF DeductRead, Transaction
    <3> HIDE DEF pc, rem
    <3>2. rem \in [Grant -> Int]
      BY <2>1 DEF rem
    <3>3. QED
      BY <2>3, <3>1, <3>2, TxnMoves
  <2>5. QED
    BY <1>7, <2>4
    DEF DeductRead, TypeOK, PumpOK, sessionVars, ledgerVars, relayVars, lockVars
<1>8. CASE DeductLock(w)
  <2>1. txn[w] \in Transaction
    BY DEF TypeOK
  <2>2. txn' = [txn EXCEPT ![w] = [@ EXCEPT !.pc = "write",
                                           !.remaining = txn[w].remaining,
                                           !.gone = txn[w].gone]]
    BY <1>8, <2>1 DEF DeductLock, TypeOK, Transaction
  <2>3. txn' \in [Worker -> Transaction] /\ TxnOK'
    <3>1. /\ txn[w].remaining \in [Grant -> Int]
          /\ txn[w].gone \in SUBSET Grant
          /\ txn[w].pc \notin {"idle", "admit"}
      BY <1>8, <2>1 DEF DeductLock, Transaction
    <3>2. QED
      BY <2>2, <3>1, TxnMoves
  <2>4. QED
    BY <1>8, <2>3
    DEF DeductLock, TypeOK, PumpOK, sessionVars, ledgerVars, relayVars
<1>9. CASE Abort(w)
  BY <1>9, BytesAssumption
  DEF Abort, Unlocked, TypeOK, TxnOK, PumpOK, Transaction, TxnStep, Idle,
      sessionVars, ledgerVars, relayVars
<1>10. QED
  BY <1>1, <1>2, <1>3, <1>4, <1>5, <1>6, <1>7, <1>8, <1>9

\* What the three endings of a heartbeat do to the session, its tickets and the
\* heartbeat's row.
LEMMA TypeDecision ==
  ASSUME TypeOK, NEW w \in Worker, txn[w].pc = "write", NEW left,
         StopForBalance(w, left) \/ StopForRealName(w, left)
           \/ RotateTicket(w, left)
  PROVE  /\ state' \in [Session -> SessionState]
         /\ bitrate' \in [Session -> Bitrate]
         /\ ticket' \in [Ticket -> TicketRow]
         /\ heartbeats' \in [HeartbeatId -> HeartbeatRow]
<1>1. txn[w].tick \in Ticket /\ SessionOf(txn[w].tick) \in Session \cup {NoSession}
  BY DEF TypeOK, TxnOK, Transaction, TicketRow, SessionOf
<1>2. Revoked(txn[w].tick) \in [Ticket -> TicketRow]
  BY <1>1 DEF Revoked, TypeOK, TicketRow
<1>3. CASE StopForBalance(w, left)
  BY <1>1, <1>2, <1>3
  DEF StopForBalance, TypeOK, SessionState, HeartbeatRow, Transaction
<1>4. CASE StopForRealName(w, left)
  BY <1>1, <1>2, <1>4 DEF StopForRealName, TypeOK, HeartbeatRow, Transaction
<1>5. CASE RotateTicket(w, left)
  <2>1. NewTicket \in Ticket
    BY <1>5, NewTicketUnused DEF RotateTicket
  <2>2. FreshTicket(SessionOf(txn[w].tick), TRUE) \in TicketRow
    BY <1>1 DEF FreshTicket, TicketRow
  <2>3. ticket' \in [Ticket -> TicketRow]
    BY <1>2, <1>5, <2>1, <2>2 DEF RotateTicket
  <2>4. bitrate' \in [Session -> Bitrate]
    BY <1>5 DEF RotateTicket, TypeOK, Bitrate
  <2>5. QED
    BY <1>1, <1>5, <2>1, <2>3, <2>4
    DEF RotateTicket, TypeOK, HeartbeatRow, Transaction
<1>6. QED
  BY <1>3, <1>4, <1>5

LEMMA TypeCommit ==
  ASSUME TypeOK, NEW w \in Worker, HeartbeatCommit(w)
  PROVE  TypeOK'
<1>1. PICK left : StopForBalance(w, left) \/ StopForRealName(w, left)
                    \/ RotateTicket(w, left)
  BY DEF HeartbeatCommit
<1>2. /\ state' \in [Session -> SessionState]
      /\ bitrate' \in [Session -> Bitrate]
      /\ ticket' \in [Ticket -> TicketRow]
      /\ heartbeats' \in [HeartbeatId -> HeartbeatRow]
  BY <1>1, TypeDecision DEF HeartbeatCommit
<1>3. PICK take \in [Grant -> 0 .. MaxBytes], all \in 0 .. txn[w].bytes :
        /\ used' = [g \in Grant |-> used[g] + take[g]]
        /\ charged' = [charged EXCEPT ![SessionOf(txn[w].tick)] = @ + all]
  BY DEF HeartbeatCommit
<1>4. used' \in [Grant -> Nat] /\ charged' \in [Session -> Nat]
  <2>1. all \in Nat /\ \A g \in Grant : take[g] \in Nat
    BY <1>3, BytesAssumption DEF TypeOK, Transaction
  <2>2. used \in [Grant -> Nat] /\ charged \in [Session -> Nat]
    BY DEF TypeOK
  <2>3. used' \in [Grant -> Nat]
    <3>1. \A g \in Grant : used[g] + take[g] \in Nat
      BY <2>1, <2>2
    <3>2. QED
      BY <1>3, <3>1, Zenon
  <2>4. charged' \in [Session -> Nat]
    <3> DEFINE s == SessionOf(txn[w].tick)
    <3>1. charged' = [charged EXCEPT ![s] = charged[s] + all]
      BY <1>3
    <3> HIDE DEF s
    <3>2. \A r \in Session : charged[r] + all \in Nat
      BY <2>1, <2>2
    <3>3. QED
      BY <2>2, <3>1, <3>2
  <2>5. QED
    BY <2>3, <2>4
<1>5. /\ lock' \in [Session -> Worker \cup {Nobody}]
      /\ grantLock' \in Worker \cup {Nobody}
  BY DEF HeartbeatCommit, Unlocked, TypeOK
<1>6. txn' \in [Worker -> Transaction] /\ TxnOK'
  BY BytesAssumption
  DEF HeartbeatCommit, TypeOK, TxnOK, Transaction, TxnStep, Idle
<1>7. QED
  BY <1>2, <1>4, <1>5, <1>6
  DEF HeartbeatCommit, TypeOK, PumpOK, relayVars

LEMMA TypeNext == TypeOK /\ [Next]_vars => TypeOK'
<1> SUFFICES ASSUME TypeOK, [Next]_vars PROVE TypeOK'
  OBVIOUS
<1>1. CASE UNCHANGED vars
  BY <1>1 DEF vars, TypeOK, TxnOK, PumpOK
<1>2. CASE WorkerNext
  BY <1>2, TypeWorker, TypeCommit DEF WorkerNext
<1>3. QED
  BY <1>1, <1>2, TypeSession, TypeWorld, TypePump DEF Next

\* Every row and record of the program keeps its type in every behaviour.
THEOREM TypeCorrect == Spec => []TypeOK
  BY TypeInit, TypeNext, PTL DEF Spec

-----------------------------------------------------------------------------
(* The inductive invariant *)

LEMMA InvInit == Init => IInv
<1> SUFFICES ASSUME Init PROVE IInv
  OBVIOUS
<1>1. \A t \in Ticket : ~Issued(t)
  BY DEF Init, Unissued, Issued, SessionOf
<1>2. \A w \in Worker : txn[w].pc = "idle" /\ txn[w].tick = NoTicket
  BY DEF Init, Idle
<1>3. NamedTickets /\ Admissions /\ HeldRows
  BY <1>1, <1>2 DEF Init, NamedTickets, Admissions, HeldRows, Inside, Unstarted,
     NoRow
<1>4. OneLiveTicket
  BY <1>1, SentinelAssumption DEF OneLiveTicket, LiveTickets, Issued
<1>5. QED
  BY <1>3, <1>4, TypeInit DEF IInv

\* A ticket that is inserted for session s into the table tk.
LEMMA Inserted ==
  ASSUME TypeOK, NEW s \in Session, NEW a \in BOOLEAN,
         NEW tk \in [Ticket -> TicketRow], Unused # {},
         ticket' = [tk EXCEPT ![NewTicket] = FreshTicket(s, a)]
  PROVE  /\ ticket'[NewTicket].sess = s
         /\ ticket'[NewTicket].admitted = a
         /\ ticket'[NewTicket].revoked = FALSE
         /\ \A t \in Ticket : t # NewTicket => ticket'[t] = tk[t]
  BY NewTicketUnused DEF FreshTicket

\* The rows a connection or a relay thread names have a session.
LEMMA NamedSession ==
  ASSUME TypeOK, NEW t \in Ticket, Issued(t)
  PROVE  SessionOf(t) \in Session
  BY DEF TypeOK, TicketRow, Issued, SessionOf

LEMMA WorkerTicket ==
  ASSUME IInv, NEW w \in Worker, txn[w].pc # "idle"
  PROVE  /\ txn[w].tick \in Ticket
         /\ Issued(txn[w].tick)
         /\ SessionOf(txn[w].tick) \in Session
  BY NamedSession DEF IInv, TypeOK, TxnOK, Transaction, NamedTickets

\* Opening a session: it had no ticket, and may get one.
LEMMA OpenInv ==
  ASSUME IInv, NEW s \in Session, Open(s), TypeOK'
  PROVE  IInv'
<1>1. /\ state[s] = "absent"
      /\ \A r \in Session : r # s => state'[r] = state[r]
      /\ state'[s] \in {"awaiting_host_consent", "active"}
      /\ txn' = txn /\ lock' = lock /\ sent' = sent /\ pump' = pump
      /\ heartbeats' = heartbeats
  BY DEF Open, IInv, TypeOK, relayVars, lockVars
<1>2. \A t \in Ticket : Issued(t) => SessionOf(t) \in Session \ {s}
  BY <1>1, NamedSession DEF IInv, NamedTickets
<1>3. \A t \in Ticket : Issued(t) => ticket'[t] = ticket[t]
  <2>1. CASE ticket' = ticket
    BY <2>1
  <2>2. CASE /\ Unused # {}
             /\ ticket' = [ticket EXCEPT ![NewTicket] = FreshTicket(s, FALSE)]
    BY <2>2, NewTicketUnused, Inserted DEF IInv, TypeOK
  <2>3. QED
    BY <2>1, <2>2, IssueCases DEF Open
<1>4. \A t \in Ticket : ~Issued(t) /\ Issued(t)' =>
        /\ t = NewTicket
        /\ ticket'[t].sess = s
        /\ ~ticket'[t].admitted
  <2>1. CASE ticket' = ticket
    BY <2>1 DEF Issued, SessionOf
  <2>2. CASE /\ Unused # {}
             /\ ticket' = [ticket EXCEPT ![NewTicket] = FreshTicket(s, FALSE)]
    BY <2>2, Inserted DEF Issued, SessionOf, IInv, TypeOK
  <2>3. QED
    BY <2>1, <2>2, IssueCases DEF Open
<1>5. NamedTickets'
  BY <1>1, <1>2, <1>3, <1>4 DEF IInv, NamedTickets, Issued, SessionOf, TypeOK,
     Transaction, Request, PumpRecord, HeartbeatRow
<1>6. Admissions'
  <2>1. ASSUME NEW t \in Ticket, Issued(t)',
               state'[ticket'[t].sess] = "awaiting_host_consent"
        PROVE  ~ticket'[t].admitted
    BY <1>1, <1>2, <1>3, <1>4, <2>1
    DEF IInv, Admissions, Issued, SessionOf
  <2>2. ASSUME NEW w \in Worker, txn[w].pc = "admit"
        PROVE  state'[ticket'[txn[w].tick].sess] # "awaiting_host_consent"
    BY <1>1, <1>2, <1>3, <2>2, WorkerTicket DEF IInv, Admissions, SessionOf
  <2>3. QED
    BY <1>1, <2>1, <2>2 DEF Admissions, SessionOf
<1>7. HeldRows'
  <2> SUFFICES ASSUME NEW w \in Worker, Inside(w)
               PROVE  /\ lock[ticket'[txn[w].tick].sess] = w
                      /\ state'[ticket'[txn[w].tick].sess] = "active"
                      /\ \A t \in Ticket :
                           /\ ticket'[t].sess = ticket'[txn[w].tick].sess
                           /\ ~ticket'[t].revoked
                           => t = txn[w].tick
    BY <1>1 DEF HeldRows, Inside, LiveTickets, SessionOf
  <2> DEFINE r == ticket[txn[w].tick].sess
  <2>1. /\ ticket'[txn[w].tick].sess = r
        /\ r \in Session \ {s}
        /\ lock[r] = w /\ state[r] = "active"
        /\ \A t \in Ticket : ticket[t].sess = r /\ ~ticket[t].revoked => t = txn[w].tick
    BY <1>2, <1>3, WorkerTicket
    DEF IInv, HeldRows, Inside, SessionOf, LiveTickets
  <2>2. \A t \in Ticket : ticket'[t].sess = r => Issued(t)
    BY <1>4, <2>1, SentinelAssumption DEF Issued, SessionOf
  <2>3. QED
    BY <1>1, <1>3, <2>1, <2>2
<1>8. OneLiveTicket'
  BY <1>2, <1>3, <1>4, SentinelAssumption
  DEF IInv, OneLiveTicket, LiveTickets, SessionOf, Issued
<1>9. QED
  BY <1>5, <1>6, <1>7, <1>8 DEF IInv

\* What a connection inside a heartbeat can rely on, in terms of the rows.
LEMMA Held ==
  ASSUME IInv, NEW w \in Worker, Inside(w)
  PROVE  /\ ticket[txn[w].tick].sess \in Session
         /\ lock[ticket[txn[w].tick].sess] = w
         /\ state[ticket[txn[w].tick].sess] = "active"
         /\ \A t \in Ticket : /\ ticket[t].sess = ticket[txn[w].tick].sess
                              /\ ~ticket[t].revoked
                              => t = txn[w].tick
  BY WorkerTicket DEF IInv, HeldRows, Inside, SessionOf, LiveTickets

LEMMA ConsentInv ==
  ASSUME IInv, NEW s \in Session, Consent(s), TypeOK'
  PROVE  IInv'
<1>1. /\ state[s] = "awaiting_host_consent"
      /\ state' = [state EXCEPT ![s] = "active"]
      /\ txn' = txn /\ lock' = lock /\ sent' = sent /\ pump' = pump
      /\ heartbeats' = heartbeats
  BY DEF Consent, IInv, TypeOK, relayVars, lockVars
<1>2. /\ \A r \in Session : r # s => state'[r] = state[r]
      /\ state'[s] = "active"
  BY <1>1 DEF IInv, TypeOK
<1>3. \/ ticket' = ticket
      \/ /\ \A t \in LiveTickets(s) : ticket[t].admitted
         /\ ticket'[NewTicket].sess = s
         /\ ~ticket'[NewTicket].admitted
         /\ NewTicket \in Ticket
         /\ \A t \in Ticket : t # NewTicket => ticket'[t] = ticket[t]
         /\ ~Issued(NewTicket)
  BY IssueCases, Inserted, NewTicketUnused DEF Consent, IInv, TypeOK
<1>4. \A t \in Ticket : Issued(t) => ticket'[t] = ticket[t]
  BY <1>3
<1>5. \A t \in Ticket : ~Issued(t) /\ ticket'[t].sess # NoSession =>
        /\ t = NewTicket
        /\ ticket'[t].sess = s
        /\ ~ticket'[t].admitted
        /\ \A u \in LiveTickets(s) : ticket[u].admitted
  BY <1>3 DEF Issued, SessionOf
<1>6. \A t \in Ticket : Issued(t) /\ ticket[t].sess = s => ~ticket[t].admitted
  BY <1>1 DEF IInv, Admissions, SessionOf
<1>7. NamedTickets'
  BY <1>1, <1>2, <1>4, <1>5, NamedSession
  DEF IInv, NamedTickets, Issued, SessionOf, TypeOK, Transaction, Request,
      PumpRecord, HeartbeatRow
<1>8. Admissions'
  <2>1. ASSUME NEW t \in Ticket, ticket'[t].sess # NoSession,
               state'[ticket'[t].sess] = "awaiting_host_consent"
        PROVE  ~ticket'[t].admitted
    BY <1>2, <1>4, <1>5, <2>1, NamedSession DEF IInv, Admissions, Issued, SessionOf
  <2>2. ASSUME NEW w \in Worker, txn[w].pc = "admit"
        PROVE  state'[ticket'[txn[w].tick].sess] # "awaiting_host_consent"
    BY <1>2, <1>4, <2>2, WorkerTicket DEF IInv, Admissions, SessionOf
  <2>3. QED
    BY <1>1, <2>1, <2>2 DEF Admissions, SessionOf, Issued
<1>9. HeldRows'
  <2> SUFFICES ASSUME NEW w \in Worker, Inside(w)
               PROVE  /\ lock[ticket'[txn[w].tick].sess] = w
                      /\ state'[ticket'[txn[w].tick].sess] = "active"
                      /\ \A t \in Ticket :
                           /\ ticket'[t].sess = ticket'[txn[w].tick].sess
                           /\ ~ticket'[t].revoked
                           => t = txn[w].tick
    BY <1>1 DEF HeldRows, Inside, LiveTickets, SessionOf
  <2> DEFINE r == ticket[txn[w].tick].sess
  <2>1. ticket'[txn[w].tick].sess = r /\ r # s
    BY <1>1, <1>4, Held, WorkerTicket DEF Inside
  <2>2. \A t \in Ticket : ticket'[t].sess = r => Issued(t)
    BY <1>5, <2>1, Held, SentinelAssumption
  <2>3. QED
    BY <1>2, <1>4, <2>1, <2>2, Held
<1>10. OneLiveTicket'
  BY <1>4, <1>5, <1>6, SentinelAssumption
  DEF IInv, OneLiveTicket, LiveTickets, SessionOf, Issued
<1>11. QED
  BY <1>7, <1>8, <1>9, <1>10 DEF IInv

\* Steps of others than the connections: tickets at most lose their life, and a
\* session whose row is held keeps its state.
LEMMA OutsideInv ==
  ASSUME IInv, TypeOK', txn' = txn, lock' = lock,
         \A t \in Ticket : /\ ticket'[t].sess = ticket[t].sess
                           /\ ticket'[t].admitted = ticket[t].admitted
                           /\ ticket[t].revoked => ticket'[t].revoked,
         \A r \in sent' : Issued(r.tick) /\ r.tick \in Ticket,
         \A p \in Pump : pump'[p].tick # NoTicket => Issued(pump'[p].tick),
         heartbeats' = heartbeats,
         \A s \in Session :
           \/ state'[s] = state[s]
           \/ /\ lock[s] = Nobody
              /\ state'[s] \notin {"absent", "awaiting_host_consent"}
  PROVE  IInv'
<1>1. \A t \in Ticket : Issued(t) => ticket[t].sess \in Session
  BY NamedSession DEF IInv, SessionOf
<1>2. NamedTickets'
  <2>1. \A p \in Pump : pump'[p].tick # NoTicket => pump'[p].tick \in Ticket
    BY DEF TypeOK, PumpRecord
  <2>2. \A w \in Worker : txn[w].tick # NoTicket => txn[w].tick \in Ticket
    BY DEF IInv, TypeOK, Transaction
  <2>3. \A i \in HeartbeatId :
          heartbeats[i].next # NoTicket => heartbeats[i].next \in Ticket
    BY DEF IInv, TypeOK, HeartbeatRow
  <2>4. \A t \in Ticket : Issued(t)' <=> Issued(t)
    BY DEF Issued, SessionOf
  <2>5. \A t \in Ticket : ticket'[t].sess # NoSession => state'[ticket'[t].sess] # "absent"
    BY <1>1 DEF IInv, NamedTickets, Issued, SessionOf
  <2>6. QED
    BY <2>1, <2>2, <2>3, <2>4, <2>5 DEF IInv, NamedTickets, Issued, SessionOf
<1>3. Admissions'
  <2>1. ASSUME NEW w \in Worker, txn[w].pc = "admit"
        PROVE  state'[ticket'[txn[w].tick].sess] # "awaiting_host_consent"
    BY <2>1, WorkerTicket DEF IInv, Admissions, SessionOf
  <2>2. QED
    BY <1>1, <2>1 DEF IInv, Admissions, Issued, SessionOf
<1>4. HeldRows'
  <2> SUFFICES ASSUME NEW w \in Worker, Inside(w)
               PROVE  /\ lock[ticket'[txn[w].tick].sess] = w
                      /\ state'[ticket'[txn[w].tick].sess] = "active"
                      /\ \A t \in Ticket :
                           /\ ticket'[t].sess = ticket'[txn[w].tick].sess
                           /\ ~ticket'[t].revoked
                           => t = txn[w].tick
    BY DEF HeldRows, Inside, LiveTickets, SessionOf
  <2>1. txn[w].tick \in Ticket /\ ticket'[txn[w].tick].sess = ticket[txn[w].tick].sess
    BY WorkerTicket DEF Inside
  <2>2. QED
    BY <2>1, Held, SentinelAssumption
<1>5. OneLiveTicket'
  BY DEF IInv, OneLiveTicket, LiveTickets, SessionOf
<1>6. QED
  BY <1>2, <1>3, <1>4, <1>5 DEF IInv

LEMMA SessionInv ==
  ASSUME IInv, SessionNext, TypeOK'
  PROVE  IInv'
<1>1. ASSUME NEW s \in Session, RejectIncoming(s) PROVE IInv'
  BY <1>1, OutsideInv
  DEF RejectIncoming, IInv, TypeOK, NamedTickets, Request, relayVars, lockVars
<1>2. ASSUME NEW h \in Host, StopRevoke(h) PROVE IInv'
  <2>1. \A t \in Ticket : /\ ticket'[t].sess = ticket[t].sess
                          /\ ticket'[t].admitted = ticket[t].admitted
                          /\ ticket[t].revoked => ticket'[t].revoked
    BY <1>2 DEF StopRevoke, IInv, TypeOK, TicketRow
  <2>2. QED
    BY <1>2, <2>1, OutsideInv
    DEF StopRevoke, IInv, TypeOK, NamedTickets, Request, sessionVars, relayVars,
        lockVars
<1>3. ASSUME NEW h \in Host, StopClose(h) PROVE IInv'
  BY <1>3, OutsideInv
  DEF StopClose, IInv, TypeOK, NamedTickets, Request, relayVars, lockVars
<1>4. QED
  BY <1>1, <1>2, <1>3, OpenInv, ConsentInv DEF SessionNext

LEMMA WorldInv ==
  ASSUME IInv, WorldNext, TypeOK'
  PROVE  IInv'
<1>1. ASSUME NEW t \in Ticket, TicketExpires(t) PROVE IInv'
  <2>1. \A u \in Ticket : /\ ticket'[u].sess = ticket[u].sess
                          /\ ticket'[u].admitted = ticket[u].admitted
                          /\ ticket[u].revoked => ticket'[u].revoked
    BY <1>1 DEF TicketExpires, IInv, TypeOK, TicketRow
  <2>2. QED
    BY <1>1, <2>1, OutsideInv
    DEF TicketExpires, IInv, TypeOK, NamedTickets, Request, sessionVars,
        relayVars, lockVars
<1>2. ASSUME NEW g \in Grant, GrantInserted(g) \/ GrantExpires(g) PROVE IInv'
  BY <1>2, OutsideInv
  DEF GrantInserted, GrantExpires, IInv, TypeOK, NamedTickets, Request,
      sessionVars, relayVars, lockVars
<1>3. QED
  BY <1>1, <1>2 DEF WorldNext

LEMMA PumpInv ==
  ASSUME IInv, PumpNext, TypeOK'
  PROVE  IInv'
<1>1. /\ ticket' = ticket /\ txn' = txn /\ lock' = lock /\ state' = state
      /\ heartbeats' = heartbeats
  BY DEF PumpNext, PumpSend, PumpReply, PumpBreak, sessionVars, lockVars
<1>2. \A r \in sent' : Issued(r.tick) /\ r.tick \in Ticket
  <2>1. ASSUME NEW p \in Pump, NEW n \in Bytes, PumpSend(p, n)
        PROVE  \A r \in sent' : Issued(r.tick) /\ r.tick \in Ticket
    <3>1. pump[p].tick \in Ticket /\ Issued(pump[p].tick)
      BY <2>1 DEF PumpSend, IInv, TypeOK, PumpOK, PumpRecord, NamedTickets
    <3>2. QED
      BY <2>1, <3>1 DEF PumpSend, IInv, TypeOK, NamedTickets, Request
  <2>2. ASSUME sent' = sent PROVE \A r \in sent' : Issued(r.tick) /\ r.tick \in Ticket
    BY <2>2 DEF IInv, TypeOK, NamedTickets, Request
  <2>3. QED
    BY <2>1, <2>2 DEF PumpNext, PumpReply, PumpBreak
<1>3. \A p \in Pump : pump'[p].tick # NoTicket => Issued(pump'[p].tick)
  <2>1. \A p \in Pump : pump[p].tick # NoTicket => Issued(pump[p].tick)
    BY DEF IInv, NamedTickets
  <2>2. \A p \in Pump : pump[p].pc = "waiting" => pump[p].id \in HeartbeatId
    BY DEF IInv, TypeOK, PumpOK, PumpRecord
  <2>3. ASSUME NEW q \in Pump, NEW n \in Bytes, PumpSend(q, n), NEW p \in Pump
        PROVE  pump'[p].tick = pump[p].tick
    BY <2>3 DEF PumpSend, IInv, TypeOK, PumpRecord
  <2>4. ASSUME NEW q \in Pump, PumpReply(q), NEW p \in Pump
        PROVE  \/ pump'[p].tick \in {pump[p].tick, NoTicket}
               \/ /\ pump[p].pc = "waiting"
                  /\ pump'[p].tick = heartbeats[pump[p].id].next
    <3>1. CASE pump' = [pump EXCEPT ![q] = Ended]
      BY <3>1 DEF Ended, IInv, TypeOK
    <3>2. CASE /\ pump[q].pc = "waiting"
               /\ pump' = [pump EXCEPT ![q] =
                    [pc |-> "running", id |-> NoId,
                     tick |-> heartbeats[pump[q].id].next]]
      BY <3>2 DEF IInv, TypeOK
    <3>3. QED
      BY <2>4, <3>1, <3>2, Zenon DEF PumpReply
  <2>5. ASSUME NEW q \in Pump, PumpBreak(q), NEW p \in Pump
        PROVE  pump'[p].tick \in {pump[p].tick, NoTicket}
    BY <2>5 DEF PumpBreak, Ended, IInv, TypeOK
  <2>6. QED
    BY <2>1, <2>2, <2>3, <2>4, <2>5 DEF PumpNext, IInv, NamedTickets
<1>4. QED
  BY <1>1, <1>2, <1>3, OutsideInv

\* Steps of one connection that leave the sessions and the tickets alone.
LEMMA ConnectionInv ==
  ASSUME IInv, TypeOK', NEW w \in Worker,
         ticket' = ticket, state' = state, sent' = sent,
         heartbeats' = heartbeats,
         \A p \in Pump : pump'[p].tick # NoTicket => Issued(pump'[p].tick),
         \A v \in Worker \ {w} : txn'[v] = txn[v],
         \A s \in Session : lock'[s] = lock[s] \/ lock[s] \in {w, Nobody},
         txn'[w].tick # NoTicket => Issued(txn'[w].tick),
         txn'[w].pc = "admit"
           => state[SessionOf(txn'[w].tick)] # "awaiting_host_consent",
         txn'[w].pc \in {"deduct", "grants", "write"} =>
           /\ lock'[SessionOf(txn'[w].tick)] = w
           /\ state[SessionOf(txn'[w].tick)] = "active"
           /\ \A t \in LiveTickets(SessionOf(txn'[w].tick)) : t = txn'[w].tick
  PROVE  IInv'
<1>1. NamedTickets'
  BY DEF IInv, NamedTickets, Issued, SessionOf
<1>2. Admissions'
  BY DEF IInv, Admissions, Issued, SessionOf
<1>3. HeldRows'
  <2>1. ASSUME NEW v \in Worker, v # w, Inside(v)
        PROVE  lock'[ticket[txn[v].tick].sess] = v
    BY <2>1, Held, SentinelAssumption
  <2>2. QED
    BY <2>1 DEF IInv, HeldRows, Inside, LiveTickets, SessionOf
<1>4. OneLiveTicket'
  BY DEF IInv, OneLiveTicket, LiveTickets, SessionOf
<1>5. QED
  BY <1>1, <1>2, <1>3, <1>4 DEF IInv

LEMMA PumpTickets ==
  ASSUME IInv
  PROVE  \A p \in Pump : pump[p].tick # NoTicket => Issued(pump[p].tick)
  BY DEF IInv, NamedTickets

LEMMA AdmitLoadInv ==
  ASSUME IInv, TypeOK', NEW w \in Worker, NEW p \in Pump, NEW t \in Ticket,
         AdmitLoad(w, p, t)
  PROVE  IInv'
<1>1. /\ ticket' = ticket /\ state' = state /\ sent' = sent
      /\ heartbeats' = heartbeats /\ lock' = lock
      /\ Issued(t) /\ state[SessionOf(t)] = "active"
  BY DEF AdmitLoad, sessionVars, lockVars
<1>2. /\ \A v \in Worker \ {w} : txn'[v] = txn[v]
      /\ txn'[w].tick = t /\ txn'[w].pc = "admit"
  BY IdleType DEF AdmitLoad, IInv, TypeOK, Idle
<1>3. \A q \in Pump : pump'[q].tick # NoTicket => Issued(pump'[q].tick)
  BY <1>1, PumpTickets DEF AdmitLoad, IInv, TypeOK
<1>4. QED
  BY <1>1, <1>2, <1>3, ConnectionInv

LEMMA BeginInv ==
  ASSUME IInv, TypeOK', NEW w \in Worker, NEW r \in sent, HeartbeatBegin(w, r)
  PROVE  IInv'
<1>1. /\ ticket' = ticket /\ state' = state /\ sent' = sent
      /\ heartbeats' = heartbeats /\ lock' = lock /\ pump' = pump
      /\ Issued(r.tick)
  BY DEF HeartbeatBegin, sessionVars, lockVars, relayVars, IInv, NamedTickets
<1>2. /\ \A v \in Worker \ {w} : txn'[v] = txn[v]
      /\ txn'[w].tick = r.tick /\ txn'[w].pc = "locking"
  BY DEF HeartbeatBegin, IInv, TypeOK, Idle
<1>3. QED
  BY <1>1, <1>2, PumpTickets, ConnectionInv

\* The connection ends its transaction without having changed anything.
LEMMA ReleaseInv ==
  ASSUME IInv, TypeOK', NEW w \in Worker,
         HeartbeatReplay(w) \/ HeartbeatRefuse(w) \/ Abort(w)
  PROVE  IInv'
<1>1. /\ ticket' = ticket /\ state' = state /\ sent' = sent
      /\ heartbeats' = heartbeats /\ pump' = pump
      /\ txn' = [txn EXCEPT ![w] = Idle]
  BY DEF HeartbeatReplay, HeartbeatRefuse, Abort, sessionVars, relayVars
<1>2. /\ \A v \in Worker \ {w} : txn'[v] = txn[v]
      /\ txn'[w].tick = NoTicket /\ txn'[w].pc = "idle"
  BY <1>1 DEF IInv, TypeOK, Idle
<1>3. \A s \in Session : lock'[s] = lock[s] \/ lock[s] \in {w, Nobody}
  BY DEF HeartbeatReplay, HeartbeatRefuse, Abort, lockVars, Unlocked
<1>4. QED
  BY <1>1, <1>2, <1>3, PumpTickets, ConnectionInv

LEMMA AcceptInv ==
  ASSUME IInv, TypeOK', NEW w \in Worker, HeartbeatAccept(w)
  PROVE  IInv'
<1> DEFINE t == txn[w].tick
           s == SessionOf(t)
<1>1. /\ ticket' = ticket /\ state' = state /\ sent' = sent
      /\ heartbeats' = heartbeats /\ pump' = pump
      /\ lock[s] = Nobody
      /\ lock' = [lock EXCEPT ![s] = w]
      /\ ~ticket[t].revoked /\ state[s] = "active"
  BY DEF HeartbeatAccept, HasRow, MayCharge, sessionVars, relayVars
<1>2. t \in Ticket /\ Issued(t) /\ s \in Session
  BY WorkerTicket DEF HeartbeatAccept, HasRow
<1>3. /\ \A v \in Worker \ {w} : txn'[v] = txn[v]
      /\ txn'[w].tick = t /\ txn'[w].pc \in {"deduct", "write"}
  BY DEF HeartbeatAccept, IInv, TypeOK, Transaction
<1>4. \A u \in LiveTickets(s) : u = t
  BY <1>1, <1>2 DEF IInv, OneLiveTicket, LiveTickets
<1>5. /\ lock'[s] = w
      /\ \A r \in Session : lock'[r] = lock[r] \/ lock[r] \in {w, Nobody}
  BY <1>1, <1>2 DEF IInv, TypeOK
<1> HIDE DEF t, s
<1>6. SessionOf(t) = s
  BY DEF s
<1>7. QED
  BY <1>1, <1>2, <1>3, <1>4, <1>5, <1>6, PumpTickets, ConnectionInv

LEMMA DeductInv ==
  ASSUME IInv, TypeOK', NEW w \in Worker, DeductRead(w) \/ DeductLock(w)
  PROVE  IInv'
<1>1. /\ ticket' = ticket /\ state' = state /\ sent' = sent
      /\ heartbeats' = heartbeats /\ pump' = pump /\ lock' = lock
  BY DEF DeductRead, DeductLock, sessionVars, relayVars, lockVars
<1>2. /\ \A v \in Worker \ {w} : txn'[v] = txn[v]
      /\ txn'[w].tick = txn[w].tick
      /\ txn'[w].pc \in {"grants", "write"}
      /\ Inside(w)
  BY DEF DeductRead, DeductLock, IInv, TypeOK, Transaction, Inside
<1>3. /\ txn[w].tick # NoTicket => Issued(txn[w].tick)
      /\ lock[SessionOf(txn[w].tick)] = w
      /\ state[SessionOf(txn[w].tick)] = "active"
      /\ \A t \in LiveTickets(SessionOf(txn[w].tick)) : t = txn[w].tick
  BY <1>2 DEF IInv, HeldRows, NamedTickets
<1>4. QED
  BY <1>1, <1>2, <1>3, PumpTickets, ConnectionInv

\* A second admission of the same ticket changes nothing; the first one finds
\* the session past the host's consent.
LEMMA AdmitCommitInv ==
  ASSUME IInv, TypeOK', NEW w \in Worker, AdmitCommit(w)
  PROVE  IInv'
<1> DEFINE t == txn[w].tick
<1>1. /\ state' = state /\ sent' = sent /\ heartbeats' = heartbeats /\ lock' = lock
  BY DEF AdmitCommit, sessionVars, lockVars
<1>2. t \in Ticket /\ state[ticket[t].sess] # "awaiting_host_consent"
  BY WorkerTicket DEF AdmitCommit, IInv, Admissions, SessionOf
<1>3. \A u \in Ticket : /\ ticket'[u].sess = ticket[u].sess
                        /\ ticket'[u].revoked = ticket[u].revoked
                        /\ u # t => ticket'[u].admitted = ticket[u].admitted
  BY <1>2 DEF AdmitCommit, IInv, TypeOK, TicketRow
<1>4. /\ \A v \in Worker \ {w} : txn'[v] = txn[v]
      /\ txn'[w].tick = NoTicket /\ txn'[w].pc = "idle"
  BY DEF AdmitCommit, IInv, TypeOK, Idle
<1>5. \A p \in Pump : pump'[p].tick = pump[p].tick
  BY DEF AdmitCommit, IInv, TypeOK, PumpRecord
<1> HIDE DEF t
<1>6. \A u \in Ticket : Issued(u)' <=> Issued(u)
  BY <1>3 DEF Issued, SessionOf
<1>7. NamedTickets'
  <2>1. /\ \A v \in Worker : txn[v].tick # NoTicket => txn[v].tick \in Ticket
        /\ \A p \in Pump : pump[p].tick # NoTicket => pump[p].tick \in Ticket
        /\ \A i \in HeartbeatId :
             heartbeats[i].next # NoTicket => heartbeats[i].next \in Ticket
        /\ \A r \in sent : r.tick \in Ticket
    BY DEF IInv, TypeOK, Transaction, PumpRecord, HeartbeatRow, Request
  <2>2. QED
    BY <1>1, <1>3, <1>4, <1>5, <1>6, <2>1
    DEF IInv, NamedTickets, Issued, SessionOf
<1>8. Admissions'
  <2>1. ASSUME NEW v \in Worker, txn'[v].pc = "admit"
        PROVE  state'[ticket'[txn'[v].tick].sess] # "awaiting_host_consent"
    BY <1>1, <1>3, <1>4, <2>1, WorkerTicket DEF IInv, Admissions, SessionOf
  <2>2. QED
    BY <1>1, <1>2, <1>3, <2>1 DEF IInv, Admissions, Issued, SessionOf
<1>9. HeldRows'
  <2> SUFFICES ASSUME NEW v \in Worker, v # w, Inside(v)
               PROVE  /\ lock[ticket'[txn[v].tick].sess] = v
                      /\ state[ticket'[txn[v].tick].sess] = "active"
                      /\ \A u \in Ticket :
                           /\ ticket'[u].sess = ticket'[txn[v].tick].sess
                           /\ ~ticket'[u].revoked
                           => u = txn[v].tick
    BY <1>1, <1>4 DEF HeldRows, Inside, LiveTickets, SessionOf
  <2>1. txn[v].tick \in Ticket
    BY WorkerTicket DEF Inside
  <2>2. QED
    BY <1>3, <2>1, Held
<1>10. OneLiveTicket'
  BY <1>3 DEF IInv, OneLiveTicket, LiveTickets, SessionOf
<1>11. QED
  BY <1>7, <1>8, <1>9, <1>10 DEF IInv

\* What the end of a heartbeat does to the tickets: the one it charged is
\* revoked, and at most one, of the same session, is new.
LEMMA CommitTickets ==
  ASSUME IInv, NEW w \in Worker, txn[w].pc = "write", NEW left,
         StopForBalance(w, left) \/ StopForRealName(w, left)
           \/ RotateTicket(w, left)
  PROVE  /\ ticket'[txn[w].tick].revoked
         /\ \A u \in Ticket : Issued(u) =>
              /\ ticket'[u].sess = ticket[u].sess
              /\ ticket'[u].admitted = ticket[u].admitted
              /\ ticket[u].revoked => ticket'[u].revoked
         /\ \A u \in Ticket : ~Issued(u) /\ ticket'[u].sess # NoSession =>
              u = NewTicket /\ ticket'[u].sess = ticket[txn[w].tick].sess
         /\ \A i \in HeartbeatId : heartbeats'[i].next # NoTicket =>
              \/ heartbeats'[i].next = heartbeats[i].next
              \/ /\ heartbeats'[i].next = NewTicket
                 /\ ticket'[NewTicket].sess # NoSession
         /\ \A r \in Session : r # ticket[txn[w].tick].sess => state'[r] = state[r]
         /\ state'[ticket[txn[w].tick].sess] \in {"active", "relay_stopped"}
<1> DEFINE t == txn[w].tick
           s == ticket[t].sess
           tk == Revoked(t)
<1>1. /\ t \in Ticket /\ Issued(t) /\ s \in Session /\ state[s] = "active"
      /\ SessionOf(t) = s
  BY Held, WorkerTicket DEF Inside, SessionOf
<1>2. /\ tk \in [Ticket -> TicketRow]
      /\ tk[t].revoked
      /\ \A u \in Ticket : /\ tk[u].sess = ticket[u].sess
                           /\ tk[u].admitted = ticket[u].admitted
                           /\ ticket[u].revoked => tk[u].revoked
  BY <1>1 DEF Revoked, IInv, TypeOK, TicketRow
<1> HIDE DEF tk
<1>3. CASE StopForBalance(w, left) \/ StopForRealName(w, left)
  <2>1. ticket' = tk
    BY <1>3 DEF StopForBalance, StopForRealName, tk
  <2>2. \A i \in HeartbeatId : heartbeats'[i].next \in {heartbeats[i].next, NoTicket}
    BY <1>3 DEF StopForBalance, StopForRealName, IInv, TypeOK
  <2>3. /\ \A r \in Session : r # s => state'[r] = state[r]
        /\ state'[s] \in {"active", "relay_stopped"}
    BY <1>1, <1>3 DEF StopForBalance, StopForRealName, IInv, TypeOK
  <2>4. QED
    BY <1>1, <1>2, <2>1, <2>2, <2>3 DEF Issued, SessionOf
<1>4. CASE RotateTicket(w, left)
  <2>1. Unused # {} /\ ticket' = [tk EXCEPT ![NewTicket] = FreshTicket(s, TRUE)]
    BY <1>1, <1>4 DEF RotateTicket, tk
  <2>2. /\ ticket'[NewTicket].sess = s
        /\ \A u \in Ticket : u # NewTicket => ticket'[u] = tk[u]
        /\ NewTicket \in Ticket /\ ~Issued(NewTicket)
    BY <1>1, <1>2, <2>1, Inserted, NewTicketUnused DEF IInv
  <2>3. \A i \in HeartbeatId : heartbeats'[i].next \in {heartbeats[i].next, NewTicket}
    BY <1>4 DEF RotateTicket, IInv, TypeOK
  <2>4. state' = state
    BY <1>4 DEF RotateTicket
  <2>5. QED
    BY <1>1, <1>2, <2>2, <2>3, <2>4, SentinelAssumption DEF Issued, SessionOf
<1>5. QED
  BY <1>3, <1>4

LEMMA CommitInv ==
  ASSUME IInv, TypeOK', NEW w \in Worker, HeartbeatCommit(w)
  PROVE  IInv'
<1> DEFINE t == txn[w].tick
           s == ticket[t].sess
<1>1. /\ t \in Ticket /\ Issued(t) /\ s \in Session
      /\ lock[s] = w /\ state[s] = "active"
      /\ \A u \in Ticket : ticket[u].sess = s /\ ~ticket[u].revoked => u = t
  BY Held, WorkerTicket DEF HeartbeatCommit, Inside
<1>2. /\ ticket'[t].revoked
      /\ \A u \in Ticket : Issued(u) =>
           /\ ticket'[u].sess = ticket[u].sess
           /\ ticket'[u].admitted = ticket[u].admitted
           /\ ticket[u].revoked => ticket'[u].revoked
      /\ \A u \in Ticket : ~Issued(u) /\ ticket'[u].sess # NoSession =>
           u = NewTicket /\ ticket'[u].sess = s
      /\ \A i \in HeartbeatId : heartbeats'[i].next # NoTicket =>
           \/ heartbeats'[i].next = heartbeats[i].next
           \/ /\ heartbeats'[i].next = NewTicket
              /\ ticket'[NewTicket].sess # NoSession
      /\ \A r \in Session : r # s => state'[r] = state[r]
      /\ state'[s] \in {"active", "relay_stopped"}
  <2>1. PICK left : StopForBalance(w, left) \/ StopForRealName(w, left)
                      \/ RotateTicket(w, left)
    BY DEF HeartbeatCommit
  <2>2. QED
    BY <2>1, CommitTickets DEF HeartbeatCommit
<1>3. /\ \A v \in Worker \ {w} : txn'[v] = txn[v]
      /\ txn'[w].tick = NoTicket /\ txn'[w].pc = "idle"
      /\ sent' = sent /\ pump' = pump
  BY DEF HeartbeatCommit, IInv, TypeOK, Idle, relayVars
<1>4. \A r \in Session : r # s => lock'[r] = lock[r]
  BY <1>1 DEF HeartbeatCommit, IInv, TypeOK, SessionOf
<1> HIDE DEF t, s
<1>5. \A u \in Ticket : Issued(u) => Issued(u)' /\ ticket[u].sess \in Session
  BY <1>2, NamedSession DEF Issued, SessionOf, IInv
<1>6. NamedTickets'
  <2>1. /\ \A v \in Worker : txn[v].tick # NoTicket => txn[v].tick \in Ticket
        /\ \A p \in Pump : pump[p].tick # NoTicket => pump[p].tick \in Ticket
        /\ \A i \in HeartbeatId :
             heartbeats[i].next # NoTicket => heartbeats[i].next \in Ticket
        /\ \A r \in sent : r.tick \in Ticket
    BY DEF IInv, TypeOK, Transaction, PumpRecord, HeartbeatRow, Request
  <2>2. ASSUME NEW i \in HeartbeatId, heartbeats'[i].next # NoTicket
        PROVE  ticket'[heartbeats'[i].next].sess # NoSession
    <3>1. CASE heartbeats'[i].next = heartbeats[i].next
      <4>1. heartbeats[i].next \in Ticket /\ Issued(heartbeats[i].next)
        BY <2>1, <2>2, <3>1 DEF IInv, NamedTickets
      <4>2. QED
        BY <1>5, <3>1, <4>1 DEF Issued, SessionOf
    <3>2. CASE /\ heartbeats'[i].next = NewTicket
               /\ ticket'[NewTicket].sess # NoSession
      BY <3>2
    <3>3. QED
      BY <1>2, <2>2, <3>1, <3>2
  <2>3. \A u \in Ticket :
          ticket'[u].sess # NoSession => state'[ticket'[u].sess] # "absent"
    BY <1>1, <1>2, <1>5 DEF IInv, NamedTickets, Issued, SessionOf
  <2>4. \A r \in sent' : ticket'[r.tick].sess # NoSession
    BY <1>3, <1>5, <2>1 DEF IInv, NamedTickets, Issued, SessionOf
  <2>5. \A v \in Worker :
          txn'[v].tick # NoTicket => ticket'[txn'[v].tick].sess # NoSession
    <3> SUFFICES ASSUME NEW v \in Worker, v # w, txn[v].tick # NoTicket
                 PROVE  ticket'[txn[v].tick].sess # NoSession
      BY <1>3
    <3> QED
      BY <1>5, <2>1 DEF IInv, NamedTickets, Issued, SessionOf
  <2>6. \A p \in Pump :
          pump'[p].tick # NoTicket => ticket'[pump'[p].tick].sess # NoSession
    BY <1>3, <1>5, <2>1 DEF IInv, NamedTickets, Issued, SessionOf
  <2>7. QED
    BY <2>2, <2>3, <2>4, <2>5, <2>6 DEF NamedTickets, Issued, SessionOf
<1>7. Admissions'
  <2>1. ASSUME NEW v \in Worker, txn'[v].pc = "admit"
        PROVE  state'[ticket'[txn'[v].tick].sess] # "awaiting_host_consent"
    BY <1>1, <1>2, <1>3, <1>5, <2>1, WorkerTicket DEF IInv, Admissions, SessionOf
  <2>2. ASSUME NEW u \in Ticket, ticket'[u].sess # NoSession,
               state'[ticket'[u].sess] = "awaiting_host_consent"
        PROVE  ~ticket'[u].admitted
    BY <1>1, <1>2, <1>5, <2>2 DEF IInv, Admissions, Issued, SessionOf
  <2>3. QED
    BY <2>1, <2>2 DEF Admissions, Issued, SessionOf
<1>8. HeldRows'
  <2> SUFFICES ASSUME NEW v \in Worker, v # w, Inside(v)
               PROVE  /\ lock'[ticket'[txn[v].tick].sess] = v
                      /\ state'[ticket'[txn[v].tick].sess] = "active"
                      /\ \A u \in Ticket :
                           /\ ticket'[u].sess = ticket'[txn[v].tick].sess
                           /\ ~ticket'[u].revoked
                           => u = txn[v].tick
    BY <1>3 DEF HeldRows, Inside, LiveTickets, SessionOf
  <2> DEFINE r == ticket[txn[v].tick].sess
  <2>1. /\ ticket'[txn[v].tick].sess = r /\ r # s /\ r \in Session
        /\ lock[r] = v /\ state[r] = "active"
    BY <1>1, <1>2, Held, WorkerTicket DEF Inside
  <2>2. \A u \in Ticket : ticket'[u].sess = r => Issued(u)
    BY <1>2, <2>1, SentinelAssumption
  <2>3. QED
    BY <1>2, <1>4, <2>1, <2>2, Held
<1>9. OneLiveTicket'
  <2>1. ASSUME NEW r \in Session, NEW u \in Ticket, NEW v \in Ticket,
               ticket'[u].sess = r, ~ticket'[u].revoked,
               ticket'[v].sess = r, ~ticket'[v].revoked
        PROVE  u = v
    <3>1. CASE r = s
      BY <1>1, <1>2, <2>1, <3>1, SentinelAssumption
    <3>2. CASE r # s
      <4>1. Issued(u) /\ Issued(v)
        BY <1>2, <2>1, <3>2, SentinelAssumption
      <4>2. QED
        BY <1>2, <2>1, <4>1 DEF IInv, OneLiveTicket, LiveTickets, SessionOf
    <3>3. QED
      BY <3>1, <3>2
  <2>2. QED
    BY <2>1 DEF OneLiveTicket, LiveTickets, SessionOf
<1>10. QED
  BY <1>6, <1>7, <1>8, <1>9 DEF IInv

LEMMA InvNext == IInv /\ [Next]_vars => IInv'
<1> SUFFICES ASSUME IInv, [Next]_vars PROVE IInv'
  OBVIOUS
<1>1. TypeOK'
  BY TypeNext DEF IInv
<1>2. CASE UNCHANGED vars
  BY <1>2 DEF vars, IInv, TypeOK, TxnOK, PumpOK, NamedTickets, Admissions,
     HeldRows, OneLiveTicket, Inside, LiveTickets, SessionOf, Issued
<1>3. CASE WorkerNext
  BY <1>1, <1>3, AdmitLoadInv, BeginInv, AdmitCommitInv, ReleaseInv, AcceptInv,
     DeductInv, CommitInv DEF WorkerNext
<1>4. QED
  BY <1>1, <1>2, <1>3, SessionInv, WorldInv, PumpInv DEF Next

LEMMA Invariant == Spec => []IInv
  BY InvInit, InvNext, PTL DEF Spec

\* A session never has two tickets that are not revoked, whatever heartbeats,
\* consents, stops, expiries and rollbacks do in whatever order.
THEOREM SessionHasOneLiveTicket == Spec => []OneLiveTicket
<1>1. IInv => OneLiveTicket
  BY DEF IInv
<1>2. QED
  BY <1>1, Invariant, PTL

-----------------------------------------------------------------------------
(* What no step does *)

\* Only an active session is ever charged, for any number of connections that
\* charge, stop, reject and close at once.
THEOREM OnlyActiveSessionsPay == Spec => ChargeOnlyWhileActive
<1>1. ASSUME IInv, IInv', [Next]_vars
      PROVE  [\A s \in Session :
                charged'[s] # charged[s] => state[s] = "active"]_vars
  <2> SUFFICES ASSUME Next, NEW s \in Session, charged'[s] # charged[s]
               PROVE  state[s] = "active"
    BY <1>1 DEF vars
  <2>1. charged' # charged
    OBVIOUS
  <2>2. PICK w \in Worker : HeartbeatCommit(w)
    BY <2>1
    DEF Next, SessionNext, Open, Consent, RejectIncoming, StopRevoke, StopClose,
        WorldNext, TicketExpires, GrantInserted, GrantExpires, PumpNext,
        PumpSend, PumpReply, PumpBreak, WorkerNext, AdmitLoad, HeartbeatBegin,
        AdmitCommit, HeartbeatReplay, HeartbeatRefuse, HeartbeatAccept,
        DeductRead, DeductLock, Abort, ledgerVars
  <2>3. /\ ticket[txn[w].tick].sess \in Session
        /\ state[ticket[txn[w].tick].sess] = "active"
    BY <1>1, <2>2, Held DEF HeartbeatCommit, Inside
  <2>4. ticket[txn[w].tick].sess # s => charged'[s] = charged[s]
    BY <1>1, <2>2 DEF HeartbeatCommit, SessionOf, IInv, TypeOK
  <2>5. QED
    BY <2>3, <2>4
<1>2. QED
  BY <1>1, Invariant, PTL DEF Spec, ChargeOnlyWhileActive

-----------------------------------------------------------------------------
(* Sums over finite sets.  SumFunctionOnSet folds a function in an order it *)
(* chooses, so nothing about it follows by rewriting.  A sum is therefore   *)
(* counted: it is the number of units, pairs of an argument and one of its  *)
(* value's units.  That is shown by looking at a least subset for which it  *)
(* would be false, which exists because the finite subsets of a set are     *)
(* well-founded under strict inclusion.                                     *)

\* A family of subsets of a finite set has a least member.
LEMMA LeastSubset ==
  ASSUME NEW S, IsFiniteSet(S), NEW Bad \in SUBSET SUBSET S, Bad # {}
  PROVE  \E T \in Bad : \A U \in Bad : U \subseteq T => U = T
<1>1. IsWellFoundedOn(StrictSubsetOrdering(S), FiniteSubsetsOf(S))
  BY FS_StrictSubsetOrderingWellFounded
<1>2. Bad \subseteq FiniteSubsetsOf(S)
  BY FS_FiniteSubsetsOfFinite
<1>3. PICK T \in Bad : \A U \in Bad : ~ (<<U, T>> \in StrictSubsetOrdering(S))
  BY <1>1, <1>2, WFMin
<1>4. QED
  BY <1>3 DEF StrictSubsetOrdering

\* The units of the values that f has on T.
Units(f, T) == {u \in T \X (Nat \ {0}) : u[2] <= f[u[1]]}

\* One more argument adds its value's units.
LEMMA UnitsAdd ==
  ASSUME NEW S, NEW f \in [S -> Nat], NEW T \in SUBSET S, NEW x \in T,
         IsFiniteSet(Units(f, T \ {x}))
  PROVE  /\ IsFiniteSet(Units(f, T))
         /\ Cardinality(Units(f, T)) = f[x] + Cardinality(Units(f, T \ {x}))
<1> DEFINE Own == {x} \X (1 .. f[x])
           Rest == Units(f, T \ {x})
<1>1. f[x] \in Nat /\ IsFiniteSet(1 .. f[x]) /\ Cardinality(1 .. f[x]) = f[x]
  BY FS_Interval
<1>2. IsFiniteSet({x}) /\ Cardinality({x}) = 1
  BY FS_Singleton
<1>3. IsFiniteSet(Own) /\ Cardinality(Own) = f[x]
  BY <1>1, <1>2, FS_Product
<1>4. Units(f, T) = Own \cup Rest
  BY <1>1 DEF Units
<1>5. Own \cap Rest = {}
  BY DEF Units
<1>6. Cardinality(Rest) \in Nat
  BY FS_CardinalityType
<1> HIDE DEF Own, Rest
<1>7. IsFiniteSet(Rest)
  BY DEF Rest
<1>8. Cardinality(Own \cap Rest) = 0
  BY <1>5, FS_EmptySet
<1>9. /\ IsFiniteSet(Own \cup Rest)
      /\ Cardinality(Own \cup Rest) = Cardinality(Own) + Cardinality(Rest) - 0
  BY <1>3, <1>7, <1>8, FS_Union
<1>10. QED
  BY <1>1, <1>3, <1>4, <1>6, <1>9 DEF Rest

LEMMA UnitsFinite ==
  ASSUME NEW S, IsFiniteSet(S), NEW f \in [S -> Nat], NEW T \in SUBSET S
  PROVE  IsFiniteSet(Units(f, T)) /\ Cardinality(Units(f, T)) \in Nat
<1> DEFINE Bad == {U \in SUBSET S : ~IsFiniteSet(Units(f, U))}
<1>1. Bad = {}
  <2> SUFFICES ASSUME Bad # {} PROVE FALSE
    OBVIOUS
  <2>1. Bad \in SUBSET SUBSET S
    OBVIOUS
  <2> HIDE DEF Bad
  <2>2. PICK U \in Bad : \A V \in Bad : V \subseteq U => V = U
    BY <2>1, LeastSubset
  <2> USE DEF Bad
  <2>3. CASE U = {}
    <3>1. Units(f, U) = {}
      BY <2>3 DEF Units
    <3>2. QED
      BY <3>1, FS_EmptySet
  <2>4. CASE U # {}
    <3>1. PICK x \in U : TRUE
      BY <2>4
    <3>2. U \ {x} \in SUBSET S /\ U \ {x} \subseteq U /\ U \ {x} # U
      BY <3>1
    <3>3. IsFiniteSet(Units(f, U \ {x}))
      BY <2>2, <3>2
    <3>4. QED
      BY <3>3, UnitsAdd
  <2>5. QED
    BY <2>3, <2>4
<1>2. QED
  BY <1>1, FS_CardinalityType

\* The fold of the library counts units.
LEMMA SumIsUnits ==
  ASSUME NEW S, IsFiniteSet(S), NEW f \in [S -> Nat]
  PROVE  SumFunctionOnSet(f, S) = Cardinality(Units(f, S))
<1> DEFINE Body(it, s) == IF s = {} THEN 0
                          ELSE f[CHOOSE x \in s : TRUE] + it[s \ {CHOOSE x \in s : TRUE}]
           iter == CHOOSE it : it = [s \in SUBSET S |-> Body(it, s)]
           units == [s \in SUBSET S |-> Cardinality(Units(f, s))]
<1>1. SumFunctionOnSet(f, S) = iter[S]
  BY DEF SumFunctionOnSet, FoldFunctionOnSet, MapThenFoldSet
<1>2. units = [s \in SUBSET S |-> Body(units, s)]
  <2>1. ASSUME NEW s \in SUBSET S PROVE units[s] = Body(units, s)
    <3>1. CASE s = {}
      BY <3>1, FS_EmptySet DEF Units
    <3>2. CASE s # {}
      <4> DEFINE x == CHOOSE y \in s : TRUE
      <4>1. x \in s /\ s \ {x} \in SUBSET S
        BY <3>2
      <4> HIDE DEF x
      <4>2. IsFiniteSet(Units(f, s \ {x}))
        BY <4>1, UnitsFinite
      <4>3. Cardinality(Units(f, s)) = f[x] + Cardinality(Units(f, s \ {x}))
        BY <4>1, <4>2, UnitsAdd
      <4>4. QED
        BY <3>2, <4>1, <4>3 DEF x
    <3>3. QED
      BY <3>1, <3>2
  <2>2. QED
    BY <2>1
<1>3. iter = [s \in SUBSET S |-> Body(iter, s)]
  <2> HIDE DEF units, Body
  <2>1. QED
    BY <1>2
<1> HIDE DEF iter
<1>4. ASSUME NEW s \in SUBSET S PROVE iter[s] = Body(iter, s)
  <2> HIDE DEF Body
  <2> QED BY <1>3
<1> DEFINE Bad == {s \in SUBSET S : iter[s] # units[s]}
<1>5. Bad = {}
  <2> SUFFICES ASSUME Bad # {} PROVE FALSE
    OBVIOUS
  <2>0. Bad \in SUBSET SUBSET S
    OBVIOUS
  <2> HIDE DEF Bad
  <2>1. PICK s \in Bad : \A V \in Bad : V \subseteq s => V = s
    BY <2>0, LeastSubset
  <2> USE DEF Bad
  <2>2. units[s] = Body(units, s)
    BY <1>2
  <2>3. iter[s] = Body(iter, s)
    BY <1>4
  <2>4. CASE s = {}
    BY <2>2, <2>3, <2>4
  <2>5. CASE s # {}
    <3> DEFINE x == CHOOSE y \in s : TRUE
    <3>1. x \in s /\ s \ {x} \in SUBSET S /\ s \ {x} # s
      BY <2>5
    <3>2. iter[s \ {x}] = units[s \ {x}]
      BY <2>1, <3>1
    <3> HIDE DEF units
    <3>3. QED
      BY <2>2, <2>3, <2>5, <3>2, <2>1
  <2>6. QED
    BY <2>4, <2>5
<1>6. QED
  BY <1>1, <1>5

LEMMA SumType ==
  ASSUME NEW S, IsFiniteSet(S), NEW f \in [S -> Nat]
  PROVE  SumFunctionOnSet(f, S) \in Nat
BY SumIsUnits, UnitsFinite

\* One term and the rest.
LEMMA SumSplit ==
  ASSUME NEW S, IsFiniteSet(S), NEW f \in [S -> Nat], NEW x \in S
  PROVE  SumFunctionOnSet(f, S) = f[x] + Cardinality(Units(f, S \ {x}))
<1>1. S \ {x} \in SUBSET S /\ S \in SUBSET S
  OBVIOUS
<1>2. IsFiniteSet(Units(f, S \ {x}))
  BY <1>1, UnitsFinite
<1>3. QED
  BY <1>1, <1>2, UnitsAdd, SumIsUnits

\* When one value changes, the sum changes by as much.
LEMMA SumOneChanges ==
  ASSUME NEW S, IsFiniteSet(S), NEW f \in [S -> Nat], NEW g \in [S -> Nat],
         NEW x \in S, \A y \in S \ {x} : g[y] = f[y]
  PROVE  SumFunctionOnSet(g, S) + f[x] = SumFunctionOnSet(f, S) + g[x]
<1>1. Units(g, S \ {x}) = Units(f, S \ {x})
  BY DEF Units
<1>2. S \ {x} \in SUBSET S
  OBVIOUS
<1>3. Cardinality(Units(f, S \ {x})) \in Nat
  BY <1>2, UnitsFinite
<1>4. f[x] \in Nat /\ g[x] \in Nat
  OBVIOUS
<1>5. QED
  BY <1>1, <1>3, <1>4, SumSplit

\* A sum is no less than any of its terms.
LEMMA SumTerm ==
  ASSUME NEW S, IsFiniteSet(S), NEW f \in [S -> Nat], NEW x \in S
  PROVE  f[x] <= SumFunctionOnSet(f, S)
<1>1. S \ {x} \in SUBSET S
  OBVIOUS
<1>2. Cardinality(Units(f, S \ {x})) \in Nat
  BY <1>1, UnitsFinite
<1>3. QED
  BY <1>2, SumSplit

\* What is positive has a positive term.
LEMMA SumPositive ==
  ASSUME NEW S, IsFiniteSet(S), NEW f \in [S -> Nat],
         SumFunctionOnSet(f, S) > 0
  PROVE  \E x \in S : f[x] > 0
<1> SUFFICES ASSUME \A x \in S : ~(f[x] > 0) PROVE FALSE
  OBVIOUS
<1>1. Units(f, S) = {}
  BY DEF Units
<1>2. QED
  BY <1>1, SumIsUnits, FS_EmptySet

\* A function that is smaller everywhere has a smaller sum.
LEMMA SumMonotone ==
  ASSUME NEW S, IsFiniteSet(S), NEW f \in [S -> Nat], NEW g \in [S -> Nat],
         \A x \in S : f[x] <= g[x]
  PROVE  SumFunctionOnSet(f, S) <= SumFunctionOnSet(g, S)
<1>1. Units(f, S) \subseteq Units(g, S)
  BY DEF Units
<1>2. S \in SUBSET S
  OBVIOUS
<1>3. IsFiniteSet(Units(g, S))
  BY <1>2, UnitsFinite
<1>4. Cardinality(Units(f, S)) <= Cardinality(Units(g, S))
  BY <1>1, <1>3, FS_Subset
<1>5. QED
  BY <1>4, SumIsUnits

\* At most m from each of P, and nothing from the others.
LEMMA SumBounded ==
  ASSUME NEW S, IsFiniteSet(S), NEW f \in [S -> Nat], NEW m \in Nat,
         NEW P \in SUBSET S, \A x \in S : f[x] <= IF x \in P THEN m ELSE 0
  PROVE  SumFunctionOnSet(f, S) <= Cardinality(P) * m
<1>1. Units(f, S) \subseteq P \X (1 .. m)
  BY DEF Units
<1>2. IsFiniteSet(P)
  BY FS_Subset
<1>3. IsFiniteSet(1 .. m) /\ Cardinality(1 .. m) = m
  BY FS_Interval
<1>4. /\ IsFiniteSet(P \X (1 .. m))
      /\ Cardinality(P \X (1 .. m)) = Cardinality(P) * m
  BY <1>2, <1>3, FS_Product
<1>5. Cardinality(Units(f, S)) <= Cardinality(P \X (1 .. m))
  BY <1>1, <1>4, FS_Subset
<1>6. QED
  BY <1>4, <1>5, SumIsUnits

\* SumFunction sums over the domain.
LEMMA SumIsOverDomain ==
  ASSUME NEW S, NEW f \in [S -> Nat]
  PROVE  SumFunction(f) = SumFunctionOnSet(f, S)
  BY DEF SumFunction

-----------------------------------------------------------------------------
(* The ledger *)

\* A heartbeat's uuid is that of one request, and a connection that works on a
\* heartbeat works on one that was sent.
OneRequest ==
  /\ \A r, q \in sent : r.id = q.id => r = q
  /\ \A w \in Worker : txn[w].id # NoId =>
       [id |-> txn[w].id, tick |-> txn[w].tick, bytes |-> txn[w].bytes] \in sent

\* A transaction that is charging a heartbeat is the first to do so.
NotRecordedYet ==
  /\ \A w \in Worker : Inside(w) => ~Recorded(txn[w].id)
  /\ \A i \in HeartbeatId : ~Recorded(i) => heartbeats[i] = NoRow

\* What deduct read of a grant is never less than what the grant now holds,
\* since ledger rows are only added; it is at most the grant's size.
Remainders ==
  \A w \in Worker, g \in Grant :
    LET rem == txn[w].remaining[g] IN
    /\ rem <= Size[g]
    /\ rem > 0 => txn[w].pc \in {"grants", "write"}
    /\ rem > 0 => rem >= Size[g] - used[g]

\* The most each connection may still take from a grant.
Claim(g) == [w \in Worker |-> Smaller(Positive(txn[w].remaining[g]), MaxBytes)]

Room(g) == Size[g] + (Cardinality(Session) - 1) * Smaller(Size[g], MaxBytes)

\* What is charged and what may yet be charged on remainders read before.
Claims == \A g \in Grant : used[g] + SumFunction(Claim(g)) <= Room(g)

LedgerInv == /\ OneRequest /\ NotRecordedYet /\ Remainders /\ Claims
             /\ ChargedWithinReported

LEMMA RoomType ==
  ASSUME NEW g \in Grant
  PROVE  /\ Size[g] \in Nat /\ Smaller(Size[g], MaxBytes) \in Nat
         /\ Smaller(Size[g], MaxBytes) <= Size[g]
         /\ Cardinality(Session) \in Nat
         /\ Room(g) \in Int
  <1>1. /\ Size[g] \in Nat /\ Smaller(Size[g], MaxBytes) \in Nat
        /\ Smaller(Size[g], MaxBytes) <= Size[g]
    BY GrantAssumption, BytesAssumption DEF Grant, Smaller
  <1>2. Cardinality(Session) \in Nat
    BY FinitenessAssumption, FS_CardinalityType
  <1>3. QED
    BY <1>1, <1>2 DEF Room

LEMMA ClaimType ==
  ASSUME TypeOK, NEW g \in Grant
  PROVE  /\ Claim(g) \in [Worker -> Nat]
         /\ SumFunction(Claim(g)) = SumFunctionOnSet(Claim(g), Worker)
         /\ SumFunction(Claim(g)) \in Nat
  <1>1. \A w \in Worker : txn[w].remaining[g] \in Int
    BY DEF TypeOK, Transaction
  <1>2. Claim(g) \in [Worker -> Nat]
    BY <1>1, BytesAssumption DEF Claim, Smaller, Positive
  <1>3. QED
    BY <1>2, SumIsOverDomain, SumType, FinitenessAssumption

LEMMA ReportedType ==
  ASSUME TypeOK, NEW s \in Session
  PROVE  /\ Reported(s) \in [HeartbeatId -> Nat]
         /\ SumFunction(Reported(s)) = SumFunctionOnSet(Reported(s), HeartbeatId)
         /\ SumFunction(Reported(s)) \in Nat
  <1>1. \A i \in HeartbeatId : heartbeats[i].bytes \in Nat
    BY BytesAssumption DEF TypeOK, HeartbeatRow
  <1>2. Reported(s) \in [HeartbeatId -> Nat]
    BY <1>1 DEF Reported
  <1>3. QED
    BY <1>2, SumIsOverDomain, SumType, FinitenessAssumption

\* Two connections that are past the checks work on different heartbeats: the
\* same uuid would be the same request, so the same session, whose row only one
\* of them holds.
LEMMA InsideAlone ==
  ASSUME IInv, OneRequest, NEW v \in Worker, NEW w \in Worker,
         Inside(v), Inside(w), txn[v].id = txn[w].id
  PROVE  v = w
<1> DEFINE R(x) == [id |-> txn[x].id, tick |-> txn[x].tick, bytes |-> txn[x].bytes]
<1>1. txn[v].id # NoId /\ txn[w].id # NoId
  BY DEF Inside, IInv, TypeOK, TxnOK
<1>2. R(v) \in sent /\ R(w) \in sent
  BY <1>1 DEF OneRequest
<1>3. R(v) = R(w)
  BY <1>2 DEF OneRequest
<1>4. txn[v].tick = txn[w].tick
  BY <1>3
<1>5. QED
  BY <1>4, Held

LEMMA LedgerInit == Init => LedgerInv
<1> SUFFICES ASSUME Init PROVE LedgerInv
  OBVIOUS
<1>1. TypeOK
  BY TypeInit
<1>2. OneRequest /\ NotRecordedYet
  BY DEF Init, OneRequest, NotRecordedYet, Idle, NoRow, Inside, Recorded
<1>3. \A w \in Worker, g \in Grant : txn[w].remaining[g] = 0
  BY DEF Init, Idle
<1>4. Remainders
  BY <1>3, RoomType DEF Remainders
<1>5. Claims
  <2> SUFFICES ASSUME NEW g \in Grant PROVE used[g] + SumFunction(Claim(g)) <= Room(g)
    BY DEF Claims
  <2>1. \A w \in Worker : Claim(g)[w] = 0
    BY <1>3, BytesAssumption DEF Claim, Smaller, Positive
  <2>2. SumFunction(Claim(g)) = 0
    <3>1. SumFunctionOnSet(Claim(g), Worker) <= 0
      <4>1. ~ (SumFunctionOnSet(Claim(g), Worker) > 0)
        BY <1>1, <2>1, ClaimType, SumPositive, FinitenessAssumption
      <4>2. QED
        BY <1>1, <4>1, ClaimType
    <3>2. QED
      BY <1>1, <3>1, ClaimType
  <2>3. Room(g) >= 0
    <3> DEFINE n == Cardinality(Session)
               m == Smaller(Size[g], MaxBytes)
    <3>1. n \in Nat /\ m \in Nat /\ Size[g] \in Nat /\ m <= Size[g]
      BY RoomType
    <3> HIDE DEF n, m
    <3>2. CASE n = 0
      <4>1. (n - 1) * m = 0 - m
        BY <3>1, <3>2
      <4>2. QED
        BY <3>1, <4>1 DEF Room, n, m
    <3>3. CASE n # 0
      <4>1. (n - 1) * m \in Nat
        BY <3>1, <3>3
      <4>2. QED
        BY <3>1, <4>1 DEF Room, n, m
    <3>4. QED
      BY <3>2, <3>3
  <2>4. used[g] = 0
    BY DEF Init
  <2>5. QED
    BY <2>2, <2>3, <2>4, RoomType
<1>6. ChargedWithinReported
  BY <1>1, ReportedType DEF Init, ChargedWithinReported
<1>7. QED
  BY <1>2, <1>4, <1>5, <1>6 DEF LedgerInv

\* Steps that charge nothing and read no remainders: requests may be added, and
\* a connection takes up a request, moves on or ends.
LEMMA QuietLedger ==
  ASSUME IInv, LedgerInv, TypeOK', used' = used, charged' = charged,
         heartbeats' = heartbeats, sent \subseteq sent',
         \A r, q \in sent' : r.id = q.id => r = q,
         \A w \in Worker :
           \/ txn'[w] = txn[w]
           \/ /\ txn'[w].id # NoId =>
                   [id |-> txn'[w].id, tick |-> txn'[w].tick,
                    bytes |-> txn'[w].bytes] \in sent
              /\ txn'[w].pc \in {"deduct", "grants", "write"} =>
                   ~Recorded(txn'[w].id)
              /\ \A g \in Grant :
                   /\ txn'[w].remaining[g] \in {0, txn[w].remaining[g]}
                   /\ txn'[w].remaining[g] > 0 => txn'[w].pc \in {"grants", "write"}
  PROVE  LedgerInv'
<1>1. OneRequest'
  BY DEF LedgerInv, OneRequest
<1>2. NotRecordedYet'
  BY DEF LedgerInv, NotRecordedYet, Inside, Recorded
<1>3. Remainders'
  <2> SUFFICES ASSUME NEW w \in Worker, NEW g \in Grant
               PROVE  LET rem == txn'[w].remaining[g] IN
                      /\ rem <= Size[g]
                      /\ rem > 0 => txn'[w].pc \in {"grants", "write"}
                      /\ rem > 0 => rem >= Size[g] - used[g]
    BY DEF Remainders
  <2>1. /\ txn[w].remaining[g] <= Size[g]
        /\ txn[w].remaining[g] > 0 => txn[w].pc \in {"grants", "write"}
        /\ txn[w].remaining[g] > 0 => txn[w].remaining[g] >= Size[g] - used[g]
    BY DEF LedgerInv, Remainders
  <2>2. \/ txn'[w] = txn[w]
        \/ /\ txn'[w].remaining[g] \in {0, txn[w].remaining[g]}
           /\ txn'[w].remaining[g] > 0 => txn'[w].pc \in {"grants", "write"}
    OBVIOUS
  <2>3. QED
    BY <2>1, <2>2, RoomType
<1>4. Claims'
  <2> SUFFICES ASSUME NEW g \in Grant
               PROVE  used'[g] + SumFunction(Claim(g)') <= Room(g)
    BY DEF Claims, Room, Smaller
  <2>1. \A w \in Worker : Claim(g)'[w] <= Claim(g)[w]
    <3> SUFFICES ASSUME NEW w \in Worker PROVE Claim(g)'[w] <= Claim(g)[w]
      OBVIOUS
    <3>1. txn[w].remaining[g] \in Int /\ MaxBytes \in Nat
      BY BytesAssumption DEF IInv, TypeOK, Transaction
    <3>2. txn'[w].remaining[g] \in {0, txn[w].remaining[g]}
      OBVIOUS
    <3>3. QED
      BY <3>1, <3>2 DEF Claim, Smaller, Positive
  <2>2. /\ Claim(g) \in [Worker -> Nat]
        /\ SumFunction(Claim(g)) = SumFunctionOnSet(Claim(g), Worker)
        /\ SumFunction(Claim(g)) \in Nat
    BY ClaimType DEF IInv
  <2>3. /\ Claim(g)' \in [Worker -> Nat]
        /\ SumFunction(Claim(g)') = SumFunctionOnSet(Claim(g)', Worker)
        /\ SumFunction(Claim(g)') \in Nat
    <3>1. \A w \in Worker : txn'[w].remaining[g] \in Int
      BY DEF TypeOK, Transaction
    <3>2. Claim(g)' \in [Worker -> Nat]
      BY <3>1, BytesAssumption DEF Claim, Smaller, Positive
    <3>3. QED
      BY <3>2, SumIsOverDomain, SumType, FinitenessAssumption
  <2>4. SumFunction(Claim(g)') <= SumFunction(Claim(g))
    <3>1. SumFunctionOnSet(Claim(g)', Worker) <= SumFunctionOnSet(Claim(g), Worker)
      BY <2>1, <2>2, <2>3, SumMonotone, FinitenessAssumption
    <3>2. QED
      BY <2>2, <2>3, <3>1
  <2>5. used[g] + SumFunction(Claim(g)) <= Room(g) /\ used[g] \in Nat
    BY DEF LedgerInv, Claims, IInv, TypeOK
  <2>6. QED
    BY <2>2, <2>3, <2>4, <2>5, RoomType
<1>5. ChargedWithinReported'
  BY DEF LedgerInv, ChargedWithinReported, Reported
<1>6. QED
  BY <1>1, <1>2, <1>3, <1>4, <1>5 DEF LedgerInv

\* Every step but deduct's read and a heartbeat's commit is one of those.
LEMMA OtherStepsQuiet ==
  ASSUME IInv, LedgerInv, TypeOK', [Next]_vars,
         ~ \E w \in Worker : DeductRead(w) \/ HeartbeatCommit(w)
  PROVE  LedgerInv'
<1>1. CASE txn' = txn /\ sent' = sent /\ used' = used /\ charged' = charged
             /\ heartbeats' = heartbeats
  BY <1>1, QuietLedger DEF LedgerInv, OneRequest
<1>2. CASE UNCHANGED vars \/ SessionNext \/ WorldNext
  BY <1>1, <1>2
  DEF vars, SessionNext, Open, Consent, RejectIncoming, StopRevoke, StopClose,
      WorldNext, TicketExpires, GrantInserted, GrantExpires, ledgerVars,
      relayVars
<1>3. CASE PumpNext
  <2>1. ASSUME NEW p \in Pump, NEW n \in Bytes, PumpSend(p, n) PROVE LedgerInv'
    <3>1. NewId \in Unsent
      BY <2>1, NewIdUnsent DEF PumpSend
    <3>2. /\ sent \subseteq sent'
          /\ \A r, q \in sent' : r.id = q.id => r = q
      BY <2>1, <3>1 DEF PumpSend, Unsent, LedgerInv, OneRequest
    <3>3. /\ txn' = txn /\ used' = used /\ charged' = charged
          /\ heartbeats' = heartbeats
      BY <2>1 DEF PumpSend, ledgerVars
    <3>4. QED
      BY <3>2, <3>3, QuietLedger
  <2>2. QED
    BY <1>1, <1>3, <2>1 DEF PumpNext, PumpReply, PumpBreak, ledgerVars
<1>4. CASE WorkerNext
  <2>1. PICK w \in Worker :
          \/ \E p \in Pump, t \in Ticket : AdmitLoad(w, p, t)
          \/ \E r \in sent : HeartbeatBegin(w, r)
          \/ AdmitCommit(w)
          \/ HeartbeatReplay(w) \/ HeartbeatRefuse(w) \/ HeartbeatAccept(w)
          \/ DeductLock(w) \/ Abort(w)
    BY <1>4 DEF WorkerNext
  <2>2. /\ sent' = sent /\ used' = used /\ charged' = charged
        /\ heartbeats' = heartbeats
    BY <2>1
    DEF AdmitLoad, HeartbeatBegin, AdmitCommit, HeartbeatReplay,
        HeartbeatRefuse, HeartbeatAccept, DeductLock, Abort, ledgerVars,
        relayVars
  <2>3. \A v \in Worker \ {w} : txn'[v] = txn[v]
    BY <2>1
    DEF AdmitLoad, HeartbeatBegin, AdmitCommit, HeartbeatReplay,
        HeartbeatRefuse, HeartbeatAccept, DeductLock, Abort, IInv, TypeOK
  <2> DEFINE Moved ==
        /\ txn'[w].id # NoId =>
             [id |-> txn'[w].id, tick |-> txn'[w].tick,
              bytes |-> txn'[w].bytes] \in sent
        /\ txn'[w].pc \in {"deduct", "grants", "write"} => ~Recorded(txn'[w].id)
        /\ \A g \in Grant :
             /\ txn'[w].remaining[g] \in {0, txn[w].remaining[g]}
             /\ txn'[w].remaining[g] > 0 => txn'[w].pc \in {"grants", "write"}
  <2> SUFFICES Moved
    BY <2>2, <2>3, QuietLedger DEF LedgerInv, OneRequest
  <2>4. CASE \E p \in Pump, t \in Ticket : AdmitLoad(w, p, t)
    <3>1. PICK p \in Pump, t \in Ticket :
            txn' = [txn EXCEPT ![w] = [Idle EXCEPT !.pc = "admit", !.tick = t, !.pump = p]]
      BY <2>4 DEF AdmitLoad
    <3>2. /\ txn'[w].id = NoId /\ txn'[w].pc = "admit"
          /\ \A g \in Grant : txn'[w].remaining[g] = 0
      BY <3>1 DEF Idle, IInv, TypeOK
    <3>3. QED
      BY <3>2
  <2>5. CASE \E r \in sent : HeartbeatBegin(w, r)
    <3>1. PICK r \in sent :
            txn' = [txn EXCEPT ![w] = [Idle EXCEPT !.pc = "locking", !.id = r.id,
                                       !.tick = r.tick, !.bytes = r.bytes]]
      BY <2>5 DEF HeartbeatBegin
    <3>2. /\ txn'[w].id = r.id /\ txn'[w].tick = r.tick
          /\ txn'[w].bytes = r.bytes /\ txn'[w].pc = "locking"
          /\ \A g \in Grant : txn'[w].remaining[g] = 0
      BY <3>1 DEF Idle, IInv, TypeOK
    <3>3. r = [id |-> r.id, tick |-> r.tick, bytes |-> r.bytes]
      BY DEF IInv, TypeOK, Request
    <3>4. QED
      BY <3>2, <3>3
  <2>6. CASE AdmitCommit(w) \/ HeartbeatReplay(w) \/ HeartbeatRefuse(w) \/ Abort(w)
    <3>1. txn' = [txn EXCEPT ![w] = Idle]
      BY <2>6 DEF AdmitCommit, HeartbeatReplay, HeartbeatRefuse, Abort
    <3>2. /\ txn'[w].id = NoId /\ txn'[w].pc = "idle"
          /\ \A g \in Grant : txn'[w].remaining[g] = 0
      BY <3>1 DEF Idle, IInv, TypeOK
    <3>3. QED
      BY <3>2
  <2>7. CASE HeartbeatAccept(w) \/ DeductLock(w)
    <3>1. /\ txn'[w].id = txn[w].id /\ txn'[w].tick = txn[w].tick
          /\ txn'[w].bytes = txn[w].bytes
          /\ txn'[w].remaining = txn[w].remaining
      BY <2>7 DEF HeartbeatAccept, DeductLock, IInv, TypeOK, Transaction
    <3>2. ~Recorded(txn[w].id)
      BY <2>7 DEF HeartbeatAccept, DeductLock, LedgerInv, NotRecordedYet, Inside
    <3>3. \A g \in Grant :
            txn[w].remaining[g] > 0 => txn'[w].pc \in {"grants", "write"}
      <4>1. CASE HeartbeatAccept(w)
        BY <4>1 DEF HeartbeatAccept, HasRow, LedgerInv, Remainders
      <4>2. CASE DeductLock(w)
        BY <4>2 DEF DeductLock, IInv, TypeOK, Transaction
      <4>3. QED
        BY <2>7, <4>1, <4>2
    <3>4. QED
      BY <3>1, <3>2, <3>3 DEF LedgerInv, OneRequest
  <2>8. QED
    BY <2>1, <2>4, <2>5, <2>6, <2>7
<1>5. QED
  BY <1>2, <1>3, <1>4 DEF Next

\* Besides a connection that is past the checks there can be one less than
\* there are sessions, because each holds the row of a session of its own.
LEMMA OthersInside ==
  ASSUME IInv, NEW w \in Worker, Inside(w)
  PROVE  /\ Cardinality({v \in Worker \ {w} : Inside(v)}) \in Nat
         /\ Cardinality({v \in Worker \ {w} : Inside(v)}) <= Cardinality(Session) - 1
<1> DEFINE P == {v \in Worker \ {w} : Inside(v)}
           s == ticket[txn[w].tick].sess
           row == [v \in P |-> ticket[txn[v].tick].sess]
<1>1. s \in Session /\ lock[s] = w
  BY Held
<1>2. \A v \in P : row[v] \in Session /\ lock[row[v]] = v
  BY Held
<1>3. \A v \in P : row[v] # s
  BY <1>1, <1>2
<1>4. row \in Injection(P, Session \ {s})
  <2>1. row \in [P -> Session \ {s}]
    BY <1>2, <1>3
  <2>2. \A u, v \in P : row[u] = row[v] => u = v
    BY <1>2
  <2>3. QED
    BY <2>1, <2>2 DEF Injection, IsInjective
<1> HIDE DEF P, s, row
<1>5. /\ IsFiniteSet(Session \ {s})
      /\ Cardinality(Session \ {s}) = Cardinality(Session) - 1
  BY <1>1, FinitenessAssumption, FS_RemoveElement
<1>6. IsFiniteSet(P) /\ Cardinality(P) <= Cardinality(Session \ {s})
  BY <1>4, <1>5, FS_Injection
<1>7. Cardinality(P) \in Nat
  BY <1>6, FS_CardinalityType
<1>8. QED
  BY <1>5, <1>6, <1>7 DEF P

\* deduct reads the grants: this connection may from now on take what it read,
\* which fits beside what the ledger holds, and every other connection may take
\* at most one heartbeat on what it had read.
LEMMA ReadLedger ==
  ASSUME IInv, LedgerInv, TypeOK', NEW w \in Worker, DeductRead(w)
  PROVE  LedgerInv'
<1>1. /\ used' = used /\ charged' = charged /\ heartbeats' = heartbeats
      /\ sent' = sent /\ Inside(w)
  BY DEF DeductRead, ledgerVars, relayVars, Inside
<1>2. /\ \A v \in Worker \ {w} : txn'[v] = txn[v]
      /\ txn'[w].id = txn[w].id /\ txn'[w].tick = txn[w].tick
      /\ txn'[w].bytes = txn[w].bytes
      /\ txn'[w].pc = IF Usable(txn[w].gone) = {} THEN "write" ELSE "grants"
      /\ txn'[w].remaining = Remaining(used, txn[w].gone)
  <2> DEFINE rem == Remaining(used, txn[w].gone)
             pc  == IF Usable(txn[w].gone) = {} THEN "write" ELSE "grants"
  <2>1. txn[w] \in Transaction /\ txn \in [Worker -> Transaction]
    BY DEF IInv, TypeOK
  <2>2. txn' = [txn EXCEPT ![w] = [@ EXCEPT !.remaining = rem, !.pc = pc]]
    BY DEF DeductRead
  <2> HIDE DEF rem, pc
  <2>3. /\ \A v \in Worker \ {w} : txn'[v] = txn[v]
        /\ txn'[w] = [txn[w] EXCEPT !.remaining = rem, !.pc = pc]
    BY <2>1, <2>2
  <2>4. QED
    BY <2>1, <2>3 DEF Transaction, rem, pc
<1>3. ASSUME NEW g \in Grant
      PROVE  /\ txn[w].remaining[g] \in Int /\ txn[w].remaining[g] <= 0
             /\ txn'[w].remaining[g] \in {0, Size[g] - used[g]}
             /\ txn'[w].remaining[g] > 0 => txn'[w].pc = "grants"
             /\ used[g] \in Nat
  <2>1. used[g] \in Nat /\ Size[g] \in Nat
    BY RoomType DEF IInv, TypeOK
  <2>2. txn[w].remaining[g] \in Int /\ txn[w].remaining[g] <= 0
    <3>1. txn[w].pc = "deduct"
      BY DEF DeductRead
    <3>2. txn[w].remaining[g] > 0 => txn[w].pc \in {"grants", "write"}
      BY DEF LedgerInv, Remainders
    <3>3. txn[w].remaining[g] \in Int
      BY DEF IInv, TypeOK, Transaction
    <3>4. QED
      BY <3>1, <3>2, <3>3
  <2>3. txn'[w].remaining[g] =
          IF g \in Usable(txn[w].gone) THEN Size[g] - used[g] ELSE 0
    BY <1>2 DEF Remaining
  <2>4. QED
    BY <1>2, <2>1, <2>2, <2>3
<1>4. OneRequest'
  BY <1>1, <1>2 DEF LedgerInv, OneRequest
<1>5. NotRecordedYet'
  BY <1>1, <1>2 DEF LedgerInv, NotRecordedYet, Inside, Recorded
<1>6. Remainders'
  <2> SUFFICES ASSUME NEW v \in Worker, NEW g \in Grant
               PROVE  LET rem == txn'[v].remaining[g] IN
                      /\ rem <= Size[g]
                      /\ rem > 0 => txn'[v].pc \in {"grants", "write"}
                      /\ rem > 0 => rem >= Size[g] - used[g]
    BY <1>1 DEF Remainders
  <2>1. CASE v = w
    BY <1>3, <2>1, RoomType
  <2>2. CASE v # w
    BY <1>2, <2>2 DEF LedgerInv, Remainders
  <2>3. QED
    BY <2>1, <2>2
<1>7. Claims'
  <2> SUFFICES ASSUME NEW g \in Grant
               PROVE  used[g] + SumFunction(Claim(g)') <= Room(g)
    BY <1>1 DEF Claims, Room, Smaller
  <2> DEFINE m == Smaller(Size[g], MaxBytes)
             P == {v \in Worker \ {w} : Inside(v)}
             old == Claim(g)
             new == Claim(g)'
  <2>1. /\ old \in [Worker -> Nat]
        /\ SumFunction(old) = SumFunctionOnSet(old, Worker)
        /\ SumFunction(old) \in Nat
    BY ClaimType DEF IInv
  <2>2. /\ new \in [Worker -> Nat]
        /\ SumFunction(new) = SumFunctionOnSet(new, Worker)
        /\ SumFunction(new) \in Nat
    <3>1. \A v \in Worker : txn'[v].remaining[g] \in Int
      BY DEF TypeOK, Transaction
    <3>2. new \in [Worker -> Nat]
      BY <3>1, BytesAssumption DEF Claim, Smaller, Positive
    <3>3. QED
      BY <3>2, SumIsOverDomain, SumType, FinitenessAssumption
  <2>3. old[w] = 0
    BY <1>3, BytesAssumption DEF Claim, Smaller, Positive
  <2>4. \A v \in Worker \ {w} : new[v] = old[v]
    BY <1>2 DEF Claim
  <2>5. new[w] = 0 \/ new[w] <= Size[g] - used[g]
    BY <1>3, RoomType, BytesAssumption DEF Claim, Smaller, Positive
  <2>6. \A v \in Worker : old[v] <= IF v \in P THEN m ELSE 0
    <3> SUFFICES ASSUME NEW v \in Worker PROVE old[v] <= IF v \in P THEN m ELSE 0
      OBVIOUS
    <3>1. /\ txn[v].remaining[g] \in Int
          /\ txn[v].remaining[g] <= Size[g]
          /\ txn[v].remaining[g] > 0 => Inside(v)
      BY DEF IInv, TypeOK, Transaction, LedgerInv, Remainders, Inside
    <3>2. CASE v = w
      BY <2>3, <3>2
    <3>3. CASE v # w
      BY <3>1, <3>3, RoomType, BytesAssumption DEF Claim, Smaller, Positive
    <3>4. QED
      BY <3>2, <3>3
  <2>7. m \in Nat /\ P \in SUBSET Worker
    BY RoomType
  <2> HIDE DEF old, new, m, P
  <2>8. SumFunction(new) = SumFunction(old) + new[w]
    <3>1. SumFunctionOnSet(new, Worker) + old[w] = SumFunctionOnSet(old, Worker) + new[w]
      BY <2>1, <2>2, <2>4, SumOneChanges, FinitenessAssumption
    <3>2. new[w] \in Nat
      BY <2>2
    <3>3. QED
      BY <2>1, <2>2, <2>3, <3>1, <3>2
  <2>9. SumFunction(old) <= Cardinality(P) * m
    BY <2>1, <2>6, <2>7, SumBounded, FinitenessAssumption
  <2>10. CASE new[w] = 0
    BY <2>1, <2>2, <2>8, <2>10 DEF LedgerInv, Claims, old, new
  <2>11. CASE new[w] <= Size[g] - used[g]
    <3> DEFINE n == Cardinality(Session)
               k == Cardinality(P)
    <3>1. k \in Nat /\ n \in Nat /\ k <= n - 1
      BY <1>1, OthersInside, RoomType DEF P
    <3>2. used[g] \in Nat /\ Size[g] \in Nat /\ new[w] \in Nat
      BY <1>3, <2>2, RoomType
    <3>3. Room(g) = Size[g] + (n - 1) * m
      BY DEF Room, m
    <3> HIDE DEF n, k
    <3>4. k * m <= (n - 1) * m
      BY <2>7, <3>1
    <3>5. k * m \in Nat /\ (n - 1) * m \in Nat
      BY <2>7, <3>1
    <3>6. SumFunction(old) <= k * m
      BY <2>9 DEF k
    <3>7. used[g] + SumFunction(new) <= Room(g)
      <4> DEFINE a == k * m
                 b == (n - 1) * m
      <4>1. a \in Nat /\ b \in Nat /\ a <= b /\ SumFunction(old) <= a
            /\ Room(g) = Size[g] + b
        BY <3>3, <3>4, <3>5, <3>6
      <4> HIDE DEF a, b
      <4>2. QED
        BY <2>1, <2>8, <2>11, <3>2, <4>1
    <3>8. QED
      BY <3>7 DEF new
  <2>12. QED
    BY <2>5, <2>10, <2>11
<1>8. ChargedWithinReported'
  BY <1>1 DEF LedgerInv, ChargedWithinReported, Reported
<1>9. QED
  BY <1>4, <1>5, <1>6, <1>7, <1>8 DEF LedgerInv

\* What a commit does to the ledger and to the heartbeat's row: from each grant
\* at most what was read of it, in all at most what the heartbeat reports, which
\* its row then holds.
LEMMA CommitRows ==
  ASSUME IInv, LedgerInv, NEW w \in Worker, HeartbeatCommit(w)
  PROVE  \E take \in [Grant -> 0 .. MaxBytes], all \in 0 .. txn[w].bytes :
           /\ \A g \in Grant :
                /\ used'[g] = used[g] + take[g]
                /\ take[g] <= Positive(txn[w].remaining[g])
                /\ take[g] < Positive(txn[w].remaining[g]) => all = txn[w].bytes
           /\ \A s \in Session : charged'[s] =
                IF s = SessionOf(txn[w].tick) THEN charged[s] + all ELSE charged[s]
           /\ heartbeats[txn[w].id] = NoRow
           /\ heartbeats'[txn[w].id].sess = SessionOf(txn[w].tick)
           /\ heartbeats'[txn[w].id].bytes = txn[w].bytes
           /\ \A i \in HeartbeatId \ {txn[w].id} : heartbeats'[i] = heartbeats[i]
           /\ sent' = sent
           /\ \A v \in Worker \ {w} : txn'[v] = txn[v]
           /\ txn'[w] = Idle
<1>1. PICK take \in [Grant -> 0 .. MaxBytes], all \in 0 .. txn[w].bytes :
        /\ Deducts(txn[w].remaining, txn[w].bytes, take, all)
        /\ used' = [g \in Grant |-> used[g] + take[g]]
        /\ charged' = [charged EXCEPT ![SessionOf(txn[w].tick)] = @ + all]
  BY DEF HeartbeatCommit
<1>2. \A g \in Grant :
        /\ used'[g] = used[g] + take[g]
        /\ take[g] <= Positive(txn[w].remaining[g])
        /\ take[g] < Positive(txn[w].remaining[g]) => all = txn[w].bytes
  BY <1>1 DEF Deducts
<1>3. \A s \in Session : charged'[s] =
        IF s = SessionOf(txn[w].tick) THEN charged[s] + all ELSE charged[s]
  BY <1>1 DEF IInv, TypeOK
<1>4. txn[w].id \in HeartbeatId /\ heartbeats[txn[w].id] = NoRow
  BY DEF HeartbeatCommit, LedgerInv, NotRecordedYet, Inside, IInv, TypeOK,
     TxnOK, Transaction
<1>5. /\ heartbeats'[txn[w].id].sess = SessionOf(txn[w].tick)
      /\ heartbeats'[txn[w].id].bytes = txn[w].bytes
      /\ \A i \in HeartbeatId \ {txn[w].id} : heartbeats'[i] = heartbeats[i]
  <2>1. PICK next : heartbeats' = [heartbeats EXCEPT ![txn[w].id] =
          [sess |-> SessionOf(txn[w].tick), bytes |-> txn[w].bytes, next |-> next]]
    BY DEF HeartbeatCommit, StopForBalance, StopForRealName, RotateTicket
  <2>2. QED
    BY <1>4, <2>1 DEF IInv, TypeOK
<1>6. /\ sent' = sent
      /\ \A v \in Worker \ {w} : txn'[v] = txn[v]
      /\ txn'[w] = Idle
  BY DEF HeartbeatCommit, relayVars, IInv, TypeOK
<1>7. QED
  BY <1>1, <1>2, <1>3, <1>4, <1>5, <1>6

\* A commit turns part of the connection's claim into ledger rows and drops the
\* rest, and pays for at most what the heartbeat's row adds to the reports.
LEMMA CommitLedger ==
  ASSUME IInv, LedgerInv, TypeOK', NEW w \in Worker, HeartbeatCommit(w)
  PROVE  LedgerInv'
<1> DEFINE i == txn[w].id
           s == SessionOf(txn[w].tick)
<1>1. PICK take \in [Grant -> 0 .. MaxBytes], all \in 0 .. txn[w].bytes :
        /\ \A g \in Grant :
             /\ used'[g] = used[g] + take[g]
             /\ take[g] <= Positive(txn[w].remaining[g])
        /\ \A r \in Session :
             charged'[r] = IF r = s THEN charged[r] + all ELSE charged[r]
        /\ heartbeats[i] = NoRow
        /\ heartbeats'[i].sess = s
        /\ heartbeats'[i].bytes = txn[w].bytes
        /\ \A j \in HeartbeatId \ {i} : heartbeats'[j] = heartbeats[j]
        /\ sent' = sent
        /\ \A v \in Worker \ {w} : txn'[v] = txn[v]
        /\ txn'[w] = Idle
  BY CommitRows
<1>2. /\ Inside(w) /\ i \in HeartbeatId /\ s \in Session /\ s # NoSession
      /\ txn[w].bytes \in Nat /\ all \in Nat /\ all <= txn[w].bytes
  BY WorkerTicket, BytesAssumption, SentinelAssumption
  DEF HeartbeatCommit, Inside, IInv, TypeOK, TxnOK, Transaction
<1>3. \A g \in Grant : take[g] \in Nat /\ take[g] <= MaxBytes /\ used[g] \in Nat
  BY BytesAssumption DEF IInv, TypeOK
<1>4. OneRequest'
  BY <1>1 DEF LedgerInv, OneRequest, Idle
<1>5. NotRecordedYet'
  <2>1. ASSUME NEW v \in Worker, v # w, Inside(v)
        PROVE  heartbeats'[txn[v].id].sess = NoSession
    <3>1. txn[v].id # i
      BY <1>2, <2>1, InsideAlone DEF LedgerInv
    <3>2. txn[v].id \in HeartbeatId
      BY <2>1 DEF Inside, IInv, TypeOK, TxnOK, Transaction
    <3>3. heartbeats[txn[v].id].sess = NoSession
      BY <2>1 DEF LedgerInv, NotRecordedYet, Recorded
    <3>4. QED
      BY <1>1, <3>1, <3>2, <3>3
  <2>2. \A j \in HeartbeatId : heartbeats'[j].sess = NoSession => heartbeats'[j] = NoRow
    BY <1>1, <1>2 DEF LedgerInv, NotRecordedYet, Recorded
  <2>3. QED
    BY <1>1, <2>1, <2>2 DEF NotRecordedYet, Inside, Recorded, Idle
<1> HIDE DEF i, s
<1>6. Remainders'
  <2> SUFFICES ASSUME NEW v \in Worker, NEW g \in Grant
               PROVE  LET rem == txn'[v].remaining[g] IN
                      /\ rem <= Size[g]
                      /\ rem > 0 => txn'[v].pc \in {"grants", "write"}
                      /\ rem > 0 => rem >= Size[g] - used'[g]
    BY DEF Remainders
  <2>1. CASE v = w
    BY <1>1, <2>1, RoomType DEF Idle
  <2>2. CASE v # w
    <3>1. txn'[v] = txn[v] /\ txn[v].remaining[g] \in Int
      BY <1>1, <2>2 DEF IInv, TypeOK, Transaction
    <3>2. /\ txn[v].remaining[g] <= Size[g]
          /\ txn[v].remaining[g] > 0 => txn[v].pc \in {"grants", "write"}
          /\ txn[v].remaining[g] > 0 => txn[v].remaining[g] >= Size[g] - used[g]
      BY DEF LedgerInv, Remainders
    <3>3. used'[g] >= used[g] /\ used'[g] \in Nat
      BY <1>1, <1>3
    <3>4. QED
      BY <1>3, <3>1, <3>2, <3>3, RoomType
  <2>3. QED
    BY <2>1, <2>2
<1>7. Claims'
  <2> SUFFICES ASSUME NEW g \in Grant
               PROVE  used'[g] + SumFunction(Claim(g)') <= Room(g)
    BY DEF Claims, Room, Smaller
  <2> DEFINE old == Claim(g)
             new == Claim(g)'
  <2>1. /\ old \in [Worker -> Nat]
        /\ SumFunction(old) = SumFunctionOnSet(old, Worker)
        /\ SumFunction(old) \in Nat
    BY ClaimType DEF IInv
  <2>2. /\ new \in [Worker -> Nat]
        /\ SumFunction(new) = SumFunctionOnSet(new, Worker)
        /\ SumFunction(new) \in Nat
    <3>1. \A v \in Worker : txn'[v].remaining[g] \in Int
      BY DEF TypeOK, Transaction
    <3>2. new \in [Worker -> Nat]
      BY <3>1, BytesAssumption DEF Claim, Smaller, Positive
    <3>3. QED
      BY <3>2, SumIsOverDomain, SumType, FinitenessAssumption
  <2>3. new[w] = 0
    BY <1>1, BytesAssumption DEF Claim, Smaller, Positive, Idle
  <2>4. \A v \in Worker \ {w} : new[v] = old[v]
    BY <1>1 DEF Claim
  <2>5. take[g] <= old[w]
    BY <1>1, <1>3 DEF Claim, Smaller
  <2>6. used[g] + SumFunction(old) <= Room(g)
    BY DEF LedgerInv, Claims
  <2> HIDE DEF old, new
  <2>7. SumFunctionOnSet(new, Worker) + old[w] = SumFunctionOnSet(old, Worker) + new[w]
    BY <2>1, <2>2, <2>4, SumOneChanges, FinitenessAssumption
  <2>8. used'[g] + SumFunction(new) <= Room(g)
    <3>1. old[w] \in Nat /\ new[w] \in Nat /\ Room(g) \in Int
      BY <2>1, <2>2, RoomType
    <3>2. used'[g] = used[g] + take[g]
      BY <1>1
    <3>3. QED
      BY <1>3, <2>1, <2>2, <2>3, <2>5, <2>6, <2>7, <3>1, <3>2
  <2>9. QED
    BY <2>8 DEF new
<1>8. ChargedWithinReported'
  <2> SUFFICES ASSUME NEW r \in Session
               PROVE  charged'[r] <= SumFunction(Reported(r)')
    BY DEF ChargedWithinReported
  <2> DEFINE old == Reported(r)
             new == Reported(r)'
  <2>1. /\ old \in [HeartbeatId -> Nat]
        /\ SumFunction(old) = SumFunctionOnSet(old, HeartbeatId)
        /\ SumFunction(old) \in Nat
    BY ReportedType DEF IInv
  <2>2. /\ new \in [HeartbeatId -> Nat]
        /\ SumFunction(new) = SumFunctionOnSet(new, HeartbeatId)
        /\ SumFunction(new) \in Nat
    <3>1. \A j \in HeartbeatId : heartbeats'[j].bytes \in Nat
      BY BytesAssumption DEF TypeOK, HeartbeatRow
    <3>2. new \in [HeartbeatId -> Nat]
      BY <3>1 DEF Reported
    <3>3. QED
      BY <3>2, SumIsOverDomain, SumType, FinitenessAssumption
  <2>3. \A j \in HeartbeatId \ {i} : new[j] = old[j]
    BY <1>1 DEF Reported
  <2>4. /\ old[i] = 0
        /\ new[i] = IF r = s THEN txn[w].bytes ELSE 0
    BY <1>1, <1>2, SentinelAssumption DEF Reported, NoRow
  <2>5. charged[r] <= SumFunction(old) /\ charged[r] \in Nat
    BY DEF LedgerInv, ChargedWithinReported, IInv, TypeOK
  <2> HIDE DEF old, new
  <2>6. SumFunctionOnSet(new, HeartbeatId) + old[i]
          = SumFunctionOnSet(old, HeartbeatId) + new[i]
    BY <1>2, <2>1, <2>2, <2>3, SumOneChanges, FinitenessAssumption
  <2>7. charged'[r] = IF r = s THEN charged[r] + all ELSE charged[r]
    BY <1>1
  <2>8. charged'[r] <= SumFunction(new)
    BY <1>2, <2>1, <2>2, <2>4, <2>5, <2>6, <2>7
  <2>9. QED
    BY <2>8 DEF new
<1>9. QED
  BY <1>4, <1>5, <1>6, <1>7, <1>8 DEF LedgerInv

LEMMA LedgerNext ==
  ASSUME IInv, IInv', LedgerInv, [Next]_vars
  PROVE  LedgerInv'
<1>1. TypeOK'
  BY DEF IInv
<1>2. QED
  BY <1>1, ReadLedger, CommitLedger, OtherStepsQuiet

LEMMA LedgerInvariant == Spec => []LedgerInv
  BY LedgerInit, LedgerNext, Invariant, PTL DEF Spec

\* Whatever stale remainders any number of connections charge from, a grant is
\* overdrawn by at most one heartbeat of every other session of the account.
THEOREM OverdrawIsBounded == Spec => []OverdrawBound
<1>1. IInv /\ LedgerInv => OverdrawBound
  <2> SUFFICES ASSUME IInv, LedgerInv, NEW g \in Grant
               PROVE  used[g] <= Room(g)
    BY DEF OverdrawBound, Room
  <2>1. used[g] + SumFunction(Claim(g)) <= Room(g)
    BY DEF LedgerInv, Claims
  <2>2. SumFunction(Claim(g)) \in Nat /\ used[g] \in Nat /\ Room(g) \in Int
    BY ClaimType, RoomType DEF IInv, TypeOK
  <2>3. QED
    BY <2>1, <2>2
<1>2. QED
  BY <1>1, Invariant, LedgerInvariant, PTL

\* Repeated, late and rolled-back deliveries never make a session pay for more
\* than its recorded heartbeats report, for any number of them.
THEOREM ChargesAreReported == Spec => []ChargedWithinReported
<1>1. LedgerInv => ChargedWithinReported
  BY DEF LedgerInv
<1>2. QED
  BY <1>1, LedgerInvariant, PTL

\* A relay goes on only on bytes that were paid: what a connection read of the
\* grants is at least what they hold, so a heartbeat that was not charged in
\* full has emptied every grant it had read, and the balance it goes on with is
\* of a grant that came in, or was empty, when it read.
THEOREM ForwardsOnlyPaidBytes == Spec => PaidInFull
<1> DEFINE Paid(w) ==
      LET x == txn[w] IN
      /\ x.pc = "write" /\ ~Recorded(x.id)
      /\ heartbeats'[x.id].next # NoTicket
      => \/ charged'[SessionOf(x.tick)] - charged[SessionOf(x.tick)] = x.bytes
         \/ \E g \in Usable(x.gone) : x.remaining[g] <= 0 /\ used'[g] < Size[g]
<1>1. ASSUME IInv, LedgerInv, IInv', [Next]_vars
      PROVE  [\A w \in Worker : Paid(w)]_vars
  <2> SUFFICES ASSUME Next, NEW w \in Worker, txn[w].pc = "write",
                      ~Recorded(txn[w].id), heartbeats'[txn[w].id].next # NoTicket
               PROVE  \/ charged'[SessionOf(txn[w].tick)]
                           - charged[SessionOf(txn[w].tick)] = txn[w].bytes
                      \/ \E g \in Usable(txn[w].gone) :
                           txn[w].remaining[g] <= 0 /\ used'[g] < Size[g]
    BY <1>1
  <2>1. /\ Inside(w) /\ txn[w].id \in HeartbeatId
        /\ heartbeats[txn[w].id] = NoRow
    BY <1>1 DEF Inside, LedgerInv, NotRecordedYet, IInv, TypeOK, TxnOK, Transaction
  <2>2. heartbeats' # heartbeats
    BY <2>1 DEF NoRow
  <2>3. PICK v \in Worker : HeartbeatCommit(v)
    BY <2>2
    DEF Next, SessionNext, Open, Consent, RejectIncoming, StopRevoke, StopClose,
        WorldNext, TicketExpires, GrantInserted, GrantExpires, PumpNext,
        PumpSend, PumpReply, PumpBreak, WorkerNext, AdmitLoad, HeartbeatBegin,
        AdmitCommit, HeartbeatReplay, HeartbeatRefuse, HeartbeatAccept,
        DeductRead, DeductLock, Abort
  <2>4. v = w
    <3>1. PICK next : heartbeats' = [heartbeats EXCEPT ![txn[v].id] =
            [sess |-> SessionOf(txn[v].tick), bytes |-> txn[v].bytes, next |-> next]]
      BY <2>3 DEF HeartbeatCommit, StopForBalance, StopForRealName, RotateTicket
    <3>2. txn[v].id = txn[w].id
      <4> SUFFICES ASSUME txn[v].id # txn[w].id PROVE FALSE
        OBVIOUS
      <4>1. heartbeats'[txn[w].id] = heartbeats[txn[w].id]
        BY <1>1, <2>1, <3>1 DEF IInv, TypeOK
      <4>2. QED
        BY <2>1, <4>1 DEF NoRow
    <3>3. QED
      BY <1>1, <2>1, <2>3, <3>2, InsideAlone DEF LedgerInv, HeartbeatCommit, Inside
  <2> DEFINE s == SessionOf(txn[w].tick)
             left == Balance(used', txn[w].gone)
  <2>5. RotateTicket(w, left)
    <3>1. StopForBalance(w, left) \/ StopForRealName(w, left) \/ RotateTicket(w, left)
      BY <2>3, <2>4 DEF HeartbeatCommit
    <3>2. ASSUME StopForBalance(w, left) \/ StopForRealName(w, left) PROVE FALSE
      <4>1. heartbeats' = [heartbeats EXCEPT ![txn[w].id] =
              [sess |-> s, bytes |-> txn[w].bytes, next |-> NoTicket]]
        BY <3>2 DEF StopForBalance, StopForRealName
      <4>2. QED
        BY <1>1, <2>1, <4>1 DEF IInv, TypeOK
    <3>3. QED
      BY <3>1, <3>2
  <2>6. PICK take \in [Grant -> 0 .. MaxBytes], all \in 0 .. txn[w].bytes :
          /\ \A g \in Grant :
               /\ used'[g] = used[g] + take[g]
               /\ take[g] <= Positive(txn[w].remaining[g])
               /\ take[g] < Positive(txn[w].remaining[g]) => all = txn[w].bytes
          /\ \A r \in Session :
               charged'[r] = IF r = s THEN charged[r] + all ELSE charged[r]
    BY <1>1, <2>3, <2>4, CommitRows
  <2>7. /\ s \in Session /\ charged[s] \in Nat
        /\ all \in Nat /\ txn[w].bytes \in Nat
    BY <1>1, <2>1, WorkerTicket, BytesAssumption
    DEF Inside, IInv, TypeOK, Transaction
  <2>8. CASE all = txn[w].bytes
    BY <2>6, <2>7, <2>8
  <2>9. CASE all # txn[w].bytes
    <3> DEFINE gone == txn[w].gone
               rem == Remaining(used', gone)
               f == [g \in Grant |-> Positive(rem[g])]
    <3>1. \A g \in Grant : used'[g] \in Nat /\ Size[g] \in Nat
      BY <1>1, RoomType DEF IInv, TypeOK
    <3>2. \A g \in Grant : rem[g] = IF g \in Usable(gone) THEN Size[g] - used'[g] ELSE 0
      BY DEF Remaining
    <3>3. f \in [Grant -> Nat]
      BY <3>1, <3>2 DEF Positive
    <3>4. SumFunctionOnSet(f, Grant) > 0
      <4>1. left > 0
        BY <2>5 DEF RotateTicket
      <4>2. left = SumFunction(f)
        BY DEF Balance
      <4>3. QED
        BY <3>3, <4>1, <4>2, SumIsOverDomain
    <3>5. IsFiniteSet(Grant)
      BY GrantAssumption, FS_Interval DEF Grant
    <3>6. PICK g \in Grant : f[g] > 0
      BY <3>3, <3>4, <3>5, SumPositive
    <3>7. g \in Usable(gone) /\ used'[g] < Size[g]
      BY <3>1, <3>2, <3>6 DEF Positive
    <3>8. txn[w].remaining[g] <= 0
      <4> SUFFICES ASSUME txn[w].remaining[g] > 0 PROVE FALSE
        BY <1>1 DEF IInv, TypeOK, Transaction
      <4>1. txn[w].remaining[g] \in Int /\ txn[w].remaining[g] >= Size[g] - used[g]
        BY <1>1 DEF IInv, TypeOK, Transaction, LedgerInv, Remainders
      <4>2. take[g] \in Nat /\ take[g] = txn[w].remaining[g]
        BY <2>6, <2>9, <4>1, BytesAssumption DEF Positive
      <4>3. used'[g] = used[g] + take[g] /\ used[g] \in Nat
        BY <1>1, <2>6 DEF IInv, TypeOK
      <4>4. QED
        BY <3>1, <3>7, <4>1, <4>2, <4>3
    <3>9. QED
      BY <3>7, <3>8
  <2>10. QED
    BY <2>8, <2>9
<1>2. QED
  BY <1>1, Invariant, LedgerInvariant, PTL DEF Spec, PaidInFull

-----------------------------------------------------------------------------
(* That RelayTickets implements MeteredSession.  Opening, consent, the end  *)
(* of a heartbeat, rejection and stop are the steps the account sees; every *)
(* other one leaves what it sees alone.                                     *)

\* What the account sees of the sessions when one row changes its state.
LEMMA OneMoves ==
  ASSUME TypeOK, NEW s \in Session, NEW st \in SessionState,
         state' = [state EXCEPT ![s] = st]
  PROVE  LifeOf' = [LifeOf EXCEPT ![s] = Life[st]]
<1>1. \A r \in Session : state'[r] = IF r = s THEN st ELSE state[r]
  BY DEF TypeOK
<1>2. \A r \in Session : Life[state'[r]] = IF r = s THEN Life[st] ELSE Life[state[r]]
  BY <1>1
<1>3. LifeOf' = [r \in Session |-> Life[state'[r]]]
  BY DEF LifeOf
<1>4. [LifeOf EXCEPT ![s] = Life[st]]
        = [r \in Session |-> IF r = s THEN Life[st] ELSE Life[state[r]]]
  BY DEF LifeOf
<1>5. QED
  BY <1>2, <1>3, <1>4, Zenon

\* The states a session that has not ended can be in, as the account sees them.
LEMMA Lives ==
  ASSUME TypeOK, NEW s \in Session
  PROVE  /\ LifeOf[s] = Life[state[s]]
         /\ state[s] = "absent" => LifeOf[s] = "absent"
         /\ state[s] = "awaiting_host_consent" => LifeOf[s] = "waiting"
         /\ state[s] = "active" => LifeOf[s] = "active"
         /\ state[s] \in Live => LifeOf[s] \in {"waiting", "active", "dry"}
<1>1. LifeOf[s] = Life[state[s]]
  BY DEF LifeOf
<1>2. QED
  BY <1>1 DEF Life, Live

LEMMA InitMetered == Init => Metering!Init
<1> SUFFICES ASSUME Init PROVE Metering!Init
  OBVIOUS
<1>1. LifeOf = [s \in Session |-> "absent"]
  BY DEF Init, LifeOf, Life
<1>2. ReportOf = [i \in HeartbeatId |-> Metering!Unused]
  BY DEF Init, ReportOf, NoRow, Metering!Unused
<1>3. QED
  BY <1>1, <1>2 DEF Init, Metering!Init

LEMMA OpenMetered ==
  ASSUME TypeOK, NEW s \in Session, Open(s)
  PROVE  Metering!Open(s)
<1>1. PICK st \in {"awaiting_host_consent", "active"} :
        state' = [state EXCEPT ![s] = st]
  BY DEF Open
<1>2. LifeOf' = [LifeOf EXCEPT ![s] = Life[st]]
  <2>1. st \in SessionState
    BY DEF SessionState
  <2>2. QED
    BY <1>1, <2>1, OneMoves
<1>3. Life[st] \in {"waiting", "active"}
  BY DEF Life
<1>4. LifeOf[s] = "absent"
  BY Lives DEF Open
<1>5. ReportOf' = ReportOf /\ charged' = charged
  BY DEF Open, ReportOf
<1>6. QED
  BY <1>2, <1>3, <1>4, <1>5 DEF Metering!Open

LEMMA ConsentMetered ==
  ASSUME TypeOK, NEW s \in Session, Consent(s)
  PROVE  Metering!Consent(s)
<1>1. LifeOf' = [LifeOf EXCEPT ![s] = Life["active"]]
  <2>1. "active" \in SessionState /\ state' = [state EXCEPT ![s] = "active"]
    BY DEF Consent, SessionState
  <2>2. QED
    BY <2>1, OneMoves, Zenon
<1>2. Life["active"] = "active"
  BY DEF Life
<1>3. LifeOf[s] = "waiting"
  BY Lives DEF Consent
<1>4. ReportOf' = ReportOf /\ charged' = charged
  BY DEF Consent, ReportOf
<1>5. QED
  BY <1>1, <1>2, <1>3, <1>4 DEF Metering!Consent

\* Sessions that end together: rejected alone, or closed with their host.
LEMMA EndMetered ==
  ASSUME TypeOK, NEW S \in SUBSET Session, S # {},
         \A s \in S : state[s] \in Live,
         \A s \in Session :
           IF s \in S THEN state'[s] \in {"closed", "rejected"}
                      ELSE state'[s] = state[s],
         UNCHANGED <<heartbeats, charged>>
  PROVE  Metering!Next
<1>1. \A s \in S : LifeOf[s] \in {"waiting", "active", "dry"}
  BY Lives
<1>2. \A s \in Session : Life[state'[s]] = IF s \in S THEN "over" ELSE LifeOf[s]
  BY DEF Life, LifeOf
<1>3. LifeOf' = [s \in Session |-> IF s \in S THEN "over" ELSE LifeOf[s]]
  BY <1>2 DEF LifeOf
<1>4. ReportOf' = ReportOf /\ charged' = charged
  BY DEF ReportOf
<1>5. Metering!End(S)
  BY <1>1, <1>3, <1>4 DEF Metering!End
<1>6. QED
  BY <1>5 DEF Metering!Next

LEMMA RejectMetered ==
  ASSUME TypeOK, NEW s \in Session, RejectIncoming(s)
  PROVE  Metering!Next
<1>1. \A r \in Session :
        IF r \in {s} THEN state'[r] \in {"closed", "rejected"}
                     ELSE state'[r] = state[r]
  BY DEF RejectIncoming, TypeOK
<1>2. {s} \in SUBSET Session /\ {s} # {} /\ \A r \in {s} : state[r] \in Live
  BY DEF RejectIncoming, Live
<1>3. UNCHANGED <<heartbeats, charged>>
  BY DEF RejectIncoming, ledgerVars
<1>4. QED
  BY <1>1, <1>2, <1>3, EndMetered

\* A stop ends the host's live sessions; there may be none.
LEMMA StopMetered ==
  ASSUME TypeOK, NEW h \in Host, StopClose(h)
  PROVE  [Metering!Next]_<<LifeOf, ReportOf, charged>>
<1> DEFINE S == {s \in Session : HostOf[s] = h /\ state[s] \in Live}
<1>1. S \in SUBSET Session /\ \A s \in S : state[s] \in Live
  OBVIOUS
<1>2. \A s \in Session : state'[s] = IF s \in S THEN "closed" ELSE state[s]
  BY DEF StopClose
<1>3. UNCHANGED <<heartbeats, charged>>
  BY DEF StopClose, ledgerVars
<1> HIDE DEF S
<1>4. CASE S # {}
  <2>1. \A s \in Session :
          IF s \in S THEN state'[s] \in {"closed", "rejected"}
                     ELSE state'[s] = state[s]
    BY <1>2
  <2>2. QED
    BY <1>1, <1>3, <1>4, <2>1, EndMetered
<1>5. CASE S = {}
  <2>1. \A s \in Session : Life[state'[s]] = Life[state[s]]
    BY <1>2, <1>5
  <2>2. LifeOf' = LifeOf
    BY <2>1 DEF LifeOf
  <2>3. ReportOf' = ReportOf
    BY <1>3 DEF ReportOf
  <2>4. QED
    BY <1>3, <2>2, <2>3
<1>6. QED
  BY <1>4, <1>5

\* The end of a heartbeat: its row is new, it charges at most what it reports,
\* and its session is active, because the row is locked since it was checked.
LEMMA CommitMetered ==
  ASSUME IInv, LedgerInv, NEW w \in Worker, HeartbeatCommit(w)
  PROVE  Metering!Meter(SessionOf(txn[w].tick))
<1> DEFINE s == SessionOf(txn[w].tick)
           i == txn[w].id
           n == txn[w].bytes
<1>1. /\ s \in Session /\ state[s] = "active" /\ s # NoSession
      /\ i \in HeartbeatId /\ n \in 0 .. MaxBytes
  BY Held, SentinelAssumption
  DEF HeartbeatCommit, Inside, SessionOf, IInv, TypeOK, TxnOK, Transaction
<1>2. PICK all \in 0 .. n :
        /\ \A r \in Session : charged'[r] = IF r = s THEN charged[r] + all ELSE charged[r]
        /\ heartbeats[i] = NoRow
        /\ heartbeats'[i].sess = s /\ heartbeats'[i].bytes = n
        /\ \A j \in HeartbeatId \ {i} : heartbeats'[j] = heartbeats[j]
  BY CommitRows
<1>3. PICK new : charged' = [charged EXCEPT ![s] = new]
  BY DEF HeartbeatCommit
<1>4. PICK st \in {"active", "relay_stopped"} : state' = [state EXCEPT ![s] = st]
  <2>1. PICK left : StopForBalance(w, left) \/ StopForRealName(w, left)
                      \/ RotateTicket(w, left)
    BY DEF HeartbeatCommit
  <2>2. CASE StopForBalance(w, left)
    BY <2>2 DEF StopForBalance
  <2>3. CASE StopForRealName(w, left) \/ RotateTicket(w, left)
    <3>1. state' = state
      BY <2>3 DEF StopForRealName, RotateTicket
    <3>2. state = [state EXCEPT ![s] = "active"]
      BY <1>1 DEF IInv, TypeOK
    <3>3. QED
      BY <3>1, <3>2
  <2>4. QED
    BY <2>1, <2>2, <2>3
<1> HIDE DEF s, i, n
<1>5. LifeOf[s] = "active"
  BY <1>1, Lives DEF IInv
<1>6. LifeOf' \in {LifeOf, [LifeOf EXCEPT ![s] = "dry"]}
  <2>1. LifeOf' = [LifeOf EXCEPT ![s] = Life[st]]
    BY <1>1, <1>4, OneMoves DEF IInv, SessionState
  <2>2. [LifeOf EXCEPT ![s] = "active"] = LifeOf
    BY <1>1, <1>5 DEF LifeOf
  <2>3. Life[st] \in {"active", "dry"}
    BY DEF Life
  <2>4. QED
    BY <2>1, <2>2, <2>3
<1>7. ReportOf' = [ReportOf EXCEPT ![i] = [sess |-> s, bytes |-> n]]
  BY <1>1, <1>2 DEF ReportOf
<1>8. ReportOf[i] = Metering!Unused /\ ReportOf'[i] # Metering!Unused
  BY <1>1, <1>2 DEF ReportOf, NoRow, Metering!Unused
<1>9. charged' = [charged EXCEPT ![s] = @ + all]
  BY <1>1, <1>2, <1>3 DEF IInv, TypeOK
<1>10. Metering!Meter(s)
  BY <1>1, <1>2, <1>5, <1>6, <1>7, <1>8, <1>9 DEF Metering!Meter
<1>11. QED
  BY <1>10 DEF s

\* Whatever connections, stops and rejections do, to the account a session is
\* metered as MeteredSession says.
THEOREM SessionsAreMetered == Spec => MeteredAsPromised
<1>1. ASSUME IInv, LedgerInv, [Next]_vars
      PROVE  [Metering!Next]_<<LifeOf, ReportOf, charged>>
  <2>1. TypeOK
    BY <1>1 DEF IInv
  <2>2. ASSUME state' = state, heartbeats' = heartbeats, charged' = charged
        PROVE  UNCHANGED <<LifeOf, ReportOf, charged>>
    BY <2>2 DEF LifeOf, ReportOf
  <2>3. CASE UNCHANGED vars
    BY <2>2, <2>3 DEF vars
  <2>4. CASE SessionNext
    <3>1. ASSUME NEW s \in Session, Open(s) \/ Consent(s) \/ RejectIncoming(s)
          PROVE  Metering!Next
      BY <2>1, <3>1, OpenMetered, ConsentMetered, RejectMetered DEF Metering!Next
    <3>2. ASSUME NEW h \in Host, StopRevoke(h)
          PROVE  UNCHANGED <<LifeOf, ReportOf, charged>>
      BY <2>2, <3>2 DEF StopRevoke, sessionVars, ledgerVars
    <3>3. QED
      BY <2>1, <2>4, <3>1, <3>2, StopMetered DEF SessionNext
  <2>5. CASE WorldNext \/ PumpNext
    BY <2>2, <2>5
    DEF WorldNext, PumpNext, TicketExpires, GrantInserted, GrantExpires,
        PumpSend, PumpReply, PumpBreak, sessionVars, ledgerVars
  <2>6. CASE WorkerNext
    <3>1. ASSUME NEW w \in Worker, HeartbeatCommit(w) PROVE Metering!Next
      <4>1. SessionOf(txn[w].tick) \in Session
        BY <1>1, <3>1, Held DEF HeartbeatCommit, Inside, SessionOf
      <4>2. QED
        BY <1>1, <3>1, <4>1, CommitMetered DEF Metering!Next
    <3>2. QED
      BY <2>2, <2>6, <3>1
      DEF WorkerNext, AdmitLoad, HeartbeatBegin, AdmitCommit, HeartbeatReplay,
          HeartbeatRefuse, HeartbeatAccept, DeductRead, DeductLock, Abort,
          sessionVars, ledgerVars
  <2>7. QED
    BY <1>1, <2>3, <2>4, <2>5, <2>6 DEF Next
<1>2. QED
  BY <1>1, InitMetered, Invariant, LedgerInvariant, PTL
  DEF Spec, MeteredAsPromised, Metering!Spec, Metering!metered

=============================================================================
