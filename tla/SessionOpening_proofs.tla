----------------------- MODULE SessionOpening_proofs -----------------------
(***************************************************************************)
(* Theorems about SessionOpening for any accounts, hosts, codes, tickets   *)
(* and connections and any limits: its types, that a code opens one        *)
(* session, that a ticket's plaintext is handed out once, that nobody is   *)
(* let in unasked, and that the limits hold.                               *)
(*                                                                         *)
(* Each has an inductive strengthening of its own over TypeOK: what a      *)
(* transaction that is past a check knows as long as it holds its row lock *)
(* (CodesHeld, TicketsHeld, LimitsHeld), or because what it read can only  *)
(* grow (Invitations).                                                     *)
(***************************************************************************)
EXTENDS SessionOpening, FiniteSetTheorems, TLAPS

-----------------------------------------------------------------------------
(* Types *)

LEMMA TypeInit == Init => TypeOK
  BY SentinelAssumption
  DEF Init, TypeOK, SessionRow, NoRow, SessionState, TicketRow, Unissued,
      Transaction, Idle, Step, Holders

\* Ending a transaction leaves the locks of the others, who go on.
LEMMA FinishTypes ==
  ASSUME TypeOK, NEW c \in Connection, Finish(c)
  PROVE  /\ txn' \in [Connection -> Transaction]
         /\ accountLock' \in [Account -> Connection \cup {Nobody}]
         /\ codeLock' \in [Code -> Connection \cup {Nobody}]
         /\ ticketLock' \in [Ticket -> Connection \cup {Nobody}]
         /\ Holders(accountLock, Account)'
         /\ Holders(codeLock, Code)'
         /\ Holders(ticketLock, Ticket)'
<1>1. txn' \in [Connection -> Transaction] /\ \A d \in Connection : d # c => txn'[d] = txn[d]
  BY DEF Finish, TypeOK, Idle, Transaction, Step
<1>2. /\ accountLock' \in [Account -> Connection \cup {Nobody}]
      /\ Holders(accountLock, Account)'
  BY <1>1 DEF Finish, TypeOK, Holders
<1>3. /\ codeLock' \in [Code -> Connection \cup {Nobody}]
      /\ Holders(codeLock, Code)'
  BY <1>1 DEF Finish, TypeOK, Holders
<1>4. /\ ticketLock' \in [Ticket -> Connection \cup {Nobody}]
      /\ Holders(ticketLock, Ticket)'
  BY <1>1 DEF Finish, TypeOK, Holders
<1>5. QED
  BY <1>1, <1>2, <1>3, <1>4

LEMMA NewSessionAbsent ==
  ASSUME NEW r \in Session, session[r].state = "absent"
  PROVE  NewSession \in Session /\ session[NewSession].state = "absent"
  BY DEF NewSession

\* issueRelayFields changes nothing or issues an unused ticket.
LEMMA IssueCases ==
  ASSUME NEW s, NEW b, IssueRelayFields(s, b)
  PROVE  \/ ticket' = ticket
         \/ /\ NewTicket \in Ticket /\ ticket[NewTicket].sess = NoSession
            /\ ticket' = [ticket EXCEPT ![NewTicket] =
                 [sess |-> s, plain |-> TRUE, expired |-> FALSE,
                  revoked |-> FALSE]]
  BY DEF IssueRelayFields, NewTicket

LEMMA IssueType ==
  ASSUME TypeOK, NEW s \in Session, NEW b, IssueRelayFields(s, b)
  PROVE  ticket' \in [Ticket -> TicketRow]
<1>1. CASE ticket' = ticket
  BY <1>1 DEF TypeOK
<1>2. CASE /\ NewTicket \in Ticket
           /\ ticket' = [ticket EXCEPT ![NewTicket] =
                [sess |-> s, plain |-> TRUE, expired |-> FALSE,
                 revoked |-> FALSE]]
  BY <1>2 DEF TypeOK, TicketRow
<1>3. QED
  BY <1>1, <1>2, IssueCases

LEMMA TypeOpening ==
  ASSUME TypeOK, OpeningNext
  PROVE  TypeOK'
<1>1. ASSUME NEW c \in Connection, NEW a \in Account, NEW h \in Host,
             NEW f \in Fingerprint, RequestSession(c, a, h, f)
      PROVE  TypeOK'
  BY <1>1 DEF RequestSession, TypeOK, Transaction, Step, Idle, Holders, rowVars,
              lockVars
<1>2. ASSUME NEW c \in Connection, NEW k \in Code, NEW h \in Host,
             NEW f \in Fingerprint, RedeemWebGrant(c, k, h, f)
      PROVE  TypeOK'
  BY <1>2, OwnerAssumption
  DEF RedeemWebGrant, TypeOK, Transaction, Step, Idle, Holders, rowVars
<1>3. ASSUME NEW c \in Connection, LockAccount(c) PROVE TypeOK'
  BY <1>3 DEF LockAccount, TypeOK, Transaction, Step, Holders, rowVars
<1>4. ASSUME NEW c \in Connection, LoadHost(c) PROVE TypeOK'
  <2>1. CASE Finish(c)
    BY <1>4, <2>1, FinishTypes DEF LoadHost, TypeOK, rowVars
  <2>2. CASE txn' = [txn EXCEPT ![c].pc = "limits"] /\ UNCHANGED lockVars
    BY <1>4, <2>2
    DEF LoadHost, TypeOK, Transaction, Step, Holders, rowVars, lockVars
  <2>3. QED
    BY <1>4, <2>1, <2>2 DEF LoadHost
<1>5. ASSUME NEW c \in Connection, CheckLimits(c) PROVE TypeOK'
  <2>1. CASE Finish(c)
    BY <1>5, <2>1, FinishTypes DEF CheckLimits, TypeOK, rowVars
  <2>2. CASE /\ txn' = [txn EXCEPT ![c].pc = "owner",
                          ![c].known = Known(txn[c].host, txn[c].print)]
             /\ UNCHANGED lockVars
    <3>1. \/ txn' = [txn EXCEPT ![c].pc = "owner", ![c].known = TRUE]
          \/ txn' = [txn EXCEPT ![c].pc = "owner", ![c].known = FALSE]
      <4>1. Known(txn[c].host, txn[c].print) \in BOOLEAN
        BY DEF Known
      <4>2. QED
        BY <2>2, <4>1, Zenon
    <3>2. txn \in [Connection -> Transaction]
      BY DEF TypeOK
    <3>3. PICK b \in BOOLEAN :
            txn' = [txn EXCEPT ![c].pc = "owner", ![c].known = b]
      BY <3>1
    <3>4. txn' \in [Connection -> Transaction]
      BY <3>2, <3>3 DEF Transaction, Step
    <3>5. \A d \in Connection : txn[d].pc # "idle" => txn'[d].pc # "idle"
      BY <3>2, <3>3 DEF Transaction
    <3>6. QED
      BY <1>5, <2>2, <3>4, <3>5 DEF CheckLimits, TypeOK, Holders, rowVars, lockVars
  <2>3. QED
    BY <1>5, <2>1, <2>2 DEF CheckLimits
<1>6. ASSUME NEW c \in Connection, InsertSession(c) PROVE TypeOK'
  <2>1. PICK r \in Session : session[r].state = "absent"
    BY <1>6 DEF InsertSession
  <2>2. NewSession \in Session
    BY <2>1, NewSessionAbsent
  <2>3. ticket' \in [Ticket -> TicketRow]
    BY <1>6, <2>2, IssueType DEF InsertSession
  <2>4. session' \in [Session -> SessionRow]
    BY <1>6, <2>2
    DEF InsertSession, TypeOK, SessionRow, SessionState, Transaction
  <2>5. code' \in [Code -> {"unissued", "open", "used", "expired"}]
    BY <1>6 DEF InsertSession, TypeOK
  <2>6. redeemed' \subseteq Code \X Session
    BY <1>6, <2>2, SentinelAssumption DEF InsertSession, TypeOK, Transaction
  <2>7. QED
    BY <1>6, <2>3, <2>4, <2>5, <2>6, FinishTypes DEF InsertSession, TypeOK
<1>7. ASSUME NEW c \in Connection, BreakDeadlock(c) \/ Abort(c) PROVE TypeOK'
  BY <1>7, FinishTypes DEF BreakDeadlock, Abort, TypeOK, rowVars
<1>8. ASSUME NEW c \in Connection, LockOwner(c) PROVE TypeOK'
  BY <1>8 DEF LockOwner, TypeOK, Transaction, Step, Holders, rowVars, lockVars
<1>9. QED
  BY <1>1, <1>2, <1>3, <1>4, <1>5, <1>6, <1>7, <1>8 DEF OpeningNext

LEMMA TypeHost ==
  ASSUME TypeOK, HostNext
  PROVE  TypeOK'
<1>1. ASSUME NEW s \in Session, NEW b \in BOOLEAN, Consent(s, b) PROVE TypeOK'
  BY <1>1, IssueType
  DEF Consent, TypeOK, SessionRow, SessionState, Holders, lockVars
<1>2. ASSUME NEW s \in Session, RejectIncoming(s) PROVE TypeOK'
  BY <1>2 DEF RejectIncoming, TypeOK, SessionRow, SessionState, Holders, lockVars
<1>3. ASSUME NEW c \in Connection, NEW t \in Ticket, TakeTicket(c, t)
      PROVE  TypeOK'
  BY <1>3 DEF TakeTicket, TypeOK, Transaction, Step, Idle, Holders, rowVars
<1>4. ASSUME NEW c \in Connection, TakeCommit(c) PROVE TypeOK'
  <2>1. ticket' \in [Ticket -> TicketRow]
    BY <1>4 DEF TakeCommit, TypeOK, TicketRow
  <2>2. handed' \in [Ticket -> Nat]
    <3>1. handed' = [t \in Ticket |->
            IF t = txn[c].tick THEN handed[t] + 1 ELSE handed[t]]
      BY <1>4, Zenon DEF TakeCommit, TypeOK
    <3>2. QED
      BY <3>1 DEF TypeOK
  <2>3. QED
    BY <1>4, <2>1, <2>2, FinishTypes DEF TakeCommit, TypeOK
<1>5. ASSUME NEW h \in Host, StopControlled(h) PROVE TypeOK'
  BY <1>5 DEF StopControlled, TypeOK, Holders, lockVars
<1>6. ASSUME NEW h \in Host, StopRevoke(h) PROVE TypeOK'
  BY <1>6 DEF StopRevoke, TypeOK, TicketRow, Holders, lockVars
<1>7. ASSUME NEW h \in Host, StopClose(h) PROVE TypeOK'
  BY <1>7 DEF StopClose, TypeOK, SessionRow, SessionState, Holders, lockVars
<1>8. ASSUME NEW h \in Host, NEW on \in BOOLEAN, SetAcceptingConnections(h, on)
      PROVE  TypeOK'
  BY <1>8 DEF SetAcceptingConnections, TypeOK, Holders, lockVars
<1>9. QED
  BY <1>1, <1>2, <1>3, <1>4, <1>5, <1>6, <1>7, <1>8, OwnerAssumption DEF HostNext

LEMMA TypeWorld ==
  ASSUME TypeOK, WorldNext
  PROVE  TypeOK'
<1>1. ASSUME NEW k \in Code, IssueWebGrant(k) \/ CodeExpires(k) PROVE TypeOK'
  BY <1>1 DEF IssueWebGrant, CodeExpires, TypeOK, Holders, lockVars
<1>2. ASSUME NEW t \in Ticket, TicketExpires(t) PROVE TypeOK'
  BY <1>2 DEF TicketExpires, TypeOK, TicketRow, Holders, lockVars
<1>3. ASSUME NEW s \in Session, RelayStopped(s) PROVE TypeOK'
  BY <1>3 DEF RelayStopped, TypeOK, SessionRow, SessionState, Holders, lockVars
<1>4. QED
  BY <1>1, <1>2, <1>3 DEF WorldNext

LEMMA TypeStep == TypeOK /\ [Next]_vars => TypeOK'
<1>1. ASSUME TypeOK, UNCHANGED vars PROVE TypeOK'
  BY <1>1 DEF vars, TypeOK, Holders
<1>2. QED
  BY <1>1, TypeOpening, TypeHost, TypeWorld DEF Next

\* Rows keep their columns, and only running transactions hold row locks.
THEOREM TypeCorrect == Spec => []TypeOK
<1>1. QED
  BY TypeInit, TypeStep, PTL DEF Spec

-----------------------------------------------------------------------------
(* Codes *)

\* A transaction that redeems a code holds the code's row, and the code is open.
CodesHeld ==
  \A c \in Connection : txn[c].code # NoCode =>
    /\ codeLock[txn[c].code] = c
    /\ code[txn[c].code] = "open"

CodeInv == CodesHeld /\ OneSessionPerCode

LEMMA CodeInit == Init => CodeInv
  BY DEF Init, CodeInv, CodesHeld, OneSessionPerCode, Idle

\* Steps that leave the codes and what they opened alone, and what each
\* transaction that redeems one holds.
LEMMA CodeFrame ==
  ASSUME TypeOK, CodeInv, UNCHANGED <<code, redeemed>>,
         \A d \in Connection : txn'[d].code # NoCode =>
           txn'[d].code = txn[d].code /\ codeLock'[txn[d].code] = d
  PROVE  CodeInv'
  BY DEF CodeInv, CodesHeld, OneSessionPerCode

LEMMA FinishCodes ==
  ASSUME TypeOK, CodesHeld, NEW c \in Connection, Finish(c),
         NEW d \in Connection, txn'[d].code # NoCode
  PROVE  d # c /\ txn'[d] = txn[d] /\ codeLock'[txn[d].code] = d
<1>1. d # c /\ txn'[d] = txn[d]
  BY DEF Finish, TypeOK, Idle
<1>2. txn[d].code \in Code /\ codeLock[txn[d].code] = d
  BY <1>1 DEF CodesHeld, TypeOK, Transaction
<1>3. QED
  BY <1>1, <1>2 DEF Finish

LEMMA CodeOpening ==
  ASSUME TypeOK, CodeInv, OpeningNext
  PROVE  CodeInv'
<1>1. ASSUME NEW c \in Connection, NEW a \in Account, NEW h \in Host,
             NEW f \in Fingerprint, RequestSession(c, a, h, f)
      PROVE  CodeInv'
  <2>1. \A d \in Connection : txn'[d].code # NoCode =>
          txn'[d].code = txn[d].code /\ codeLock'[txn[d].code] = d
    BY <1>1 DEF RequestSession, TypeOK, Idle, lockVars, CodeInv, CodesHeld
  <2>2. QED
    BY <1>1, <2>1, CodeFrame DEF RequestSession, rowVars
<1>2. ASSUME NEW c \in Connection, NEW k \in Code, NEW h \in Host,
             NEW f \in Fingerprint, RedeemWebGrant(c, k, h, f)
      PROVE  CodeInv'
  <2>1. CodesHeld'
    <3>1. ASSUME NEW d \in Connection, txn'[d].code # NoCode
          PROVE  codeLock'[txn'[d].code] = d /\ code'[txn'[d].code] = "open"
      <4>1. CASE d = c
        BY <1>2, <4>1 DEF RedeemWebGrant, TypeOK, Idle, rowVars
      <4>2. CASE d # c
        <5>1. txn'[d] = txn[d]
          BY <1>2, <4>2 DEF RedeemWebGrant, TypeOK
        <5>2. /\ txn[d].code \in Code /\ codeLock[txn[d].code] = d
              /\ code[txn[d].code] = "open"
          BY <3>1, <5>1 DEF CodeInv, CodesHeld, TypeOK, Transaction
        <5>3. QED
          BY <1>2, <5>1, <5>2, SentinelAssumption
          DEF RedeemWebGrant, TypeOK, rowVars
      <4>3. QED
        BY <4>1, <4>2
    <3>2. QED
      BY <3>1 DEF CodesHeld
  <2>2. QED
    BY <1>2, <2>1 DEF RedeemWebGrant, rowVars, CodeInv, OneSessionPerCode
<1>3. ASSUME NEW c \in Connection, LockAccount(c) \/ LockOwner(c) PROVE CodeInv'
  <2>1. \A d \in Connection : txn'[d].code = txn[d].code
    BY <1>3 DEF LockAccount, LockOwner, TypeOK, Transaction
  <2>2. QED
    BY <1>3, <2>1, CodeFrame
    DEF LockAccount, LockOwner, rowVars, lockVars, CodeInv, CodesHeld
<1>4. ASSUME NEW c \in Connection, LoadHost(c) PROVE CodeInv'
  <2>1. CASE Finish(c)
    BY <1>4, <2>1, FinishCodes, CodeFrame DEF LoadHost, rowVars, CodeInv
  <2>2. CASE txn' = [txn EXCEPT ![c].pc = "limits"] /\ UNCHANGED lockVars
    <3>1. \A d \in Connection : txn'[d].code = txn[d].code
      BY <2>2 DEF TypeOK, Transaction
    <3>2. QED
      BY <1>4, <2>2, <3>1, CodeFrame
      DEF LoadHost, rowVars, lockVars, CodeInv, CodesHeld
  <2>3. QED
    BY <1>4, <2>1, <2>2 DEF LoadHost
<1>5. ASSUME NEW c \in Connection, CheckLimits(c) PROVE CodeInv'
  <2>1. CASE Finish(c)
    BY <1>5, <2>1, FinishCodes, CodeFrame DEF CheckLimits, rowVars, CodeInv
  <2>2. CASE /\ txn' = [txn EXCEPT ![c].pc = "owner",
                          ![c].known = Known(txn[c].host, txn[c].print)]
             /\ UNCHANGED lockVars
    <3>1. \A d \in Connection : txn'[d].code = txn[d].code
      BY <2>2 DEF TypeOK, Transaction
    <3>2. QED
      BY <1>5, <2>2, <3>1, CodeFrame
      DEF CheckLimits, rowVars, lockVars, CodeInv, CodesHeld
  <2>3. QED
    BY <1>5, <2>1, <2>2 DEF CheckLimits
<1>6. ASSUME NEW c \in Connection, InsertSession(c) PROVE CodeInv'
  <2>1. CASE txn[c].code = NoCode
    BY <1>6, <2>1, FinishCodes, CodeFrame DEF InsertSession, CodeInv
  <2>2. CASE txn[c].code # NoCode
    <3> DEFINE k == txn[c].code
               s == NewSession
    <3>1. PICK r \in Session : session[r].state = "absent"
      BY <1>6 DEF InsertSession
    <3>2. s \in Session
      BY <3>1, NewSessionAbsent
    <3>3. k \in Code /\ codeLock[k] = c /\ code[k] = "open"
      BY <2>2 DEF CodeInv, CodesHeld, TypeOK, Transaction
    <3>4. /\ code' = [code EXCEPT ![k] = "used"]
          /\ redeemed' = redeemed \cup {<<k, s>>}
          /\ Finish(c)
      BY <1>6, <2>2 DEF InsertSession
    <3> HIDE DEF k, s
    <3>5. \A q \in redeemed : q[1] # k
      <4>1. ASSUME NEW q \in redeemed, q[1] = k PROVE FALSE
        <5>1. q = <<k, q[2]>> /\ q[2] \in Session
          BY <4>1 DEF TypeOK
        <5>2. code[k] = "used"
          BY <3>3, <4>1, <5>1 DEF CodeInv, OneSessionPerCode
        <5>3. QED
          BY <3>3, <5>2
      <4>2. QED
        BY <4>1
    <3>6. CodesHeld'
      <4>1. ASSUME NEW d \in Connection, txn'[d].code # NoCode
            PROVE  codeLock'[txn'[d].code] = d /\ code'[txn'[d].code] = "open"
        <5>1. d # c /\ txn'[d] = txn[d] /\ codeLock'[txn[d].code] = d
          BY <3>4, <4>1, FinishCodes DEF CodeInv
        <5>2. /\ txn[d].code \in Code /\ codeLock[txn[d].code] = d
              /\ code[txn[d].code] = "open"
          BY <4>1, <5>1 DEF CodeInv, CodesHeld, TypeOK, Transaction
        <5>3. QED
          BY <3>3, <3>4, <5>1, <5>2 DEF TypeOK
      <4>2. QED
        BY <4>1 DEF CodesHeld
    <3>7. OneSessionPerCode'
      <4>1. \A q, p \in redeemed' : q[1] = p[1] => q = p
        BY <3>4, <3>5 DEF CodeInv, OneSessionPerCode, TypeOK
      <4>2. ASSUME NEW j \in Code
            PROVE  code'[j] = "used" <=> \E x \in Session : <<j, x>> \in redeemed'
        <5>1. CASE j = k
          BY <3>2, <3>3, <3>4, <5>1 DEF TypeOK
        <5>2. CASE j # k
          BY <3>3, <3>4, <5>2 DEF CodeInv, OneSessionPerCode, TypeOK
        <5>3. QED
          BY <5>1, <5>2
      <4>3. QED
        BY <4>1, <4>2 DEF OneSessionPerCode
    <3>8. QED
      BY <3>6, <3>7 DEF CodeInv
  <2>3. QED
    BY <2>1, <2>2
<1>7. ASSUME NEW c \in Connection, BreakDeadlock(c) \/ Abort(c) PROVE CodeInv'
  BY <1>7, FinishCodes, CodeFrame DEF BreakDeadlock, Abort, rowVars, CodeInv
<1>8. QED
  BY <1>1, <1>2, <1>3, <1>4, <1>5, <1>6, <1>7 DEF OpeningNext

LEMMA CodeHost ==
  ASSUME TypeOK, CodeInv, HostNext
  PROVE  CodeInv'
<1>1. ASSUME UNCHANGED <<code, redeemed, txn, lockVars>> PROVE CodeInv'
  BY <1>1, CodeFrame DEF CodeInv, CodesHeld, lockVars
<1>2. ASSUME NEW s \in Session, NEW b \in BOOLEAN,
             Consent(s, b) \/ RejectIncoming(s)
      PROVE  CodeInv'
  BY <1>1, <1>2 DEF Consent, RejectIncoming
<1>3. ASSUME NEW c \in Connection, NEW t \in Ticket, TakeTicket(c, t)
      PROVE  CodeInv'
  <2>1. \A d \in Connection : txn'[d].code # NoCode =>
          txn'[d].code = txn[d].code /\ codeLock'[txn[d].code] = d
    BY <1>3 DEF TakeTicket, TypeOK, Idle, CodeInv, CodesHeld
  <2>2. QED
    BY <1>3, <2>1, CodeFrame DEF TakeTicket, rowVars
<1>4. ASSUME NEW c \in Connection, TakeCommit(c) PROVE CodeInv'
  BY <1>4, FinishCodes, CodeFrame DEF TakeCommit, CodeInv
<1>5. ASSUME NEW h \in Host, NEW on \in BOOLEAN,
             \/ StopControlled(h) \/ StopRevoke(h) \/ StopClose(h)
             \/ SetAcceptingConnections(h, on)
      PROVE  CodeInv'
  BY <1>1, <1>5
  DEF StopControlled, StopRevoke, StopClose, SetAcceptingConnections
<1>6. QED
  BY <1>2, <1>3, <1>4, <1>5, OwnerAssumption DEF HostNext

LEMMA CodeWorld ==
  ASSUME TypeOK, CodeInv, WorldNext
  PROVE  CodeInv'
<1>1. ASSUME NEW k \in Code, IssueWebGrant(k) \/ CodeExpires(k) PROVE CodeInv'
  <2>1. CodesHeld'
    BY <1>1, SentinelAssumption
    DEF IssueWebGrant, CodeExpires, lockVars, CodeInv, CodesHeld, TypeOK,
        Transaction
  <2>2. OneSessionPerCode'
    BY <1>1 DEF IssueWebGrant, CodeExpires, CodeInv, OneSessionPerCode, TypeOK
  <2>3. QED
    BY <2>1, <2>2 DEF CodeInv
<1>2. ASSUME UNCHANGED <<code, redeemed, txn, lockVars>> PROVE CodeInv'
  BY <1>2, CodeFrame DEF CodeInv, CodesHeld, lockVars
<1>3. ASSUME NEW t \in Ticket, TicketExpires(t) PROVE CodeInv'
  BY <1>2, <1>3 DEF TicketExpires
<1>4. ASSUME NEW s \in Session, RelayStopped(s) PROVE CodeInv'
  BY <1>2, <1>4 DEF RelayStopped
<1>5. QED
  BY <1>1, <1>3, <1>4 DEF WorldNext

\* A code opens one session, however often it is redeemed at once and whatever
\* fails half way: its row is locked from the check to the commit.
THEOREM CodeOpensOneSession == Spec => []OneSessionPerCode
<1>1. TypeOK /\ CodeInv /\ [Next]_vars => CodeInv'
  <2>1. ASSUME TypeOK, CodeInv, UNCHANGED vars PROVE CodeInv'
    BY <2>1, CodeFrame DEF vars, CodeInv, CodesHeld
  <2>2. QED
    BY <2>1, CodeOpening, CodeHost, CodeWorld DEF Next
<1>2. CodeInv => OneSessionPerCode
  BY DEF CodeInv
<1>3. QED
  BY <1>1, <1>2, CodeInit, TypeCorrect, PTL DEF Spec

-----------------------------------------------------------------------------
(* Tickets *)

\* A poll that is about to hand a plaintext out holds the ticket's row.
TicketsHeld ==
  \A c \in Connection : txn[c].pc = "take" =>
    /\ txn[c].tick \in Ticket
    /\ ticketLock[txn[c].tick] = c
    /\ ticket[txn[c].tick].sess # NoSession /\ ticket[txn[c].tick].plain

\* A ticket that was not issued, or whose plaintext is still there, has not
\* been handed out.
Untaken ==
  \A t \in Ticket : ticket[t].sess = NoSession \/ ticket[t].plain => handed[t] = 0

TicketInv == TicketsHeld /\ Untaken /\ HandedOnce

LEMMA TicketInit == Init => TicketInv
  BY DEF Init, TicketInv, TicketsHeld, Untaken, HandedOnce, Idle

\* Steps that hand nothing out, keep the plaintext of every ticket and issue
\* none, and what each poll that has one holds.
LEMMA TicketFrame ==
  ASSUME TypeOK, TicketInv, handed' = handed,
         \A t \in Ticket : /\ ticket'[t].sess = ticket[t].sess
                           /\ ticket'[t].plain = ticket[t].plain,
         \A d \in Connection : txn'[d].pc = "take" =>
           /\ txn[d].pc = "take" /\ txn'[d].tick = txn[d].tick
           /\ ticketLock'[txn[d].tick] = d
  PROVE  TicketInv'
  BY DEF TicketInv, TicketsHeld, Untaken, HandedOnce

LEMMA FinishTickets ==
  ASSUME TypeOK, TicketsHeld, NEW c \in Connection, Finish(c),
         NEW d \in Connection, txn'[d].pc = "take"
  PROVE  /\ d # c /\ txn'[d] = txn[d]
         /\ txn[d].tick \in Ticket /\ ticket[txn[d].tick].plain
         /\ ticket[txn[d].tick].sess # NoSession
         /\ ticketLock[txn[d].tick] = d /\ ticketLock'[txn[d].tick] = d
<1>1. d # c /\ txn'[d] = txn[d]
  BY DEF Finish, TypeOK, Idle
<1>2. /\ txn[d].tick \in Ticket /\ ticketLock[txn[d].tick] = d
      /\ ticket[txn[d].tick].sess # NoSession /\ ticket[txn[d].tick].plain
  BY <1>1 DEF TicketsHeld
<1>3. QED
  BY <1>1, <1>2 DEF Finish

\* Issuing a ticket for a session, by a step that ends transactions or none.
LEMMA IssueTickets ==
  ASSUME TypeOK, TicketInv, NEW s \in Session, NEW b, IssueRelayFields(s, b),
         handed' = handed,
         \A d \in Connection : txn'[d].pc = "take" =>
           /\ txn[d].pc = "take" /\ txn'[d].tick = txn[d].tick
           /\ ticketLock'[txn[d].tick] = d
  PROVE  TicketInv'
<1>1. CASE ticket' = ticket
  BY <1>1, TicketFrame
<1>2. CASE /\ NewTicket \in Ticket /\ ticket[NewTicket].sess = NoSession
           /\ ticket' = [ticket EXCEPT ![NewTicket] =
                [sess |-> s, plain |-> TRUE, expired |-> FALSE,
                 revoked |-> FALSE]]
  <2> DEFINE n == NewTicket
  <2>1. /\ n \in Ticket /\ handed[n] = 0
        /\ ticket'[n].plain /\ ticket'[n].sess # NoSession
    BY <1>2, SentinelAssumption DEF TicketInv, Untaken, TypeOK
  <2>2. \A t \in Ticket : t # n => ticket'[t] = ticket[t]
    BY <1>2 DEF TypeOK
  <2> HIDE DEF n
  <2>3. TicketsHeld'
    BY <2>1, <2>2 DEF TicketInv, TicketsHeld
  <2>4. Untaken' /\ HandedOnce'
    BY <2>1, <2>2 DEF TicketInv, Untaken, HandedOnce
  <2>5. QED
    BY <2>3, <2>4 DEF TicketInv
<1>3. QED
  BY <1>1, <1>2, IssueCases

LEMMA TicketOpening ==
  ASSUME TypeOK, TicketInv, OpeningNext
  PROVE  TicketInv'
<1>1. ASSUME UNCHANGED <<ticket, handed, ticketLock>>,
             \A d \in Connection : txn'[d].pc = "take" => txn'[d] = txn[d]
      PROVE  TicketInv'
  BY <1>1, TicketFrame DEF TicketInv, TicketsHeld
<1>2. ASSUME NEW c \in Connection, NEW k \in Code, NEW h \in Host,
             NEW f \in Fingerprint, RedeemWebGrant(c, k, h, f)
      PROVE  TicketInv'
  <2>1. \A d \in Connection : txn'[d].pc = "take" => txn'[d] = txn[d]
    BY <1>2 DEF RedeemWebGrant, TypeOK, Idle
  <2>2. QED
    BY <1>1, <1>2, <2>1 DEF RedeemWebGrant, rowVars
<1>3. ASSUME NEW c \in Connection, NEW a \in Account, NEW h \in Host,
             NEW f \in Fingerprint, RequestSession(c, a, h, f)
      PROVE  TicketInv'
  <2>1. \A d \in Connection : txn'[d].pc = "take" => txn'[d] = txn[d]
    BY <1>3 DEF RequestSession, TypeOK, Idle
  <2>2. QED
    BY <1>1, <1>3, <2>1 DEF RequestSession, rowVars, lockVars
<1>4. ASSUME NEW c \in Connection, LockAccount(c) \/ LockOwner(c)
      PROVE  TicketInv'
  <2>1. \A d \in Connection : txn'[d].pc = "take" => txn'[d] = txn[d]
    BY <1>4 DEF LockAccount, LockOwner, TypeOK, Transaction
  <2>2. QED
    BY <1>1, <1>4, <2>1 DEF LockAccount, LockOwner, rowVars, lockVars
<1>5. ASSUME NEW c \in Connection, Finish(c), UNCHANGED <<ticket, handed>>
      PROVE  TicketInv'
  BY <1>5, FinishTickets, TicketFrame DEF TicketInv
<1>6. ASSUME NEW c \in Connection, LoadHost(c) PROVE TicketInv'
  <2>1. CASE txn' = [txn EXCEPT ![c].pc = "limits"] /\ UNCHANGED lockVars
    <3>1. \A d \in Connection : txn'[d].pc = "take" => txn'[d] = txn[d]
      BY <2>1 DEF TypeOK, Transaction
    <3>2. QED
      BY <1>1, <1>6, <2>1, <3>1 DEF LoadHost, rowVars, lockVars
  <2>2. QED
    BY <1>5, <1>6, <2>1 DEF LoadHost, rowVars
<1>7. ASSUME NEW c \in Connection, CheckLimits(c) PROVE TicketInv'
  <2>1. CASE /\ txn' = [txn EXCEPT ![c].pc = "owner",
                          ![c].known = Known(txn[c].host, txn[c].print)]
             /\ UNCHANGED lockVars
    <3>1. \A d \in Connection : txn'[d].pc = "take" => txn'[d] = txn[d]
      BY <2>1 DEF TypeOK, Transaction
    <3>2. QED
      BY <1>1, <1>7, <2>1, <3>1 DEF CheckLimits, rowVars, lockVars
  <2>2. QED
    BY <1>5, <1>7, <2>1 DEF CheckLimits, rowVars
<1>8. ASSUME NEW c \in Connection, InsertSession(c) PROVE TicketInv'
  <2>1. PICK r \in Session : session[r].state = "absent"
    BY <1>8 DEF InsertSession
  <2>2. NewSession \in Session
    BY <2>1, NewSessionAbsent
  <2>3. PICK b \in BOOLEAN : IssueRelayFields(NewSession, b)
    BY <1>8 DEF InsertSession
  <2>4. Finish(c) /\ handed' = handed
    BY <1>8 DEF InsertSession
  <2>5. \A d \in Connection : txn'[d].pc = "take" =>
          /\ txn[d].pc = "take" /\ txn'[d].tick = txn[d].tick
          /\ ticketLock'[txn[d].tick] = d
    BY <2>4, FinishTickets DEF TicketInv
  <2>6. QED
    BY <2>2, <2>3, <2>4, <2>5, IssueTickets
<1>9. ASSUME NEW c \in Connection, BreakDeadlock(c) \/ Abort(c)
      PROVE  TicketInv'
  BY <1>5, <1>9 DEF BreakDeadlock, Abort, rowVars
<1>10. QED
  BY <1>2, <1>3, <1>4, <1>6, <1>7, <1>8, <1>9 DEF OpeningNext

LEMMA TicketHost ==
  ASSUME TypeOK, TicketInv, HostNext
  PROVE  TicketInv'
<1>1. ASSUME UNCHANGED <<handed, txn, lockVars>>,
             \A t \in Ticket : /\ ticket'[t].sess = ticket[t].sess
                               /\ ticket'[t].plain = ticket[t].plain
      PROVE  TicketInv'
  BY <1>1, TicketFrame DEF TicketInv, TicketsHeld, lockVars
<1>2. ASSUME NEW s \in Session, NEW b \in BOOLEAN, Consent(s, b)
      PROVE  TicketInv'
  BY <1>2, IssueTickets DEF Consent, TicketInv, TicketsHeld, lockVars
<1>3. ASSUME NEW s \in Session, RejectIncoming(s) PROVE TicketInv'
  BY <1>1, <1>3 DEF RejectIncoming
<1>4. ASSUME NEW c \in Connection, NEW t \in Ticket, TakeTicket(c, t)
      PROVE  TicketInv'
  <2>1. /\ UNCHANGED <<ticket, handed>>
        /\ ticket[t].sess # NoSession /\ ticket[t].plain
        /\ ticketLock[t] = Nobody
    BY <1>4 DEF TakeTicket, Takeable, rowVars
  <2>2. ASSUME NEW d \in Connection, txn'[d].pc = "take"
        PROVE  /\ txn'[d].tick \in Ticket
               /\ ticketLock'[txn'[d].tick] = d
               /\ ticket[txn'[d].tick].sess # NoSession
               /\ ticket[txn'[d].tick].plain
    <3>1. CASE d = c
      BY <1>4, <2>1, <3>1 DEF TakeTicket, TypeOK, Idle
    <3>2. CASE d # c
      <4>1. txn'[d] = txn[d]
        BY <1>4, <3>2 DEF TakeTicket, TypeOK
      <4>2. /\ txn[d].tick \in Ticket /\ ticketLock[txn[d].tick] = d
            /\ ticket[txn[d].tick].sess # NoSession
            /\ ticket[txn[d].tick].plain
        BY <2>2, <4>1 DEF TicketInv, TicketsHeld
      <4>3. QED
        BY <1>4, <2>1, <4>1, <4>2, SentinelAssumption DEF TakeTicket, TypeOK
    <3>3. QED
      BY <3>1, <3>2
  <2>3. QED
    BY <2>1, <2>2 DEF TicketInv, TicketsHeld, Untaken, HandedOnce
<1>5. ASSUME NEW c \in Connection, TakeCommit(c) PROVE TicketInv'
  <2> DEFINE t == txn[c].tick
  <2>1. t \in Ticket /\ ticketLock[t] = c /\ handed[t] = 0
    BY <1>5 DEF TakeCommit, TicketInv, TicketsHeld, Untaken
  <2>2. /\ ticket' = [ticket EXCEPT ![t].plain = FALSE]
        /\ handed' = [handed EXCEPT ![t] = @ + 1]
        /\ Finish(c)
        /\ ticket[t].sess # NoSession
    BY <1>5, <2>1 DEF TakeCommit, TicketInv, TicketsHeld, Untaken
  <2> HIDE DEF t
  <2>3. TicketsHeld'
    <3>1. ASSUME NEW d \in Connection, txn'[d].pc = "take"
          PROVE  /\ txn'[d].tick \in Ticket
                 /\ ticketLock'[txn'[d].tick] = d
                 /\ ticket'[txn'[d].tick].sess # NoSession
                 /\ ticket'[txn'[d].tick].plain
      <4>1. /\ txn'[d] = txn[d] /\ d # c
            /\ txn[d].tick \in Ticket /\ ticket[txn[d].tick].plain
            /\ ticket[txn[d].tick].sess # NoSession
            /\ ticketLock[txn[d].tick] = d /\ ticketLock'[txn[d].tick] = d
        BY <2>2, <3>1, FinishTickets DEF TicketInv
      <4>2. txn[d].tick # t
        BY <2>1, <4>1
      <4>3. QED
        BY <2>2, <4>1, <4>2 DEF TypeOK
    <3>2. QED
      BY <3>1 DEF TicketsHeld
  <2>4. Untaken' /\ HandedOnce'
    BY <2>1, <2>2 DEF TypeOK, TicketRow, TicketInv, Untaken, HandedOnce
  <2>5. QED
    BY <2>3, <2>4 DEF TicketInv
<1>6. ASSUME NEW h \in Host, StopRevoke(h) PROVE TicketInv'
  <2>1. \A u \in Ticket : /\ ticket'[u].sess = ticket[u].sess
                          /\ ticket'[u].plain = ticket[u].plain
    BY <1>6 DEF StopRevoke, TypeOK, TicketRow
  <2>2. QED
    BY <1>1, <1>6, <2>1 DEF StopRevoke
<1>7. ASSUME NEW h \in Host, NEW on \in BOOLEAN,
             \/ StopControlled(h) \/ StopClose(h)
             \/ SetAcceptingConnections(h, on)
      PROVE  TicketInv'
  BY <1>1, <1>7 DEF StopControlled, StopClose, SetAcceptingConnections
<1>8. QED
  BY <1>2, <1>3, <1>4, <1>5, <1>6, <1>7, OwnerAssumption DEF HostNext

LEMMA TicketWorld ==
  ASSUME TypeOK, TicketInv, WorldNext
  PROVE  TicketInv'
<1>1. ASSUME UNCHANGED <<handed, txn, lockVars>>,
             \A t \in Ticket : /\ ticket'[t].sess = ticket[t].sess
                               /\ ticket'[t].plain = ticket[t].plain
      PROVE  TicketInv'
  BY <1>1, TicketFrame DEF TicketInv, TicketsHeld, lockVars
<1>2. ASSUME NEW t \in Ticket, TicketExpires(t) PROVE TicketInv'
  <2>1. \A u \in Ticket : /\ ticket'[u].sess = ticket[u].sess
                          /\ ticket'[u].plain = ticket[u].plain
    BY <1>2 DEF TicketExpires, TypeOK, TicketRow
  <2>2. QED
    BY <1>1, <1>2, <2>1 DEF TicketExpires
<1>3. ASSUME NEW k \in Code, IssueWebGrant(k) \/ CodeExpires(k) PROVE TicketInv'
  BY <1>1, <1>3 DEF IssueWebGrant, CodeExpires
<1>4. ASSUME NEW s \in Session, RelayStopped(s) PROVE TicketInv'
  BY <1>1, <1>4 DEF RelayStopped
<1>5. QED
  BY <1>2, <1>3, <1>4 DEF WorldNext

\* The plaintext of a ticket is handed to the host at most once, however the
\* host's polls overlap: the poll that takes it holds the ticket's row.
THEOREM PlaintextHandedOnce == Spec => []HandedOnce
<1>1. TypeOK /\ TicketInv /\ [Next]_vars => TicketInv'
  <2>1. ASSUME TypeOK, TicketInv, UNCHANGED vars PROVE TicketInv'
    BY <2>1, TicketFrame DEF vars, TicketInv, TicketsHeld
  <2>2. QED
    BY <2>1, TicketOpening, TicketHost, TicketWorld DEF Next
<1>2. TicketInv => HandedOnce
  BY DEF TicketInv
<1>3. QED
  BY <1>1, <1>2, TicketInit, TypeCorrect, PTL DEF Spec

-----------------------------------------------------------------------------
(* What a step does to the sessions' rows and to the transactions *)

\* A row keeps its columns, starts to count or to be accepted only as said.
Answered(s) ==
  /\ session'[s].account = session[s].account
  /\ session'[s].host = session[s].host
  /\ session'[s].print = session[s].print
  /\ session[s].state # "absent" => session'[s].state # "absent"
  /\ session'[s].state \in Counted => session[s].state \in Counted
  /\ session'[s].state \in Accepted => session[s].state \in Accepted \/ s \in agreed'

LEMMA RowUnchanged ==
  ASSUME NEW s \in Session, session'[s] = session[s]
  PROVE  Answered(s)
  BY DEF Answered

OnlyAnswers ==
  /\ \A s \in Session : Answered(s)
  /\ agreed \subseteq agreed'
  /\ \A s \in agreed' : s \in agreed \/ session'[s].state # "absent"

\* But for the INSERT, a step only answers, stops or closes what is there.
LEMMA RowsAnswered ==
  ASSUME TypeOK, [Next]_vars, \A c \in Connection : ~InsertSession(c)
  PROVE  OnlyAnswers
<1>1. ASSUME UNCHANGED <<session, agreed>> PROVE OnlyAnswers
  BY <1>1, RowUnchanged DEF OnlyAnswers
<1>2. CASE OpeningNext
  BY <1>1, <1>2
  DEF OpeningNext, RequestSession, RedeemWebGrant, LockAccount, LoadHost,
      CheckLimits, LockOwner, BreakDeadlock, Abort, rowVars
<1>3. CASE HostNext
  <2>1. ASSUME NEW r \in Session, NEW b \in BOOLEAN, Consent(r, b)
        PROVE  OnlyAnswers
    BY <2>1
    DEF Consent, OnlyAnswers, Answered, TypeOK, SessionRow, Counted,
        Accepted
  <2>2. ASSUME NEW r \in Session, RejectIncoming(r)
        PROVE  OnlyAnswers
    BY <2>2 DEF RejectIncoming, OnlyAnswers, Answered, TypeOK, SessionRow, Counted,
        Accepted
  <2>3. ASSUME NEW h \in Host, StopClose(h)
        PROVE  OnlyAnswers
    <3>1. ASSUME NEW s \in Session
          PROVE  \/ session'[s] = session[s]
                 \/ /\ session[s].state \in Live
                    /\ session'[s] = [session[s] EXCEPT !.state = "closed"]
      BY <2>3 DEF StopClose, TypeOK
    <3>2. QED
      BY <2>3, <3>1, RowUnchanged
      DEF StopClose, OnlyAnswers, Answered, TypeOK, SessionRow, Counted,
        Accepted
  <2>4. ASSUME NEW c \in Connection, NEW t \in Ticket, TakeTicket(c, t)
        PROVE  UNCHANGED <<session, agreed>>
    BY <2>4 DEF TakeTicket, rowVars
  <2>5. ASSUME NEW c \in Connection, TakeCommit(c)
        PROVE  UNCHANGED <<session, agreed>>
    BY <2>5 DEF TakeCommit
  <2>6. ASSUME NEW h \in Host, NEW on \in BOOLEAN,
               StopControlled(h) \/ StopRevoke(h) \/ SetAcceptingConnections(h, on)
        PROVE  UNCHANGED <<session, agreed>>
    BY <2>6 DEF StopControlled, StopRevoke, SetAcceptingConnections
  <2>7. QED
    BY <1>1, <1>3, <2>1, <2>2, <2>3, <2>4, <2>5, <2>6, OwnerAssumption DEF HostNext
<1>4. CASE WorldNext
  <2>1. ASSUME NEW r \in Session, RelayStopped(r)
        PROVE  OnlyAnswers
    BY <2>1 DEF RelayStopped, OnlyAnswers, Answered, TypeOK, SessionRow, Counted,
        Accepted
  <2>2. QED
    BY <1>1, <1>4, <2>1
    DEF WorldNext, IssueWebGrant, CodeExpires, TicketExpires
<1>5. QED
  BY <1>1, <1>2, <1>3, <1>4 DEF Next, vars

\* The steps past the check of the limits: waiting for the owner's row, having it.
Cleared == {"owner", "insert"}

\* A transaction is about to insert since its check of the limits.
LEMMA Inserting ==
  ASSUME TypeOK, [Next]_vars, NEW d \in Connection, txn'[d].pc \in Cleared
  PROVE  \/ txn'[d] = txn[d]
         \/ txn[d].pc \in Cleared /\ txn'[d] = [txn[d] EXCEPT !.pc = "insert"]
         \/ /\ txn[d].pc = "limits" /\ UNCHANGED <<session, agreed>>
            /\ ~OverLimit(txn[d].account, txn[d].host)
            /\ txn'[d].account = txn[d].account /\ txn'[d].host = txn[d].host
            /\ txn'[d].print = txn[d].print
            /\ txn'[d].known = Known(txn[d].host, txn[d].print)
<1> USE DEF Cleared
<1>1. ASSUME NEW c \in Connection, Finish(c) PROVE txn'[d] = txn[d]
  BY <1>1 DEF Finish, TypeOK, Idle
<1>2. CASE OpeningNext
  <2>1. ASSUME NEW c \in Connection, NEW a \in Account, NEW h \in Host,
               NEW f \in Fingerprint, RequestSession(c, a, h, f)
        PROVE  txn'[d] = txn[d]
    BY <2>1 DEF RequestSession, TypeOK, Idle
  <2>2. ASSUME NEW c \in Connection, NEW k \in Code, NEW h \in Host,
               NEW f \in Fingerprint, RedeemWebGrant(c, k, h, f)
        PROVE  txn'[d] = txn[d]
    BY <2>2 DEF RedeemWebGrant, TypeOK, Idle
  <2>3. ASSUME NEW c \in Connection, LockAccount(c) PROVE txn'[d] = txn[d]
    BY <2>3 DEF LockAccount, TypeOK, Transaction
  <2>4. ASSUME NEW c \in Connection, LoadHost(c) PROVE txn'[d] = txn[d]
    BY <1>1, <2>4 DEF LoadHost, TypeOK, Transaction
  <2>5. ASSUME NEW c \in Connection, CheckLimits(c), ~Finish(c), d = c
        PROVE  /\ txn[d].pc = "limits" /\ UNCHANGED <<session, agreed>>
               /\ ~OverLimit(txn[d].account, txn[d].host)
               /\ txn'[d].account = txn[d].account
               /\ txn'[d].host = txn[d].host /\ txn'[d].print = txn[d].print
               /\ txn'[d].known = Known(txn[d].host, txn[d].print)
    BY <2>5 DEF CheckLimits, rowVars, TypeOK, Transaction
  <2>6. ASSUME NEW c \in Connection, CheckLimits(c), ~Finish(c), d # c
        PROVE  txn'[d] = txn[d]
    BY <2>6 DEF CheckLimits, TypeOK
  <2>7. ASSUME NEW c \in Connection,
               InsertSession(c) \/ BreakDeadlock(c) \/ Abort(c)
        PROVE  txn'[d] = txn[d]
    BY <1>1, <2>7 DEF InsertSession, BreakDeadlock, Abort
  <2>8. ASSUME NEW c \in Connection, LockOwner(c)
        PROVE  \/ txn'[d] = txn[d]
               \/ /\ txn[d].pc \in Cleared
                  /\ txn'[d] = [txn[d] EXCEPT !.pc = "insert"]
    BY <2>8 DEF LockOwner, TypeOK
  <2>9. QED
    BY <1>1, <1>2, <2>1, <2>2, <2>3, <2>4, <2>5, <2>6, <2>7, <2>8 DEF OpeningNext
<1>3. CASE HostNext
  <2>1. ASSUME NEW c \in Connection, NEW t \in Ticket, TakeTicket(c, t)
        PROVE  txn'[d] = txn[d]
    BY <2>1 DEF TakeTicket, TypeOK, Idle
  <2>2. ASSUME NEW c \in Connection, TakeCommit(c) PROVE txn'[d] = txn[d]
    BY <1>1, <2>2 DEF TakeCommit
  <2>3. QED
    BY <1>3, <2>1, <2>2
    DEF HostNext, Consent, RejectIncoming, StopControlled, StopRevoke, StopClose,
        SetAcceptingConnections
<1>4. CASE WorldNext
  BY <1>4 DEF WorldNext, IssueWebGrant, CodeExpires, TicketExpires, RelayStopped
<1>5. QED
  BY <1>2, <1>3, <1>4 DEF Next, vars

-----------------------------------------------------------------------------
(* Consent *)

\* Only sessions that exist were agreed to, and a controller that a transaction
\* takes to be known was let in once.
Invitations ==
  /\ \A s \in agreed : session[s].state # "absent"
  /\ \A c \in Connection : txn[c].pc \in Cleared /\ txn[c].known =>
       \E r \in agreed : /\ session[r].host = txn[c].host
                         /\ session[r].print = txn[c].print

InvitedInv == Invitations /\ NobodyUninvited

LEMMA InvitedInit == Init => InvitedInv
  BY DEF Init, InvitedInv, Invitations, NobodyUninvited, Idle, NoRow, Accepted, Cleared

\* Agreement lasts: whoever was agreed to is, on the same host.
LEMMA KnownInvited ==
  ASSUME TypeOK, NobodyUninvited, NEW h, NEW f, Known(h, f)
  PROVE  \E r \in agreed : session[r].host = h /\ session[r].print = f
  BY DEF Known, NobodyUninvited

LEMMA InsertInvited ==
  ASSUME TypeOK, InvitedInv, NEW c \in Connection, InsertSession(c)
  PROVE  /\ \A s \in Session :
              session[s].state # "absent" => session'[s] = session[s]
         /\ agreed' = agreed
         /\ NobodyUninvited'
<1> DEFINE n == NewSession
           x == txn[c]
<1>1. PICK r \in Session : session[r].state = "absent"
  BY DEF InsertSession
<1>2. n \in Session /\ session[n].state = "absent"
  BY <1>1, NewSessionAbsent
<1>3. /\ session' = [session EXCEPT ![n] =
           [account |-> x.account, host |-> x.host, print |-> x.print,
            state |-> IF OwnerOf[x.host] # x.account \/ ~x.known
                      THEN "awaiting_host_consent" ELSE "active"]]
      /\ agreed' = agreed /\ x.pc = "insert"
  BY DEF InsertSession
<1>4. \A s \in Session : s # n => session'[s] = session[s]
  BY <1>3 DEF TypeOK
<1>5. \A s \in agreed : session'[s] = session[s] /\ s \in Session
  BY <1>2, <1>4 DEF TypeOK, InvitedInv, Invitations
<1> HIDE DEF n
<1>6. ASSUME NEW s \in Session, session'[s].state \in Accepted, s \notin agreed'
      PROVE  /\ session'[s].account = OwnerOf[session'[s].host]
             /\ \E q \in agreed' : /\ session'[q].host = session'[s].host
                                   /\ session'[q].print = session'[s].print
  <2>1. CASE s = n
    <3>1. OwnerOf[x.host] = x.account /\ x.known
      BY <1>2, <1>3, <1>6, <2>1 DEF TypeOK, Accepted
    <3>2. /\ session'[n].account = x.account /\ session'[n].host = x.host
          /\ session'[n].print = x.print
      BY <1>2, <1>3 DEF TypeOK
    <3>3. PICK q \in agreed : session[q].host = x.host /\ session[q].print = x.print
      BY <1>3, <3>1 DEF InvitedInv, Invitations, Cleared
    <3>4. QED
      BY <1>3, <1>5, <2>1, <3>1, <3>2, <3>3
  <2>2. CASE s # n
    <3>1. session'[s] = session[s]
      BY <1>4, <2>2
    <3>2. PICK q \in agreed : /\ ~Cross(s) /\ session[q].host = session[s].host
                              /\ session[q].print = session[s].print
      BY <1>3, <1>6, <3>1 DEF InvitedInv, NobodyUninvited
    <3>3. QED
      BY <1>3, <1>5, <3>1, <3>2 DEF Cross
  <2>3. QED
    BY <2>1, <2>2
<1>7. QED
  BY <1>2, <1>3, <1>4, <1>6 DEF NobodyUninvited, Cross

LEMMA InvitedStep == TypeOK /\ InvitedInv /\ [Next]_vars => InvitedInv'
<1> SUFFICES ASSUME TypeOK, InvitedInv, [Next]_vars PROVE InvitedInv'
  OBVIOUS
<1>1. /\ \A s \in agreed : /\ s \in agreed'
                           /\ session'[s].state # "absent"
                           /\ session'[s].host = session[s].host
                           /\ session'[s].print = session[s].print
      /\ \A s \in agreed' : s \in agreed \/ session'[s].state # "absent"
      /\ NobodyUninvited'
  <2>1. CASE \E c \in Connection : InsertSession(c)
    BY <2>1, InsertInvited DEF TypeOK, InvitedInv, Invitations
  <2>2. CASE ~\E c \in Connection : InsertSession(c)
    <3>1. /\ \A s \in Session : Answered(s)
          /\ agreed \subseteq agreed'
          /\ \A s \in agreed' : s \in agreed \/ session'[s].state # "absent"
      BY <2>2, RowsAnswered DEF OnlyAnswers
    <3>2. ASSUME NEW s \in Session, session'[s].state \in Accepted, s \notin agreed'
          PROVE  /\ session'[s].account = OwnerOf[session'[s].host]
                 /\ \E r \in agreed' : /\ session'[r].host = session'[s].host
                                       /\ session'[r].print = session'[s].print
      <4>1. session[s].state \in Accepted /\ s \notin agreed
        BY <3>1, <3>2 DEF Answered
      <4>2. PICK r \in agreed : /\ ~Cross(s) /\ session[r].host = session[s].host
                                /\ session[r].print = session[s].print
        BY <4>1 DEF InvitedInv, NobodyUninvited
      <4>3. r \in agreed' /\ r \in Session
        BY <3>1 DEF TypeOK
      <4>4. QED
        BY <3>1, <4>2, <4>3 DEF Answered, Cross
    <3>3. \A s \in agreed : s \in Session /\ session[s].state # "absent"
      BY DEF TypeOK, InvitedInv, Invitations
    <3>4. QED
      BY <3>1, <3>2, <3>3 DEF Answered, NobodyUninvited, Cross
  <2>3. QED
    BY <2>1, <2>2
<1>2. ASSUME NEW d \in Connection, txn'[d].pc \in Cleared, txn'[d].known
      PROVE  \E r \in agreed' : /\ session'[r].host = txn'[d].host
                                /\ session'[r].print = txn'[d].print
  <2>1. PICK r \in agreed : /\ session[r].host = txn'[d].host
                            /\ session[r].print = txn'[d].print
    <3>1. CASE txn'[d] = txn[d]
      BY <1>2, <3>1 DEF InvitedInv, Invitations
    <3>2. CASE txn[d].pc \in Cleared /\ txn'[d] = [txn[d] EXCEPT !.pc = "insert"]
      <4>1. /\ txn[d].known /\ txn'[d].host = txn[d].host
            /\ txn'[d].print = txn[d].print
        BY <1>2, <3>2 DEF TypeOK, Transaction
      <4>2. QED
        BY <3>2, <4>1 DEF InvitedInv, Invitations
    <3>3. CASE /\ txn'[d].known = Known(txn[d].host, txn[d].print)
               /\ txn'[d].host = txn[d].host /\ txn'[d].print = txn[d].print
      BY <1>2, <3>3, KnownInvited DEF InvitedInv
    <3>4. QED
      BY <1>2, <3>1, <3>2, <3>3, Inserting
  <2>2. QED
    BY <1>1, <2>1
<1>3. Invitations'
  BY <1>1, <1>2 DEF Invitations
<1>4. QED
  BY <1>1, <1>3 DEF InvitedInv

\* Nobody is let into a host unasked: what a transaction read of an earlier
\* session stays true of it until the transaction inserts its own.
THEOREM NobodyEntersUninvited == Spec => []NobodyUninvited
<1>1. InvitedInv => NobodyUninvited
  BY DEF InvitedInv
<1>2. QED
  BY <1>1, InvitedInit, InvitedStep, TypeCorrect, PTL DEF Spec

-----------------------------------------------------------------------------
(* Limits *)

\* A transaction that opens a session has an account and a host, and past the
\* account's lock it holds it.
Holds(c) ==
  txn[c].pc \in {"lock", "host", "limits", "owner", "insert"} =>
    /\ txn[c].account \in Account
    /\ txn[c].host \in Host
    /\ txn[c].pc # "lock" => accountLock[txn[c].account] = c

LimitsHeld == \A c \in Connection : Holds(c)

\* What it found when it checked the limits is still so.
Room ==
  \A c \in Connection, a \in Account, h \in Host :
    txn[c].pc \in Cleared /\ txn[c].account = a /\ txn[c].host = h
      => ~OverLimit(a, h)

LimitsInv == LimitsHeld /\ Room /\ WithinLimits

LEMMA LimitsInit == Init => LimitsInv
<1> SUFFICES ASSUME Init PROVE LimitsInv
  OBVIOUS
<1>1. \A a \in Account, h \in Host : CountedOf(a, h) = {}
  BY DEF Init, CountedOf, Of, NoRow, Counted
<1>2. \A a \in Account : {h \in Host : CountedOf(a, h) # {}} = {}
  BY <1>1
<1>3. WithinLimits
  BY <1>1, <1>2, FS_EmptySet, LimitAssumption DEF WithinLimits
<1>4. LimitsHeld /\ Room
  BY DEF Init, LimitsHeld, Holds, Room, Idle, Cleared
<1>5. QED
  BY <1>3, <1>4 DEF LimitsInv

LEMMA CountedFinite ==
  ASSUME NEW a, NEW h
  PROVE  /\ CountedOf(a, h) \subseteq Session
         /\ IsFiniteSet(CountedOf(a, h))
         /\ Cardinality(CountedOf(a, h)) \in Nat
<1>1. CountedOf(a, h) \subseteq Session
  BY DEF CountedOf, Of
<1>2. QED
  BY <1>1, FS_Subset, FS_CardinalityType, FiniteAssumption

LEMMA HostsFinite ==
  ASSUME NEW H \in SUBSET Host
  PROVE  IsFiniteSet(H) /\ Cardinality(H) \in Nat
  BY FS_Subset, FS_CardinalityType, FiniteAssumption

LEMMA OneMore ==
  ASSUME NEW S, IsFiniteSet(S), NEW x
  PROVE  /\ IsFiniteSet(S \cup {x})
         /\ Cardinality(S) \in Nat /\ Cardinality(S \cup {x}) \in Nat
         /\ Cardinality(S \cup {x}) <= Cardinality(S) + 1
<1>1. /\ IsFiniteSet(S \cup {x})
      /\ Cardinality(S \cup {x}) =
           IF x \in S THEN Cardinality(S) ELSE Cardinality(S) + 1
  BY FS_AddElement
<1>2. Cardinality(S) \in Nat /\ Cardinality(S \cup {x}) \in Nat
  BY <1>1, FS_CardinalityType
<1>3. QED
  BY <1>1, <1>2

\* Fewer sessions keep the limits.
LEMMA FewerSessions ==
  ASSUME NEW a \in Account,
         \A h \in Host : CountedOf(a, h)' \subseteq CountedOf(a, h)
  PROVE  /\ Cardinality({h \in Host : CountedOf(a, h) # {}}) <= ChannelLimit
              => Cardinality({h \in Host : CountedOf(a, h) # {}})' <= ChannelLimit
         /\ \A h \in Host :
              Cardinality(CountedOf(a, h)) <= SessionsPerChannel
                => Cardinality(CountedOf(a, h))' <= SessionsPerChannel
         /\ \A h \in Host : ~OverLimit(a, h) => ~OverLimit(a, h)'
<1>1. \A h \in Host : /\ Cardinality(CountedOf(a, h)') \in Nat
                      /\ Cardinality(CountedOf(a, h)) \in Nat
                      /\ Cardinality(CountedOf(a, h)') <= Cardinality(CountedOf(a, h))
  BY CountedFinite, FS_Subset, FS_CardinalityType
<1>2. ASSUME NEW P \in SUBSET Host
      PROVE  /\ Cardinality({g \in P : CountedOf(a, g)' # {}}) \in Nat
             /\ Cardinality({g \in P : CountedOf(a, g) # {}}) \in Nat
             /\ Cardinality({g \in P : CountedOf(a, g)' # {}})
                  <= Cardinality({g \in P : CountedOf(a, g) # {}})
  <2>1. /\ {g \in P : CountedOf(a, g)' # {}} \subseteq {g \in P : CountedOf(a, g) # {}}
        /\ {g \in P : CountedOf(a, g)' # {}} \in SUBSET Host
        /\ {g \in P : CountedOf(a, g) # {}} \in SUBSET Host
    OBVIOUS
  <2>2. QED
    BY <2>1, HostsFinite, FS_Subset
<1>3. /\ Cardinality({h \in Host : CountedOf(a, h)' # {}}) \in Nat
      /\ Cardinality({h \in Host : CountedOf(a, h) # {}}) \in Nat
      /\ Cardinality({h \in Host : CountedOf(a, h)' # {}})
           <= Cardinality({h \in Host : CountedOf(a, h) # {}})
  BY <1>2
<1>4. ASSUME NEW h \in Host, ~OverLimit(a, h) PROVE ~OverLimit(a, h)'
  <2>1. /\ Cardinality({g \in Host \ {h} : CountedOf(a, g)' # {}}) \in Nat
        /\ Cardinality({g \in Host \ {h} : CountedOf(a, g) # {}}) \in Nat
        /\ Cardinality({g \in Host \ {h} : CountedOf(a, g)' # {}})
             <= Cardinality({g \in Host \ {h} : CountedOf(a, g) # {}})
    BY <1>2
  <2>2. QED
    BY <1>1, <1>4, <2>1, LimitAssumption DEF OverLimit
<1>5. QED
  BY <1>1, <1>3, <1>4, LimitAssumption

\* A session more, where there is room for it.
LEMMA OneMoreSession ==
  ASSUME NEW a \in Account, NEW h \in Host, NEW n \in Session,
         ~OverLimit(a, h),
         CountedOf(a, h)' \subseteq CountedOf(a, h) \cup {n},
         \A g \in Host \ {h} : CountedOf(a, g)' \subseteq CountedOf(a, g),
         \A g \in Host : Cardinality(CountedOf(a, g)) <= SessionsPerChannel
  PROVE  /\ Cardinality({g \in Host : CountedOf(a, g) # {}})' <= ChannelLimit
         /\ \A g \in Host : Cardinality(CountedOf(a, g))' <= SessionsPerChannel
<1>1. Cardinality(CountedOf(a, h)') <= SessionsPerChannel
  <2>1. /\ Cardinality(CountedOf(a, h)') <= Cardinality(CountedOf(a, h) \cup {n})
        /\ Cardinality(CountedOf(a, h) \cup {n}) <= Cardinality(CountedOf(a, h)) + 1
        /\ Cardinality(CountedOf(a, h)) \in Nat
        /\ Cardinality(CountedOf(a, h) \cup {n}) \in Nat
        /\ Cardinality(CountedOf(a, h)') \in Nat
    <3>1. IsFiniteSet(CountedOf(a, h)) /\ IsFiniteSet(CountedOf(a, h) \cup {n})
      BY CountedFinite, OneMore
    <3>2. /\ Cardinality(CountedOf(a, h)') \in Nat
          /\ Cardinality(CountedOf(a, h)') <= Cardinality(CountedOf(a, h) \cup {n})
      BY <3>1, FS_Subset, FS_CardinalityType
    <3>3. QED
      BY <3>1, <3>2, OneMore
  <2>2. Cardinality(CountedOf(a, h)) < SessionsPerChannel
    BY <2>1, LimitAssumption DEF OverLimit
  <2>3. QED
    BY <2>1, <2>2, LimitAssumption
<1>2. ASSUME NEW g \in Host, g # h
      PROVE  Cardinality(CountedOf(a, g)') <= SessionsPerChannel
  <2>1. /\ Cardinality(CountedOf(a, g)') <= Cardinality(CountedOf(a, g))
        /\ Cardinality(CountedOf(a, g)') \in Nat
        /\ Cardinality(CountedOf(a, g)) \in Nat
    BY <1>2, CountedFinite, FS_Subset, FS_CardinalityType
  <2>2. QED
    BY <2>1, LimitAssumption
<1>3. Cardinality({g \in Host : CountedOf(a, g)' # {}}) <= ChannelLimit
  <2> DEFINE O == {g \in Host \ {h} : CountedOf(a, g) # {}}
             N == {g \in Host : CountedOf(a, g)' # {}}
  <2>1. N \subseteq O \cup {h} /\ O \in SUBSET Host /\ N \in SUBSET Host
    OBVIOUS
  <2>2. Cardinality(O) < ChannelLimit /\ Cardinality(O) \in Nat
    <3>1. Cardinality(O) \in Nat
      BY <2>1, HostsFinite
    <3>2. QED
      BY <3>1, LimitAssumption DEF OverLimit
  <2> HIDE DEF O, N
  <2>3. /\ Cardinality(N) <= Cardinality(O \cup {h})
        /\ Cardinality(O \cup {h}) <= Cardinality(O) + 1
        /\ Cardinality(N) \in Nat /\ Cardinality(O \cup {h}) \in Nat
    <3>1. IsFiniteSet(O) /\ IsFiniteSet(N) /\ Cardinality(N) \in Nat
      BY <2>1, HostsFinite
    <3>2. /\ IsFiniteSet(O \cup {h}) /\ Cardinality(O \cup {h}) \in Nat
          /\ Cardinality(O \cup {h}) <= Cardinality(O) + 1
      BY <3>1, OneMore
    <3>3. Cardinality(N) <= Cardinality(O \cup {h})
      BY <2>1, <3>2, FS_Subset
    <3>4. QED
      BY <3>1, <3>2, <3>3
  <2>4. Cardinality(N) <= ChannelLimit
    BY <2>2, <2>3, LimitAssumption
  <2>5. QED
    BY <2>4 DEF N
<1>4. QED
  BY <1>1, <1>2, <1>3

\* Whoever is past the account's lock keeps it, and its transaction its account.
LEMMA LocksKept ==
  ASSUME TypeOK, LimitsHeld, [Next]_vars
  PROVE  LimitsHeld'
<1> SUFFICES ASSUME NEW d \in Connection,
                    txn'[d].pc \in {"lock", "host", "limits", "owner", "insert"}
             PROVE  Holds(d)'
  BY DEF LimitsHeld, Holds
<1>0. Holds(d)
  BY DEF LimitsHeld
<1>1. ASSUME txn'[d] = txn[d], accountLock' = accountLock PROVE Holds(d)'
  BY <1>0, <1>1 DEF Holds
<1>2. ASSUME NEW c \in Connection, Finish(c) PROVE Holds(d)'
  <2>1. d # c /\ txn'[d] = txn[d]
    BY <1>2 DEF Finish, TypeOK, Idle
  <2>2. txn[d].account \in Account
    BY <1>0, <2>1 DEF Holds
  <2>3. accountLock[txn[d].account] = d => accountLock'[txn[d].account] = d
    BY <1>2, <2>1, <2>2 DEF Finish
  <2>4. QED
    BY <1>0, <2>1, <2>3 DEF Holds
<1>3. ASSUME NEW c \in Connection, d # c, txn[c].pc # "idle",
             txn'[d] = txn[d],
             \A a \in Account : accountLock[a] = d => accountLock'[a] = d
      PROVE  Holds(d)'
  BY <1>0, <1>3 DEF Holds
<1>4. CASE OpeningNext
  <2>1. ASSUME NEW c \in Connection, NEW a \in Account, NEW h \in Host,
               NEW f \in Fingerprint, RequestSession(c, a, h, f)
        PROVE  Holds(d)'
    <3>1. CASE d = c
      BY <2>1, <3>1 DEF RequestSession, TypeOK, Idle, Holds
    <3>2. CASE d # c
      BY <1>1, <2>1, <3>2 DEF RequestSession, TypeOK, lockVars
    <3>3. QED
      BY <3>1, <3>2
  <2>2. ASSUME NEW c \in Connection, NEW k \in Code, NEW h \in Host,
               NEW f \in Fingerprint, RedeemWebGrant(c, k, h, f)
        PROVE  Holds(d)'
    <3>1. CASE d = c
      BY <2>2, <3>1, OwnerAssumption DEF RedeemWebGrant, TypeOK, Idle, Holds
    <3>2. CASE d # c
      BY <1>1, <2>2, <3>2 DEF RedeemWebGrant, TypeOK
    <3>3. QED
      BY <3>1, <3>2
  <2>3. ASSUME NEW c \in Connection, LockAccount(c) PROVE Holds(d)'
    <3>1. CASE d = c
      BY <1>0, <2>3, <3>1 DEF LockAccount, TypeOK, Transaction, Holds
    <3>2. CASE d # c
      BY <1>3, <2>3, <3>2, SentinelAssumption DEF LockAccount, TypeOK
    <3>3. QED
      BY <3>1, <3>2
  <2>4. ASSUME NEW c \in Connection, LoadHost(c), ~Finish(c) PROVE Holds(d)'
    BY <1>0, <2>4 DEF LoadHost, TypeOK, Transaction, Holds, lockVars
  <2>5. ASSUME NEW c \in Connection, CheckLimits(c), ~Finish(c)
        PROVE  Holds(d)'
    <3>1. /\ txn[c].pc = "limits" /\ accountLock' = accountLock
          /\ txn' = [txn EXCEPT ![c].pc = "owner",
                       ![c].known = Known(txn[c].host, txn[c].print)]
      BY <2>5 DEF CheckLimits, lockVars
    <3>2. txn'[d].account = txn[d].account /\ txn'[d].host = txn[d].host
      BY <3>1 DEF TypeOK, Transaction
    <3>3. /\ txn[d].pc \in {"lock", "host", "limits", "owner", "insert"}
          /\ txn'[d].pc # "lock" => txn[d].pc # "lock"
      BY <3>1 DEF TypeOK
    <3>4. QED
      BY <1>0, <3>1, <3>2, <3>3 DEF Holds
  <2>6. ASSUME NEW c \in Connection,
               InsertSession(c) \/ BreakDeadlock(c) \/ Abort(c)
        PROVE  Finish(c)
    BY <2>6 DEF InsertSession, BreakDeadlock, Abort
  <2>7. ASSUME NEW c \in Connection, LockOwner(c) PROVE Holds(d)'
    BY <1>0, <2>7 DEF LockOwner, TypeOK, Transaction, Holds, lockVars
  <2>8. QED
    BY <1>2, <1>4, <2>1, <2>2, <2>3, <2>4, <2>5, <2>6, <2>7 DEF OpeningNext
<1>5. CASE HostNext
  <2>1. ASSUME NEW c \in Connection, NEW t \in Ticket, TakeTicket(c, t)
        PROVE  txn'[d] = txn[d] /\ accountLock' = accountLock
    BY <2>1 DEF TakeTicket, TypeOK, Idle
  <2>2. ASSUME NEW c \in Connection, TakeCommit(c) PROVE Finish(c)
    BY <2>2 DEF TakeCommit
  <2>3. QED
    BY <1>1, <1>2, <1>5, <2>1, <2>2
    DEF HostNext, Consent, RejectIncoming, StopControlled, StopRevoke, StopClose,
        SetAcceptingConnections, lockVars
<1>6. CASE WorldNext
  BY <1>1, <1>6
  DEF WorldNext, IssueWebGrant, CodeExpires, TicketExpires, RelayStopped, lockVars
<1>7. QED
  BY <1>1, <1>4, <1>5, <1>6 DEF Next, vars

\* The INSERT adds one session, to the account and the host of the transaction.
LEMMA InsertCounts ==
  ASSUME TypeOK, NEW c \in Connection, InsertSession(c),
         NEW a \in Account, NEW h \in Host
  PROVE  /\ NewSession \in Session
         /\ CountedOf(a, h)' \subseteq CountedOf(a, h) \cup {NewSession}
         /\ a # txn[c].account \/ h # txn[c].host
              => CountedOf(a, h)' \subseteq CountedOf(a, h)
<1> DEFINE n == NewSession
<1>1. PICK r \in Session : session[r].state = "absent"
  BY DEF InsertSession
<1>2. n \in Session
  BY <1>1, NewSessionAbsent
<1>3. session' = [session EXCEPT ![n] =
           [account |-> txn[c].account, host |-> txn[c].host,
            print |-> txn[c].print,
            state |-> IF OwnerOf[txn[c].host] # txn[c].account \/ ~txn[c].known
                      THEN "awaiting_host_consent" ELSE "active"]]
  BY DEF InsertSession
<1> HIDE DEF n
<1>4. /\ \A s \in Session : s # n => session'[s] = session[s]
      /\ session'[n].account = txn[c].account
      /\ session'[n].host = txn[c].host
  BY <1>2, <1>3 DEF TypeOK
<1>5. /\ CountedOf(a, h)' \subseteq CountedOf(a, h) \cup {n}
      /\ a # txn[c].account \/ h # txn[c].host
           => CountedOf(a, h)' \subseteq CountedOf(a, h)
  BY <1>4 DEF CountedOf, Of
<1>6. QED
  BY <1>2, <1>5 DEF n

\* Transactions of one account that are past its lock are one.
LEMMA OneInserting ==
  ASSUME LimitsHeld, NEW c \in Connection, NEW d \in Connection,
         txn[c].pc \in Cleared, txn[d].pc \in Cleared,
         txn[c].account = txn[d].account
  PROVE  c = d
  BY DEF LimitsHeld, Holds, Cleared

LEMMA LimitsStep == TypeOK /\ LimitsInv /\ [Next]_vars => LimitsInv'
<1> SUFFICES ASSUME TypeOK, LimitsInv, [Next]_vars PROVE LimitsInv'
  OBVIOUS
<1>1. LimitsHeld'
  BY LocksKept DEF LimitsInv
<1>2. CASE ~\E c \in Connection : InsertSession(c)
  <2>1. \A a \in Account, h \in Host : CountedOf(a, h)' \subseteq CountedOf(a, h)
    BY <1>2, RowsAnswered DEF OnlyAnswers, Answered, CountedOf, Of
  <2>2. WithinLimits'
    BY <2>1, FewerSessions DEF LimitsInv, WithinLimits
  <2>3. ASSUME NEW d \in Connection, NEW a \in Account, NEW h \in Host,
               txn'[d].pc \in Cleared, txn'[d].account = a, txn'[d].host = h
        PROVE  ~OverLimit(a, h)'
    <3>1. ~OverLimit(a, h)
      <4>1. CASE txn'[d] = txn[d]
        BY <2>3, <4>1 DEF LimitsInv, Room
      <4>2. CASE txn[d].pc \in Cleared /\ txn'[d] = [txn[d] EXCEPT !.pc = "insert"]
        <5>1. txn[d].account = a /\ txn[d].host = h
          BY <2>3, <4>2 DEF TypeOK, Transaction
        <5>2. QED
          BY <4>2, <5>1 DEF LimitsInv, Room
      <4>3. QED
        BY <2>3, <4>1, <4>2, Inserting
    <3>2. QED
      BY <2>1, <3>1, FewerSessions
  <2>4. Room'
    BY <2>3 DEF Room
  <2>5. QED
    BY <1>1, <2>2, <2>4 DEF LimitsInv
<1>3. ASSUME NEW c \in Connection, InsertSession(c) PROVE LimitsInv'
  <2> DEFINE b == txn[c].account
             k == txn[c].host
  <2>1. /\ txn[c].pc = "insert" /\ Finish(c)
        /\ b \in Account /\ k \in Host /\ ~OverLimit(b, k)
    BY <1>3 DEF InsertSession, LimitsInv, LimitsHeld, Holds, Room, Cleared
  <2>2. ASSUME NEW a \in Account, a # b, NEW h \in Host
        PROVE  CountedOf(a, h)' \subseteq CountedOf(a, h)
    BY <1>3, <2>2, InsertCounts
  <2>3. ASSUME NEW a \in Account
        PROVE  /\ Cardinality({g \in Host : CountedOf(a, g) # {}})' <= ChannelLimit
               /\ \A g \in Host : Cardinality(CountedOf(a, g))' <= SessionsPerChannel
    <3>1. CASE a = b
      <4>1. PICK h \in Host : h = k
        BY <2>1
      <4>2. /\ NewSession \in Session
            /\ CountedOf(a, h)' \subseteq CountedOf(a, h) \cup {NewSession}
            /\ \A g \in Host \ {h} : CountedOf(a, g)' \subseteq CountedOf(a, g)
        BY <1>3, <3>1, <4>1, InsertCounts
      <4>3. /\ ~OverLimit(a, h)
            /\ \A g \in Host : Cardinality(CountedOf(a, g)) <= SessionsPerChannel
        BY <2>1, <3>1, <4>1 DEF LimitsInv, WithinLimits
      <4>4. QED
        BY <4>2, <4>3, OneMoreSession
    <3>2. CASE a # b
      BY <2>2, <3>2, FewerSessions DEF LimitsInv, WithinLimits
    <3>3. QED
      BY <3>1, <3>2
  <2>4. WithinLimits'
    BY <2>3 DEF WithinLimits
  <2>5. ASSUME NEW d \in Connection, NEW a \in Account, NEW h \in Host,
               txn'[d].pc \in Cleared, txn'[d].account = a, txn'[d].host = h
        PROVE  ~OverLimit(a, h)'
    <3>1. d # c /\ txn'[d] = txn[d] /\ txn[c].pc \in Cleared
      BY <2>1, <2>5 DEF Finish, TypeOK, Idle, Cleared
    <3>2. a # b /\ ~OverLimit(a, h)
      BY <2>1, <2>5, <3>1, OneInserting DEF LimitsInv, Room
    <3>3. QED
      BY <2>2, <3>2, FewerSessions
  <2>6. Room'
    BY <2>5 DEF Room
  <2>7. QED
    BY <1>1, <2>4, <2>6 DEF LimitsInv
<1>4. QED
  BY <1>2, <1>3

\* An account never exceeds its channels, nor its sessions on one channel, for any
\* limits and however its requests and grants run at once: the row of the account
\* is locked from before the count to the commit.
THEOREM LimitsKept == Spec => []WithinLimits
<1>1. LimitsInv => WithinLimits
  BY DEF LimitsInv
<1>2. QED
  BY <1>1, LimitsInit, LimitsStep, TypeCorrect, PTL DEF Spec

=============================================================================
