---------------------------- MODULE RelayTickets ----------------------------
(***************************************************************************)
(* The control plane's relay tickets and relay metering, as the methods of *)
(* SessionService run them against PostgreSQL, together with the relay's   *)
(* forwarding pumps that carry the tickets.                                *)
(*                                                                         *)
(* A remote session is paid for by the controller's account.  Its ticket   *)
(* is admitted once when the relay has paired the two sides; from then on  *)
(* every heartbeat of the pump charges the bytes it forwarded, revokes the *)
(* ticket and hands out the next one, so a session whose account has run   *)
(* dry or whose host has said stop loses its relay at the next heartbeat.  *)
(*                                                                         *)
(* Transactions run at READ COMMITTED.  A statement sees what is committed *)
(* when it starts; SELECT ... FOR UPDATE waits for the row lock and keeps  *)
(* it to the end of the transaction.  Steps of one transaction that only   *)
(* touch rows its own locks protect are one action; where another          *)
(* transaction can come between two statements there are two.              *)
(***************************************************************************)
EXTENDS Integers, FiniteSets, Functions

CONSTANTS
  Session,       \* remote_sessions rows, all paid by one controller account
  Host,          \* host_devices rows
  HostOf,        \* the host of each session
  Ticket,        \* relay_tickets rows, by the secret that names them
  HeartbeatId,   \* the uuids a pump draws for its heartbeats
  GrantCount,    \* grants of the account, numbered in the order deduct takes
  FreeGrant,     \* the number of this month's free grant
  Size,          \* bytes_total of each grant
  MaxBytes,      \* most bytes one heartbeat reports (HEARTBEAT_MAX_BYTES)
  Bytes,         \* the byte counts heartbeats report
  Worker,        \* database connections serving admit and heartbeat requests
  Pump,          \* relay threads that found both sides of a ticket
  Reserve        \* heartbeats kept for sessions that are no longer live

ASSUME HostOfAssumption == HostOf \in [Session -> Host]
ASSUME GrantAssumption  == /\ GrantCount \in Nat \ {0}
                           /\ FreeGrant \in 1 .. GrantCount
                           /\ Size \in [1 .. GrantCount -> Nat]
ASSUME BytesAssumption  == /\ MaxBytes \in Nat
                           /\ Bytes \subseteq 0 .. MaxBytes
ASSUME ReserveAssumption == Reserve \in Nat
ASSUME FinitenessAssumption == /\ IsFiniteSet(Session)
                               /\ IsFiniteSet(HeartbeatId)
                               /\ IsFiniteSet(Worker)

NoSession == "no session"
NoTicket  == "no ticket"
NoPump    == "no pump"
NoId      == "no heartbeat"
Nobody    == "nobody"

ASSUME SentinelAssumption == /\ NoSession \notin Session
                             /\ NoTicket \notin Ticket
                             /\ NoPump \notin Pump
                             /\ NoId \notin HeartbeatId
                             /\ Nobody \notin Worker

Grant == 1 .. GrantCount

VARIABLES
  state,       \* remote_sessions.state
  bitrate,     \* remote_sessions.bitrate_kbps, as its tier
  ticket,      \* relay_tickets
  grantState,  \* relay_grants: not yet inserted, unexpired, expired
  used,        \* relay_ledger: bytes charged against each grant
  charged,     \* relay_ledger: bytes charged for each session
  heartbeats,  \* relay_heartbeats, by heartbeat_id
  refused,     \* heartbeats answered 409 relay_stopped
  sent,        \* heartbeat requests that were ever on the wire
  lock,        \* which transaction holds the row lock of a session
  grantLock,   \* which transaction holds the locks of the grant rows
  txn,         \* the transaction each connection is running
  pump,        \* the relay's pumps
  stop         \* how far stopControlled got on each host

vars == <<state, bitrate, ticket, grantState, used, charged, heartbeats,
          refused, sent, lock, grantLock, txn, pump, stop>>

sessionVars == <<state, bitrate>>
ledgerVars  == <<grantState, used, charged>>
relayVars   == <<sent, pump>>
lockVars    == <<lock, grantLock>>

-----------------------------------------------------------------------------
(* Rows and records *)

SessionState == {"absent", "awaiting_host_consent", "active", "relay_stopped",
                 "closed", "rejected"}
Live    == {"active", "awaiting_host_consent", "relay_stopped"}
Bitrate == {"free", "floor"}

TicketRow == [sess: Session \cup {NoSession}, admitted: BOOLEAN,
              revoked: BOOLEAN, expired: BOOLEAN]

Unissued == [sess |-> NoSession, admitted |-> FALSE, revoked |-> FALSE,
             expired |-> FALSE]

HeartbeatRow == [sess: Session \cup {NoSession}, bytes: 0 .. MaxBytes,
                 next: Ticket \cup {NoTicket}]

NoRow == [sess |-> NoSession, bytes |-> 0, next |-> NoTicket]

Request == [id: HeartbeatId, tick: Ticket, bytes: 0 .. MaxBytes]

TxnStep == {"idle", "admit", "locking", "deduct", "grants", "write"}

Transaction == [pc: TxnStep, id: HeartbeatId \cup {NoId},
                tick: Ticket \cup {NoTicket}, bytes: 0 .. MaxBytes,
                pump: Pump \cup {NoPump}, remaining: [Grant -> Int],
                gone: SUBSET Grant]

Idle == [pc |-> "idle", id |-> NoId, tick |-> NoTicket, bytes |-> 0,
         pump |-> NoPump, remaining |-> [g \in Grant |-> 0], gone |-> {}]

PumpStep == {"idle", "admitting", "running", "waiting", "done"}

PumpRecord == [pc: PumpStep, tick: Ticket \cup {NoTicket},
               id: HeartbeatId \cup {NoId}]

Unstarted == [pc |-> "idle", tick |-> NoTicket, id |-> NoId]
Ended     == [pc |-> "done", tick |-> NoTicket, id |-> NoId]

Recorded(i) == heartbeats[i].sess # NoSession
SessionOf(t) == ticket[t].sess
Issued(t) == SessionOf(t) # NoSession

-----------------------------------------------------------------------------
(* Balance and deduction *)

\* Grants a transaction selects whose clock says that those in gone are over.
Usable(gone) == {g \in Grant : grantState[g] # "absent"} \ gone

Over == {g \in Grant : grantState[g] = "expired"}

\* What a grant still holds: bytes_total minus its ledger rows.  The rows of
\* two transactions can together take more than the grant held, so this may
\* be negative.
Remaining(u, gone) ==
  [g \in Grant |-> IF g \in Usable(gone) THEN Size[g] - u[g] ELSE 0]

Positive(n) == IF n > 0 THEN n ELSE 0
Smaller(m, n) == IF m < n THEN m ELSE n

\* remainingBytes: the positive remainders of the unexpired grants.
Balance(u, gone) ==
  SumFunction([g \in Grant |-> Positive(Remaining(u, gone)[g])])

\* grantTotal
Total(gone) == SumFunctionOnSet(Size, Usable(gone))

DeductsOneGrant(rem, bytes, take, all) ==
  \E g \in Grant :
    /\ all = take[g] /\ take[g] = Smaller(Positive(rem[g]), bytes)
    /\ \A f \in Grant \ {g} : take[f] = 0 /\ (f < g => rem[f] <= 0)
    /\ rem[g] > 0 \/ \A f \in Grant : rem[f] <= 0

DeductsAll(rem, bytes, take, all) ==
  /\ all = SumFunction(take)
  /\ \A g \in Grant : take[g] # bytes => \A f \in Grant : f > g => take[f] = 0

\* What the loop of deduct takes from each grant, and in all: a grant gives its
\* whole remainder (none, if that is zero or less) before the next one gives
\* anything, until the bytes are charged; what no grant can give is dropped.
Deducts(rem, bytes, take, all) ==
  /\ \A g \in Grant :
       /\ take[g] <= Positive(rem[g])
       /\ take[g] < Positive(rem[g]) =>
            all = bytes /\ \A f \in Grant : f > g => take[f] = 0
  /\ all = SumFunction(take)

-----------------------------------------------------------------------------
Init ==
  /\ state = [s \in Session |-> "absent"]
  /\ bitrate = [s \in Session |-> "free"]
  /\ ticket = [t \in Ticket |-> Unissued]
  /\ grantState = [g \in Grant |-> "absent"]
  /\ used = [g \in Grant |-> 0]
  /\ charged = [s \in Session |-> 0]
  /\ heartbeats = [i \in HeartbeatId |-> NoRow]
  /\ refused = {}
  /\ sent = {}
  /\ lock = [s \in Session |-> Nobody]
  /\ grantLock = Nobody
  /\ txn = [w \in Worker |-> Idle]
  /\ pump = [p \in Pump |-> Unstarted]
  /\ stop = [h \in Host |-> "idle"]

-----------------------------------------------------------------------------
(* Opening a session and the host's answer *)

\* ensureFreeGrant: the month's free grant is inserted unless it exists or the
\* account is frozen because its controller was seen on another new account.
EnsureFreeGrant ==
  \E frozen \in BOOLEAN :
    grantState' = IF grantState[FreeGrant] = "absent" /\ ~frozen
                  THEN [grantState EXCEPT ![FreeGrant] = "open"]
                  ELSE grantState

BalanceNow == SumFunction(
  [g \in Grant |->
     IF grantState'[g] = "open" THEN Positive(Size[g] - used[g]) ELSE 0])

\* createToken, randomUUID: which unused name is drawn makes no difference.
Unused    == {t \in Ticket : ~Issued(t)}
NewTicket == CHOOSE t \in Ticket : ~Issued(t)

FreshTicket(s, admittedNow) ==
  [sess |-> s, admitted |-> admittedNow, revoked |-> FALSE, expired |-> FALSE]

IssueAnotherTicket(s) ==
  IF BalanceNow > 0 /\ Unused # {}
  THEN ticket' = [ticket EXCEPT ![NewTicket] = FreshTicket(s, FALSE)]
  ELSE UNCHANGED ticket

\* issueRelayFields: a ticket of the session that is neither revoked nor
\* admitted is returned again (whether or not it has expired); only when there
\* is none is a new one inserted.  No ticket without balance, nor while the
\* account has to verify a real name (prompt).
IssueRelayFields(s) ==
  \E prompt \in BOOLEAN :
    IF BalanceNow > 0 /\ ~prompt
         /\ ~\E t \in Ticket : /\ SessionOf(t) = s
                               /\ ~ticket[t].revoked
                               /\ ~ticket[t].admitted
    THEN /\ Unused # {}
         /\ ticket' = [ticket EXCEPT ![NewTicket] = FreshTicket(s, FALSE)]
    ELSE UNCHANGED ticket

\* The transaction of requestSession and redeemWebGrant, as the rows of this
\* module see it: the session appears, awaiting the host's consent or, for a
\* controller of the same account that was here before, already active.
Open(s) ==
  /\ state[s] = "absent"
  /\ \E first \in {"awaiting_host_consent", "active"} :
       state' = [state EXCEPT ![s] = first]
  /\ EnsureFreeGrant
  /\ IssueRelayFields(s)
  /\ UNCHANGED <<bitrate, used, charged, heartbeats, refused, stop, txn,
                 relayVars, lockVars>>

\* consent: the session row is locked, its state checked and set, and the
\* relay fields are issued again.
Consent(s) ==
  /\ state[s] = "awaiting_host_consent"
  /\ lock[s] = Nobody
  /\ state' = [state EXCEPT ![s] = "active"]
  /\ EnsureFreeGrant
  /\ IssueRelayFields(s)
  /\ UNCHANGED <<bitrate, used, charged, heartbeats, refused, stop, txn,
                 relayVars, lockVars>>

\* rejectIncoming: one UPDATE; the session's ticket is left as it is.
RejectIncoming(s) ==
  /\ state[s] = "awaiting_host_consent"
  /\ lock[s] = Nobody
  /\ state' = [state EXCEPT ![s] = "rejected"]
  /\ UNCHANGED <<bitrate, ticket, heartbeats, refused, stop, txn, ledgerVars,
                 relayVars, lockVars>>

\* stopControlled, second statement: revoke the tickets of the host's live
\* sessions.  (The first statement only touches host_devices.)
StopRevoke(h) ==
  /\ stop[h] = "idle"
  /\ stop' = [stop EXCEPT ![h] = "close"]
  /\ ticket' = [t \in Ticket |->
       IF /\ Issued(t)
          /\ HostOf[SessionOf(t)] = h
          /\ state[SessionOf(t)] \in Live
       THEN [ticket[t] EXCEPT !.revoked = TRUE]
       ELSE ticket[t]]
  /\ UNCHANGED <<heartbeats, refused, txn, sessionVars, ledgerVars, relayVars,
                 lockVars>>

\* stopControlled, third statement: close the host's live sessions.  The
\* UPDATE waits for the row lock of every session it changes.
StopClose(h) ==
  /\ stop[h] = "close"
  /\ \A s \in Session : HostOf[s] = h /\ state[s] \in Live => lock[s] = Nobody
  /\ stop' = [stop EXCEPT ![h] = "idle"]
  /\ state' = [s \in Session |->
       IF HostOf[s] = h /\ state[s] \in Live THEN "closed" ELSE state[s]]
  /\ UNCHANGED <<bitrate, ticket, heartbeats, refused, txn, ledgerVars,
                 relayVars, lockVars>>

-----------------------------------------------------------------------------
(* Time and payments: what the rest of the world does to these rows *)

\* expires_at passes: ticketTtlSeconds after the ticket was inserted.  (That of
\* a revoked ticket is never looked at.)
TicketExpires(t) ==
  /\ Issued(t) /\ ~ticket[t].expired /\ ~ticket[t].revoked
  /\ ticket' = [ticket EXCEPT ![t].expired = TRUE]
  /\ UNCHANGED <<heartbeats, refused, stop, txn, sessionVars, ledgerVars,
                 relayVars, lockVars>>

\* A compensation is inserted (OpsService.openCompensation).
GrantInserted(g) ==
  /\ g # FreeGrant /\ grantState[g] = "absent"
  /\ grantState' = [grantState EXCEPT ![g] = "open"]
  /\ UNCHANGED <<ticket, used, charged, heartbeats, refused, stop, txn,
                 sessionVars, relayVars, lockVars>>

\* A grant's expires_at passes; grants are numbered in that order.
GrantExpires(g) ==
  /\ grantState[g] = "open"
  /\ \A f \in Grant : f < g => grantState[f] # "open"
  /\ grantState' = [grantState EXCEPT ![g] = "expired"]
  /\ UNCHANGED <<ticket, used, charged, heartbeats, refused, stop, txn,
                 sessionVars, relayVars, lockVars>>

-----------------------------------------------------------------------------
(* The relay.  A pump is the thread that found both sides of a ticket: it   *)
(* has the ticket admitted, forwards, and reports what it forwarded.  It is *)
(* idle before that and done after it; a pair whose ticket is not admitted  *)
(* (ticket_invalid, ticket_replay, relay_stopped) changes nothing.          *)

\* admit, up to its SELECT.  loadTicket takes no lock, so what it read may have
\* changed by the time the UPDATE runs.
AdmitLoad(w, p, t) ==
  /\ txn[w].pc = "idle"
  /\ pump[p].pc = "idle"
  /\ Issued(t)
  /\ ~ticket[t].revoked /\ ~ticket[t].expired /\ ~ticket[t].admitted
  /\ state[SessionOf(t)] = "active"
  /\ txn' = [txn EXCEPT ![w] = [Idle EXCEPT !.pc = "admit", !.tick = t, !.pump = p]]
  /\ pump' = [pump EXCEPT ![p] = [pc |-> "admitting", tick |-> t, id |-> NoId]]
  /\ UNCHANGED <<ticket, heartbeats, refused, sent, stop, sessionVars,
                 ledgerVars, lockVars>>

AdmitCommitStarts(w) ==
  LET p == txn[w].pump IN
  /\ txn[w].pc = "admit"
  /\ ticket' = [ticket EXCEPT ![txn[w].tick].admitted = TRUE]
  /\ txn' = [txn EXCEPT ![w] = Idle]
  /\ pump' = [pump EXCEPT ![p].pc = "running"]
  /\ UNCHANGED <<heartbeats, refused, sent, stop, sessionVars, ledgerVars,
                 lockVars>>

\* admit's UPDATE, which has no condition, and its commit.  A relay that gave
\* up waiting for the answer does not start the pump.
AdmitCommit(w) ==
  LET p == txn[w].pump IN
  /\ txn[w].pc = "admit"
  /\ ticket' = [ticket EXCEPT ![txn[w].tick].admitted = TRUE]
  /\ txn' = [txn EXCEPT ![w] = Idle]
  /\ pump' = IF pump[p].pc = "admitting"
             THEN [pump EXCEPT ![p].pc = "running"] ELSE pump
  /\ UNCHANGED <<heartbeats, refused, sent, stop, sessionVars, ledgerVars,
                 lockVars>>

Unsent == {i \in HeartbeatId : \A r \in sent : r.id # i}
NewId  == CHOOSE i \in HeartbeatId : i \in Unsent

\* Of the finite HeartbeatId and Ticket, Reserve are kept for the heartbeats
\* that end a pump: of a session that is not active, with a revoked ticket, or
\* with a ticket another pump carries as well.  (A bound of the model.)
MaySend(p) ==
  LET t == pump[p].tick IN
  \/ Cardinality(Unsent) > Reserve /\ Cardinality(Unused) >= Reserve
  \/ ticket[t].revoked
  \/ state[SessionOf(t)] # "active"
  \/ \E q \in Pump \ {p} : pump[q].tick = t

\* report: the bytes forwarded since the last heartbeat, under a new uuid.
PumpSend(p, n) ==
  /\ pump[p].pc = "running"
  /\ Unsent # {}
  /\ MaySend(p)
  /\ sent' = sent \cup {[id |-> NewId, tick |-> pump[p].tick, bytes |-> n]}
  /\ pump' = [pump EXCEPT ![p].pc = "waiting", ![p].id = NewId]
  /\ UNCHANGED <<ticket, heartbeats, refused, txn, stop, sessionVars,
                 ledgerVars, lockVars>>

\* The pump reads the answer: it carries on with the next ticket, or ends on
\* stop_relay and on a refusal.
PumpReply(p) ==
  LET i == pump[p].id IN
  /\ pump[p].pc = "waiting"
  /\ \/ /\ Recorded(i)
        /\ IF heartbeats[i].next = NoTicket
           THEN pump' = [pump EXCEPT ![p] = Ended]
           ELSE pump' = [pump EXCEPT ![p] = [pc |-> "running", id |-> NoId,
                                             tick |-> heartbeats[i].next]]
     \/ /\ i \in refused
        /\ pump' = [pump EXCEPT ![p] = Ended]
  /\ UNCHANGED <<ticket, heartbeats, refused, sent, txn, stop, sessionVars,
                 ledgerVars, lockVars>>

\* A side leaves, a socket fails, or the answer does not come within the five
\* seconds of post_json.  A request on its way stays in sent.
PumpBreak(p) ==
  /\ pump[p].pc \notin {"idle", "done"}
  /\ pump' = [pump EXCEPT ![p] = Ended]
  /\ UNCHANGED <<ticket, heartbeats, refused, sent, txn, stop, sessionVars,
                 ledgerVars, lockVars>>

-----------------------------------------------------------------------------
(* heartbeat *)

\* A request arrives, late or again, and its uuid is not recorded yet; the
\* connection goes on to wait for the session's row.
HeartbeatBegin(w, r) ==
  /\ txn[w].pc = "idle"
  /\ r \in sent
  /\ ~Recorded(r.id)
  /\ txn' = [txn EXCEPT ![w] = [Idle EXCEPT !.pc = "locking", !.id = r.id,
                                !.tick = r.tick, !.bytes = r.bytes]]
  /\ UNCHANGED <<ticket, heartbeats, refused, stop, sessionVars, ledgerVars,
                 relayVars, lockVars>>

\* The row lock is free, and the connection has it for the checks that follow.
HasRow(w) ==
  /\ txn[w].pc = "locking"
  /\ lock[SessionOf(txn[w].tick)] = Nobody

MayChargeRevoked(t) ==
  /\ ~ticket[t].expired /\ ticket[t].admitted
  /\ state[SessionOf(t)] = "active"

MayChargeStopped(t) ==
  /\ ~ticket[t].revoked /\ ~ticket[t].expired /\ ticket[t].admitted

MayCharge(t) ==
  /\ ~ticket[t].revoked /\ ~ticket[t].expired /\ ticket[t].admitted
  /\ state[SessionOf(t)] = "active"

\* The same uuid was recorded while this one waited: its response is returned.
HeartbeatReplay(w) ==
  /\ HasRow(w)
  /\ Recorded(txn[w].id)
  /\ txn' = [txn EXCEPT ![w] = Idle]
  /\ UNCHANGED <<ticket, heartbeats, refused, stop, sessionVars, ledgerVars,
                 relayVars, lockVars>>

\* The ticket no longer counts.  The UPDATE that moves the session to
\* relay_stopped is undone: withTransaction rolls back every failure.
HeartbeatRefuse(w) ==
  /\ HasRow(w)
  /\ ~Recorded(txn[w].id)
  /\ ~MayCharge(txn[w].tick)
  /\ refused' = refused \cup {txn[w].id}
  /\ txn' = [txn EXCEPT ![w] = Idle]
  /\ UNCHANGED <<ticket, heartbeats, stop, sessionVars, ledgerVars, relayVars,
                 lockVars>>

HeartbeatAcceptUnlocked(w) ==
  /\ HasRow(w)
  /\ ~Recorded(txn[w].id)
  /\ MayCharge(txn[w].tick)
  /\ txn' = [txn EXCEPT ![w].pc = IF txn[w].bytes > 0 THEN "deduct" ELSE "write",
                        ![w].gone = Over]
  /\ UNCHANGED <<ticket, heartbeats, refused, lock, grantLock, stop,
                 sessionVars, ledgerVars, relayVars>>

HeartbeatAccept(w) ==
  /\ HasRow(w)
  /\ ~Recorded(txn[w].id)
  /\ MayCharge(txn[w].tick)
  /\ lock' = [lock EXCEPT ![SessionOf(txn[w].tick)] = w]
  /\ txn' = [txn EXCEPT ![w].pc = IF txn[w].bytes > 0 THEN "deduct" ELSE "write",
                        ![w].gone = Over]
  /\ UNCHANGED <<ticket, heartbeats, refused, grantLock, stop, sessionVars,
                 ledgerVars, relayVars>>

\* deduct's SELECT starts: its remainders come from the ledger rows committed
\* by now.  If it has to wait for a grant's lock it keeps them, because the
\* grant rows themselves never change.
DeductRead(w) ==
  /\ txn[w].pc = "deduct"
  /\ txn' = [txn EXCEPT
       ![w].remaining = Remaining(used, txn[w].gone),
       ![w].pc = IF Usable(txn[w].gone) = {} THEN "write" ELSE "grants"]
  /\ UNCHANGED <<ticket, heartbeats, refused, stop, sessionVars, ledgerVars,
                 relayVars, lockVars>>

\* FOR UPDATE OF g: every transaction locks the grants in the same order.
DeductLock(w) ==
  /\ txn[w].pc = "grants"
  /\ grantLock = Nobody
  /\ grantLock' = w
  /\ txn' = [txn EXCEPT ![w].pc = "write"]
  /\ UNCHANGED <<ticket, heartbeats, refused, lock, stop, sessionVars,
                 ledgerVars, relayVars>>

Unlocked(l, w) == IF l = w THEN Nobody ELSE l

\* usedRatio >= 0.8 of the decision
Degraded(left, gone) ==
  Total(gone) <= 0 \/ 10 * (Total(gone) - left) >= 8 * Total(gone)

Revoked(t) == [ticket EXCEPT ![t].revoked = TRUE]

\* What the heartbeat answers, given what the account has left: the balance is
\* gone; a real name is asked for; or the relay goes on with the next ticket,
\* which is inserted as already admitted.
StopForBalance(w, left) ==
  LET t == txn[w].tick IN
  /\ left <= 0
  /\ ticket' = Revoked(t)
  /\ state' = [state EXCEPT ![SessionOf(t)] = "relay_stopped"]
  /\ heartbeats' = [heartbeats EXCEPT ![txn[w].id] =
       [sess |-> SessionOf(t), bytes |-> txn[w].bytes, next |-> NoTicket]]
  /\ UNCHANGED bitrate

StopForRealName(w, left) ==
  LET t == txn[w].tick IN
  /\ left > 0
  /\ ticket' = Revoked(t)
  /\ heartbeats' = [heartbeats EXCEPT ![txn[w].id] =
       [sess |-> SessionOf(t), bytes |-> txn[w].bytes, next |-> NoTicket]]
  /\ UNCHANGED <<state, bitrate>>

RotateTicket(w, left) ==
  LET t == txn[w].tick
      s == SessionOf(t)
  IN /\ left > 0
     /\ bitrate' = [bitrate EXCEPT ![s] =
          IF Degraded(left, txn[w].gone) THEN "floor" ELSE @]
     /\ Unused # {}
     /\ ticket' = [Revoked(t) EXCEPT ![NewTicket] = FreshTicket(s, TRUE)]
     /\ heartbeats' = [heartbeats EXCEPT ![txn[w].id] =
          [sess |-> s, bytes |-> txn[w].bytes, next |-> NewTicket]]
     /\ UNCHANGED state

\* The rest of the transaction: the ledger rows, the decision on what is now
\* left, the heartbeat's row, and COMMIT.
HeartbeatCommit(w) ==
  LET s == SessionOf(txn[w].tick) IN
  /\ txn[w].pc = "write"
  /\ \E take \in [Grant -> 0 .. MaxBytes], all \in 0 .. txn[w].bytes :
       /\ Deducts(txn[w].remaining, txn[w].bytes, take, all)
       /\ used' = [g \in Grant |-> used[g] + take[g]]
       /\ charged' = [charged EXCEPT ![s] = @ + all]
  /\ LET left == Balance(used', txn[w].gone) IN
       \/ StopForBalance(w, left)
       \/ StopForRealName(w, left)
       \/ RotateTicket(w, left)
  /\ lock' = [lock EXCEPT ![s] = Unlocked(@, w)]
  /\ grantLock' = Unlocked(grantLock, w)
  /\ txn' = [txn EXCEPT ![w] = Idle]
  /\ UNCHANGED <<grantState, refused, stop, relayVars>>

\* The connection, the database or the control plane fails: ROLLBACK.
Abort(w) ==
  /\ txn[w].pc # "idle"
  /\ txn' = [txn EXCEPT ![w] = Idle]
  /\ lock' = [s \in Session |-> Unlocked(lock[s], w)]
  /\ grantLock' = Unlocked(grantLock, w)
  /\ UNCHANGED <<ticket, heartbeats, refused, stop, sessionVars, ledgerVars,
                 relayVars>>

-----------------------------------------------------------------------------
SessionNext ==
  \/ \E s \in Session : Open(s) \/ Consent(s) \/ RejectIncoming(s)
  \/ \E h \in Host : StopRevoke(h) \/ StopClose(h)

WorldNext ==
  \/ \E t \in Ticket : TicketExpires(t)
  \/ \E g \in Grant : GrantInserted(g) \/ GrantExpires(g)

PumpNext ==
  \E p \in Pump :
    \/ \E n \in Bytes : PumpSend(p, n)
    \/ PumpReply(p) \/ PumpBreak(p)

WorkerNext ==
  \E w \in Worker :
    \/ \E p \in Pump, t \in Ticket : AdmitLoad(w, p, t)
    \/ \E r \in sent : HeartbeatBegin(w, r)
    \/ AdmitCommit(w)
    \/ HeartbeatReplay(w) \/ HeartbeatRefuse(w) \/ HeartbeatAccept(w)
    \/ DeductRead(w) \/ DeductLock(w) \/ HeartbeatCommit(w)
    \/ Abort(w)

Next == SessionNext \/ WorldNext \/ PumpNext \/ WorkerNext

Spec == Init /\ [][Next]_vars

\* pump's loop comes round to the next heartbeat (heartbeat_every), because
\* reads time out after 200 ms; and post_json gives up after five seconds.
RelayFairness ==
  \A p \in Pump :
    /\ WF_vars(\E n \in Bytes : PumpSend(p, n))
    /\ WF_vars(pump[p].pc \in {"admitting", "waiting"} /\ PumpBreak(p))

FairSpec == Spec /\ RelayFairness

-----------------------------------------------------------------------------
(* Properties *)

\* A connection or relay thread that is not working on a ticket names none, and
\* one that is working on a heartbeat names it.
TxnOK ==
  \A w \in Worker :
    /\ txn[w].pc = "idle" <=> txn[w].tick = NoTicket
    /\ txn[w].pc = "admit" <=> txn[w].pump # NoPump
    /\ txn[w].pc \in {"idle", "admit"} <=> txn[w].id = NoId

PumpOK ==
  \A p \in Pump :
    /\ pump[p].pc \in {"idle", "done"} <=> pump[p].tick = NoTicket
    /\ pump[p].pc = "waiting" <=> pump[p].id # NoId

\* Every row and record keeps its columns, and their types, and what the state
\* of a connection or of a relay thread implies for the rest of its record: an
\* admission that is answered after the relay gave up starts no pump.
TypeOK ==
  /\ state \in [Session -> SessionState]
  /\ bitrate \in [Session -> Bitrate]
  /\ ticket \in [Ticket -> TicketRow]
  /\ grantState \in [Grant -> {"absent", "open", "expired"}]
  /\ used \in [Grant -> Nat]
  /\ charged \in [Session -> Nat]
  /\ heartbeats \in [HeartbeatId -> HeartbeatRow]
  /\ refused \subseteq HeartbeatId
  /\ sent \subseteq Request
  /\ lock \in [Session -> Worker \cup {Nobody}]
  /\ grantLock \in Worker \cup {Nobody}
  /\ txn \in [Worker -> Transaction]
  /\ pump \in [Pump -> PumpRecord]
  /\ stop \in [Host -> {"idle", "close"}]
  /\ TxnOK
  /\ PumpOK

LiveTickets(s) == {t \in Ticket : SessionOf(t) = s /\ ~ticket[t].revoked}

\* However heartbeats, consents, stops and their rollbacks interleave, a
\* session never has two tickets that are not revoked: a relay thread that
\* kept an old one cannot charge or forward beside its successor.
OneLiveTicket ==
  \A s \in Session : \A t, u \in LiveTickets(s) : t = u

\* deduct charges from a remainder that may be stale when it gets the grants'
\* locks, so a grant can be overdrawn; by no more than one heartbeat of every
\* other session of the account, which takes at most the whole grant.
OverdrawBound ==
  \A g \in Grant :
    used[g] <= Size[g] + (Cardinality(Session) - 1) * Smaller(Size[g], MaxBytes)

Reported(s) ==
  [i \in HeartbeatId |-> IF heartbeats[i].sess = s THEN heartbeats[i].bytes ELSE 0]

\* A heartbeat delivered twice, late, or after a rollback is charged at most
\* once: a session never pays for more than its recorded heartbeats report.
ChargedWithinReported ==
  \A s \in Session : charged[s] <= SumFunction(Reported(s))

\* To the account a session is metered as MeteredSession promises: whatever
\* heartbeats, stops, rejections and their rollbacks interleave, it is charged
\* only by reports that count once, only such a report leaves it dry, and
\* nothing reopens it: not a consent, not a heartbeat accepted before the stop.
Life == [absent |-> "absent", awaiting_host_consent |-> "waiting",
         active |-> "active", relay_stopped |-> "dry",
         closed |-> "over", rejected |-> "over"]

LifeOf == [s \in Session |-> Life[state[s]]]

ReportOf == [i \in HeartbeatId |-> [sess  |-> heartbeats[i].sess,
                                    bytes |-> heartbeats[i].bytes]]

Metering == INSTANCE MeteredSession
            WITH life <- LifeOf, report <- ReportOf, paid <- charged

MeteredAsPromised == Metering!Spec

\* A session is charged only while it is active: never after the host's stop,
\* a rejection or the end of its balance, even by a heartbeat that started
\* before.
ChargeOnlyWhileActive ==
  [][\A s \in Session : charged'[s] # charged[s] => state[s] = "active"]_vars

\* Nobody forwards on unpaid bytes: a heartbeat that goes on with another ticket
\* has charged all it reported, across as many grants as that took, unless the
\* balance it goes on with came in after deduct had read the grants.
PaidInFull ==
  [][\A w \in Worker :
       LET x == txn[w] IN
       /\ x.pc = "write" /\ ~Recorded(x.id)
       /\ heartbeats'[x.id].next # NoTicket
       => \/ charged'[SessionOf(x.tick)] - charged[SessionOf(x.tick)] = x.bytes
          \/ \E g \in Usable(x.gone) : x.remaining[g] <= 0 /\ used'[g] < Size[g]]_vars

Serves(p, s) == /\ pump[p].pc \in {"running", "waiting"}
                /\ SessionOf(pump[p].tick) = s

\* A relay does not go on for a session that was stopped, closed or has run
\* out of balance: every pump of it ends, even when its ticket was rotated
\* while the host was stopping and is still alive.
StoppedRelayEnds ==
  \A s \in Session, p \in Pump :
    (Serves(p, s) /\ state[s] \in {"closed", "relay_stopped"}) ~> ~Serves(p, s)

\* Two relays that were admitted with the same ticket, because admit does not
\* lock it, do not both last: the first heartbeat starves the other.
SurplusRelayEnds ==
  \A s \in Session, p, q \in Pump :
    (p # q /\ Serves(p, s) /\ Serves(q, s)) ~> ~(Serves(p, s) /\ Serves(q, s))

=============================================================================
