--------------------------- MODULE SessionOpening ---------------------------
(***************************************************************************)
(* How a remote session comes to be: SessionService.requestSession and     *)
(* redeemWebGrant run openControllerSession in one transaction each, the   *)
(* host's owner consents or rejects, the host polls for the plaintext of   *)
(* the relay ticket, and stopControlled ends everything on a host.         *)
(*                                                                         *)
(* Transactions run at READ COMMITTED.  openControllerSession locks the    *)
(* account's row (and redeemWebGrant the code's before it) but reads the   *)
(* host's row and the other sessions without locks, one statement after    *)
(* the other.  Its INSERT then shares a lock on the row of the host's      *)
(* owner, which remote_sessions references: two accounts that open         *)
(* sessions on each other's hosts wait in a ring, and PostgreSQL fails one *)
(* of them.  stopControlled is three statements that commit one by one.    *)
(* What happens to a ticket once a relay has it is in RelayTickets.        *)
(***************************************************************************)
EXTENDS Integers, FiniteSets

CONSTANTS
  Account,             \* accounts rows
  Host,                \* host_devices rows, all authorized
  OwnerOf,             \* the account of each host
  Tended,              \* the hosts whose owner stops them and opens them again
  Fingerprint,         \* controller fingerprints
  Session,             \* remote_sessions rows
  Ticket,              \* relay_tickets rows
  Code,                \* web_grant_codes rows, purpose "controller"
  CodeOwner,           \* the account of each code
  Connection,          \* database connections
  ChannelLimit,        \* config.channelLimit
  SessionsPerChannel   \* config.sessionsPerChannel

ASSUME OwnerAssumption == /\ OwnerOf \in [Host -> Account]
                          /\ Tended \subseteq Host
                          /\ CodeOwner \in [Code -> Account]
ASSUME LimitAssumption == /\ ChannelLimit \in Nat \ {0}
                          /\ SessionsPerChannel \in Nat \ {0}

NoAccount == "no account"
NoHost    == "no host"
NoPrint   == "no fingerprint"
NoCode    == "no code"
NoSession == "no session"
NoTicket  == "no ticket"
Nobody    == "nobody"

ASSUME FiniteAssumption == IsFiniteSet(Session) /\ IsFiniteSet(Host)

ASSUME SentinelAssumption == /\ NoAccount \notin Account
                             /\ NoHost \notin Host
                             /\ NoPrint \notin Fingerprint
                             /\ NoCode \notin Code
                             /\ NoSession \notin Session
                             /\ NoTicket \notin Ticket
                             /\ Nobody \notin Connection

VARIABLES
  session,      \* remote_sessions
  agreed,       \* audit_events remote_session.consent, by their session
  ticket,       \* relay_tickets
  handed,       \* how many host-attach answers carried each ticket
  accepting,    \* host_devices.accepting_connections
  code,         \* web_grant_codes: used_at and expires_at
  redeemed,     \* audit_events web_grant.redeem: code and session
  stop,         \* how far the stopControlled of each host has got
  txn,          \* the transaction each connection is running
  accountLock,  \* which connection holds an account's row FOR UPDATE
  codeLock,     \* which connection holds the row lock of a code
  ticketLock    \* which connection holds the row lock of a ticket

rowVars  == <<session, agreed, ticket, handed, accepting, code, redeemed>>
lockVars == <<accountLock, codeLock, ticketLock>>
vars     == <<session, agreed, ticket, handed, accepting, code, redeemed, stop,
              txn, accountLock, codeLock, ticketLock>>

-----------------------------------------------------------------------------
(* Rows *)

SessionState == {"absent", "awaiting_host_consent", "active", "relay_stopped",
                 "closed", "rejected"}

SessionRow == [account: Account \cup {NoAccount}, host: Host \cup {NoHost},
               print: Fingerprint \cup {NoPrint}, state: SessionState]

NoRow == [account |-> NoAccount, host |-> NoHost, print |-> NoPrint,
          state |-> "absent"]

TicketRow == [sess: Session \cup {NoSession}, plain: BOOLEAN,
              expired: BOOLEAN, revoked: BOOLEAN]

Unissued == [sess |-> NoSession, plain |-> FALSE, expired |-> FALSE,
             revoked |-> FALSE]

Step == {"idle", "lock", "host", "limits", "owner", "insert", "take"}

Transaction == [pc: Step, account: Account \cup {NoAccount},
                host: Host \cup {NoHost}, print: Fingerprint \cup {NoPrint},
                code: Code \cup {NoCode}, known: BOOLEAN,
                tick: Ticket \cup {NoTicket}]

Idle == [pc |-> "idle", account |-> NoAccount, host |-> NoHost,
         print |-> NoPrint, code |-> NoCode, known |-> FALSE, tick |-> NoTicket]

\* The states stopControlled revokes and closes, and those that count against
\* the limits and that make a controller known on a host.
Live     == {"active", "awaiting_host_consent", "relay_stopped"}
Counted  == {"active", "awaiting_host_consent"}
Accepted == {"active", "relay_stopped"}

Of(a, h) == {s \in Session : session[s].account = a /\ session[s].host = h}
CountedOf(a, h) == {s \in Of(a, h) : session[s].state \in Counted}
Cross(s) == session[s].account # OwnerOf[session[s].host]

\* The tickets of a session that issueRelayFields would return again.
Open(s) == {t \in Ticket : ticket[t].sess = s /\ ~ticket[t].revoked}

-----------------------------------------------------------------------------
Init ==
  /\ session = [s \in Session |-> NoRow]
  /\ agreed = {}
  /\ ticket = [t \in Ticket |-> Unissued]
  /\ handed = [t \in Ticket |-> 0]
  /\ accepting = [h \in Host |-> TRUE]
  /\ code = [k \in Code |-> "unissued"]
  /\ redeemed = {}
  /\ stop = [h \in Host |-> "idle"]
  /\ txn = [c \in Connection |-> Idle]
  /\ accountLock = [a \in Account |-> Nobody]
  /\ codeLock = [k \in Code |-> Nobody]
  /\ ticketLock = [t \in Ticket |-> Nobody]

FinishKeepingLocks(c) ==
  /\ txn' = [txn EXCEPT ![c] = Idle]
  /\ UNCHANGED lockVars

\* ROLLBACK or COMMIT: the connection lets go of its row locks.
Finish(c) ==
  /\ txn' = [txn EXCEPT ![c] = Idle]
  /\ accountLock' = [a \in Account |->
       IF accountLock[a] = c THEN Nobody ELSE accountLock[a]]
  /\ codeLock' = [k \in Code |-> IF codeLock[k] = c THEN Nobody ELSE codeLock[k]]
  /\ ticketLock' = [t \in Ticket |->
       IF ticketLock[t] = c THEN Nobody ELSE ticketLock[t]]

-----------------------------------------------------------------------------
(* requestSession and redeemWebGrant *)

\* There is a row left for every transaction that may insert one.  (A bound of
\* the model.)
RowsLeft ==
  Cardinality({s \in Session : session[s].state = "absent"})
    > Cardinality({c \in Connection : txn[c].pc \notin {"idle", "take"}})

\* requestSession, past its checks of the login and of the disclosure.
RequestSession(c, a, h, f) ==
  /\ txn[c].pc = "idle"
  /\ RowsLeft
  /\ txn' = [txn EXCEPT ![c] = [Idle EXCEPT !.pc = "lock", !.account = a,
                                            !.host = h, !.print = f]]
  /\ UNCHANGED <<stop, rowVars, lockVars>>

RedeemWebGrantUnlocked(c, k, h, f) ==
  /\ txn[c].pc = "idle"
  /\ RowsLeft
  /\ code[k] = "open"
  /\ txn' = [txn EXCEPT ![c] = [Idle EXCEPT !.pc = "lock", !.host = h,
                 !.account = CodeOwner[k], !.print = f, !.code = k]]
  /\ UNCHANGED <<stop, rowVars, lockVars>>

\* redeemWebGrant: the code's row is locked and must be unused and unexpired.
RedeemWebGrant(c, k, h, f) ==
  /\ txn[c].pc = "idle"
  /\ RowsLeft
  /\ code[k] = "open"
  /\ codeLock[k] = Nobody
  /\ codeLock' = [codeLock EXCEPT ![k] = c]
  /\ txn' = [txn EXCEPT ![c] = [Idle EXCEPT !.pc = "lock", !.host = h,
                 !.account = CodeOwner[k], !.print = f, !.code = k]]
  /\ UNCHANGED <<stop, rowVars, accountLock, ticketLock>>

LockAccountSkipped(c) ==
  /\ txn[c].pc = "lock"
  /\ txn' = [txn EXCEPT ![c].pc = "host"]
  /\ UNCHANGED <<stop, rowVars, lockVars>>

\* The transactions that share the row of an account FOR KEY SHARE: each has
\* inserted a session on one of the account's hosts, and has yet to commit.
KeySharers(a) == {d \in Connection : txn[d].pc = "insert" /\ OwnerOf[txn[d].host] = a}

\* openControllerSession, SELECT ... FROM accounts ... FOR UPDATE
LockAccount(c) ==
  LET a == txn[c].account IN
  /\ txn[c].pc = "lock"
  /\ accountLock[a] = Nobody /\ KeySharers(a) = {}
  /\ accountLock' = [accountLock EXCEPT ![a] = c]
  /\ txn' = [txn EXCEPT ![c].pc = "host"]
  /\ UNCHANGED <<stop, rowVars, codeLock, ticketLock>>

\* loadHost: a host that is not accepting is refused, and the failure rolls
\* back.  The row is not locked.
LoadHost(c) ==
  /\ txn[c].pc = "host"
  /\ IF accepting[txn[c].host]
     THEN txn' = [txn EXCEPT ![c].pc = "limits"] /\ UNCHANGED lockVars
     ELSE Finish(c)
  /\ UNCHANGED <<stop, rowVars>>

\* concurrencyFailure
OverLimit(a, h) ==
  \/ Cardinality({g \in Host \ {h} : CountedOf(a, g) # {}}) >= ChannelLimit
  \/ Cardinality(CountedOf(a, h)) >= SessionsPerChannel

\* A session with this controller was let in on this host and still lasts.
KnownAwaiting(h, f) ==
  \E s \in Session : /\ session[s].host = h /\ session[s].print = f
                     /\ session[s].state \in Live

Known(h, f) ==
  \E s \in Session : /\ session[s].host = h /\ session[s].print = f
                     /\ session[s].state \in Accepted

\* The limits, and the query for a prior session.  (Only openControllerSession
\* of the same account raises the counts, so reading them with the query allows
\* what reading them just before it does.)
CheckLimits(c) ==
  LET a == txn[c].account
      h == txn[c].host
  IN /\ txn[c].pc = "limits"
     /\ IF OverLimit(a, h)
        THEN Finish(c)
        ELSE /\ txn' = [txn EXCEPT ![c].pc = "owner",
                                   ![c].known = Known(h, txn[c].print)]
             /\ UNCHANGED lockVars
     /\ UNCHANGED <<stop, rowVars>>

\* The INSERT into remote_sessions: host_account_id references accounts, and the
\* row of the host's owner is locked FOR KEY SHARE until the commit.
LockOwner(c) ==
  /\ txn[c].pc = "owner"
  /\ accountLock[OwnerOf[txn[c].host]] \in {Nobody, c}
  /\ txn' = [txn EXCEPT ![c].pc = "insert"]
  /\ UNCHANGED <<stop, rowVars, lockVars>>

\* Transactions each of which waits for the owner's row that the next one holds.
Ring(C) ==
  /\ \A c \in C : txn[c].pc = "owner" /\ accountLock[OwnerOf[txn[c].host]] # c
  /\ C = {accountLock[OwnerOf[txn[c].host]] : c \in C}

\* PostgreSQL finds the ring when one of its transactions has waited for
\* deadlock_timeout, and fails that one.
BreakDeadlock(c) ==
  /\ \E C \in SUBSET Connection : c \in C /\ Ring(C)
  /\ Finish(c)
  /\ UNCHANGED <<stop, rowVars>>

NewSession == CHOOSE s \in Session : session[s].state = "absent"
NewTicket  == CHOOSE t \in Ticket : ticket[t].sess = NoSession

\* issueRelayFields.  relayOpen: the account has balance and need not verify a
\* real name.  A ticket that is neither revoked nor admitted is returned again;
\* whether it has expired, or the host has already taken it, is not asked.
IssueRelayFields(s, relayOpen) ==
  IF relayOpen /\ Open(s) = {}
  THEN /\ \E t \in Ticket : ticket[t].sess = NoSession
       /\ ticket' = [ticket EXCEPT ![NewTicket] =
            [sess |-> s, plain |-> TRUE, expired |-> FALSE, revoked |-> FALSE]]
  ELSE UNCHANGED ticket

\* The row that was inserted, the ticket, the code's used_at and COMMIT make one
\* step: none of it is seen before the commit.  (RowsLeft leaves a row for it.)
InsertSession(c) ==
  LET s == NewSession
      x == txn[c]
      needsHostConsent == OwnerOf[x.host] # x.account \/ ~x.known
  IN /\ x.pc = "insert"
     /\ \E r \in Session : session[r].state = "absent"
     /\ session' = [session EXCEPT ![s] =
          [account |-> x.account, host |-> x.host, print |-> x.print,
           state |-> IF needsHostConsent THEN "awaiting_host_consent"
                     ELSE "active"]]
     /\ \E relayOpen \in BOOLEAN : IssueRelayFields(s, relayOpen)
     /\ IF x.code = NoCode
        THEN UNCHANGED <<code, redeemed>>
        ELSE /\ code' = [code EXCEPT ![x.code] = "used"]
             /\ redeemed' = redeemed \cup {<<x.code, s>>}
     /\ Finish(c)
     /\ UNCHANGED <<stop, agreed, handed, accepting>>

\* The connection, the database or the process fails.
Abort(c) ==
  /\ txn[c].pc # "idle"
  /\ Finish(c)
  /\ UNCHANGED <<stop, rowVars>>

-----------------------------------------------------------------------------
(* The host's owner *)

\* consent.  One transaction that holds the session's row; nothing that runs
\* meanwhile can tell it from one step.  (If it and an opening transaction both
\* insert the account's free grant of the month they can wait for each other;
\* PostgreSQL then fails the consent, which has not happened, or the other: Abort.)
Consent(s, relayOpen) ==
  /\ session[s].state = "awaiting_host_consent"
  /\ session' = [session EXCEPT ![s].state = "active"]
  /\ agreed' = agreed \cup {s}
  /\ IssueRelayFields(s, relayOpen)
  /\ UNCHANGED <<handed, accepting, code, redeemed, stop, txn, lockVars>>

RejectIncoming(s) ==
  /\ session[s].state = "awaiting_host_consent"
  /\ session' = [session EXCEPT ![s].state = "rejected"]
  /\ UNCHANGED <<agreed, ticket, handed, accepting, code, redeemed, stop, txn,
                 lockVars>>

\* What the host's poll may be given: the plaintext of a live ticket of an
\* active session.
Takeable(t) ==
  /\ ticket[t].sess # NoSession
  /\ ticket[t].plain /\ ~ticket[t].expired /\ ~ticket[t].revoked
  /\ session[ticket[t].sess].state = "active"

TakeTicketUnlocked(c, t) ==
  /\ txn[c].pc = "idle"
  /\ Takeable(t)
  /\ txn' = [txn EXCEPT ![c] = [Idle EXCEPT !.pc = "take", !.tick = t]]
  /\ UNCHANGED <<stop, rowVars, lockVars>>

\* takeHostRelayTicket, SELECT ... FOR UPDATE OF t.  A poll that waited for the
\* lock checks the row again and finds it taken.  (The order in which several
\* sessions' tickets are handed out is left open.)
TakeTicket(c, t) ==
  /\ txn[c].pc = "idle"
  /\ Takeable(t)
  /\ ticketLock[t] = Nobody
  /\ ticketLock' = [ticketLock EXCEPT ![t] = c]
  /\ txn' = [txn EXCEPT ![c] = [Idle EXCEPT !.pc = "take", !.tick = t]]
  /\ UNCHANGED <<stop, rowVars, accountLock, codeLock>>

\* secret_once is cleared, the transaction commits, and the answer carries the
\* plaintext to the host.
TakeCommit(c) ==
  LET t == txn[c].tick IN
  /\ txn[c].pc = "take"
  /\ ticket' = [ticket EXCEPT ![t].plain = FALSE]
  /\ handed' = [handed EXCEPT ![t] = @ + 1]
  /\ Finish(c)
  /\ UNCHANGED <<session, agreed, accepting, code, redeemed, stop>>

-----------------------------------------------------------------------------
(* stopControlled: three statements, each committed on its own.  (One call per *)
(* host at a time, and only for the hosts in Tended: bounds of the model.)     *)

StopControlled(h) ==
  /\ stop[h] = "idle"
  /\ accepting' = [accepting EXCEPT ![h] = FALSE]
  /\ stop' = [stop EXCEPT ![h] = "revoke"]
  /\ UNCHANGED <<session, agreed, ticket, handed, code, redeemed, txn, lockVars>>

\* The UPDATE waits for the locks of the rows it changes.
StopRevoke(h) ==
  LET hit == {t \in Ticket : /\ ticket[t].sess # NoSession /\ ~ticket[t].revoked
                             /\ session[ticket[t].sess].host = h
                             /\ session[ticket[t].sess].state \in Live}
  IN /\ stop[h] = "revoke"
     /\ \A t \in hit : ticketLock[t] = Nobody
     /\ stop' = [stop EXCEPT ![h] = "close"]
     /\ ticket' = [t \in Ticket |->
          IF t \in hit THEN [ticket[t] EXCEPT !.revoked = TRUE] ELSE ticket[t]]
     /\ UNCHANGED <<session, agreed, handed, accepting, code, redeemed, txn,
                    lockVars>>

StopClose(h) ==
  /\ stop[h] = "close"
  /\ stop' = [stop EXCEPT ![h] = "idle"]
  /\ session' = [s \in Session |->
       IF session[s].host = h /\ session[s].state \in Live
       THEN [session[s] EXCEPT !.state = "closed"] ELSE session[s]]
  /\ UNCHANGED <<agreed, ticket, handed, accepting, code, redeemed, txn, lockVars>>

\* setAcceptingConnections
SetAcceptingConnections(h, on) ==
  /\ accepting[h] # on
  /\ accepting' = [accepting EXCEPT ![h] = on]
  /\ UNCHANGED <<session, agreed, ticket, handed, code, redeemed, stop, txn,
                 lockVars>>

-----------------------------------------------------------------------------
(* The rest of the world: codes are issued and expire, tickets expire, and a *)
(* heartbeat finds the account's balance gone.                               *)

IssueWebGrant(k) ==
  /\ code[k] = "unissued"
  /\ code' = [code EXCEPT ![k] = "open"]
  /\ UNCHANGED <<session, agreed, ticket, handed, accepting, redeemed, stop, txn,
                 lockVars>>

CodeExpires(k) ==
  /\ code[k] = "open"
  /\ codeLock[k] = Nobody
  /\ code' = [code EXCEPT ![k] = "expired"]
  /\ UNCHANGED <<session, agreed, ticket, handed, accepting, redeemed, stop, txn,
                 lockVars>>

\* (Nothing looks at the expiry of a ticket that is revoked or was taken.)
TicketExpires(t) ==
  /\ ticket[t].sess # NoSession /\ ticket[t].plain
  /\ ~ticket[t].revoked /\ ~ticket[t].expired
  /\ ticket' = [ticket EXCEPT ![t].expired = TRUE]
  /\ UNCHANGED <<session, agreed, handed, accepting, code, redeemed, stop, txn,
                 lockVars>>

RelayStopped(s) ==
  /\ session[s].state = "active"
  /\ session' = [session EXCEPT ![s].state = "relay_stopped"]
  /\ UNCHANGED <<agreed, ticket, handed, accepting, code, redeemed, stop, txn,
                 lockVars>>

-----------------------------------------------------------------------------
OpeningNext ==
  \E c \in Connection :
    \/ \E h \in Host, f \in Fingerprint :
         \/ \E a \in Account : RequestSession(c, a, h, f)
         \/ \E k \in Code : RedeemWebGrant(c, k, h, f)
    \/ LockAccount(c) \/ LoadHost(c) \/ CheckLimits(c)
    \/ LockOwner(c) \/ InsertSession(c)
    \/ BreakDeadlock(c) \/ Abort(c)

HostNext ==
  \/ \E s \in Session :
       \/ \E relayOpen \in BOOLEAN : Consent(s, relayOpen)
       \/ RejectIncoming(s)
  \/ \E c \in Connection : (\E t \in Ticket : TakeTicket(c, t)) \/ TakeCommit(c)
  \/ \E h \in Tended :
       \/ StopControlled(h) \/ StopRevoke(h) \/ StopClose(h)
       \/ \E on \in BOOLEAN : SetAcceptingConnections(h, on)

WorldNext ==
  \/ \E k \in Code : IssueWebGrant(k) \/ CodeExpires(k)
  \/ \E t \in Ticket : TicketExpires(t)
  \/ \E s \in Session : RelayStopped(s)

Next == OpeningNext \/ HostNext \/ WorldNext

Spec == Init /\ [][Next]_vars

\* Row locks are granted in the order they are asked for, a query returns, and a
\* transaction that waits in a ring is found.
Answering ==
  \A c \in Connection :
    /\ SF_vars(LockAccount(c)) /\ SF_vars(LockOwner(c))
    /\ WF_vars(BreakDeadlock(c))
    /\ WF_vars(LoadHost(c) \/ CheckLimits(c) \/ InsertSession(c) \/ TakeCommit(c))

FairSpec == Spec /\ Answering

-----------------------------------------------------------------------------
(* Properties *)

Holders(l, S) == \A x \in S : l[x] # Nobody => txn[l[x]].pc # "idle"

\* Every row keeps its columns and their types, and only a transaction that is
\* running holds a row lock.
TypeOK ==
  /\ session \in [Session -> SessionRow]
  /\ agreed \subseteq Session
  /\ ticket \in [Ticket -> TicketRow]
  /\ handed \in [Ticket -> Nat]
  /\ accepting \in [Host -> BOOLEAN]
  /\ code \in [Code -> {"unissued", "open", "used", "expired"}]
  /\ redeemed \subseteq Code \X Session
  /\ stop \in [Host -> {"idle", "revoke", "close"}]
  /\ txn \in [Connection -> Transaction]
  /\ accountLock \in [Account -> Connection \cup {Nobody}]
  /\ codeLock \in [Code -> Connection \cup {Nobody}]
  /\ ticketLock \in [Ticket -> Connection \cup {Nobody}]
  /\ Holders(accountLock, Account) /\ Holders(codeLock, Code)
  /\ Holders(ticketLock, Ticket)

\* An account never has more channels, nor more sessions on one channel, than
\* configured, however its requests and its web grants run at once: the counts
\* are read without locks, under the lock of the account's row.
WithinLimits ==
  \A a \in Account :
    /\ Cardinality({h \in Host : CountedOf(a, h) # {}}) <= ChannelLimit
    /\ \A h \in Host : Cardinality(CountedOf(a, h)) <= SessionsPerChannel

\* A web grant code opens one session, though it is redeemed twice at once, and
\* one whose redemption fails half way can be redeemed again.
OneSessionPerCode ==
  /\ \A r, q \in redeemed : r[1] = q[1] => r = q
  /\ \A k \in Code : code[k] = "used" <=> \E s \in Session : <<k, s>> \in redeemed

\* Nobody is let into a host unasked: a session that is or was active was agreed
\* to on that host, or its controller's account owns the host and a session of
\* that controller there was agreed to before.
NobodyUninvited ==
  \A s \in Session :
    session[s].state \in Accepted =>
      \/ s \in agreed
      \/ /\ ~Cross(s)
         /\ \E r \in agreed : /\ session[r].host = session[s].host
                               /\ session[r].print = session[s].print

\* The plaintext of a ticket is in at most one host-attach answer, though polls
\* overlap.
HandedOnce == \A t \in Ticket : handed[t] <= 1

\* Every request is answered, with a session or with a failure.  Transactions do
\* wait for each other: the INSERT needs the row of the host's owner, which is
\* locked by the owner's own requests, so requests of two accounts for each
\* other's hosts wait in a ring.  The ring is the only way to wait for good, one
\* failure opens it, and a refusal or a failure lets go of the account.
RequestsAnswered == \A c \in Connection : txn[c].pc # "idle" ~> txn[c].pc = "idle"

=============================================================================
