--------------------------- MODULE OrderLifecycle ---------------------------
(***************************************************************************)
(* Orders and the monthly subscription they open: OrderService.create,     *)
(* transitionOrder (the provider's callback), setAutoRenew,                *)
(* recordChargeFailure and remindDueRenewals.                              *)
(*                                                                         *)
(* None of these methods opens a transaction: every statement commits on   *)
(* its own, and what a method read may have changed when it writes.  A     *)
(* call fails where a statement fails; a failing reminder job is a         *)
(* rejection nobody catches (main.ts), which ends the process and every    *)
(* call with it.                                                           *)
(***************************************************************************)
EXTENDS Integers, FiniteSets, Sequences

CONSTANTS
  Account,     \* accounts rows
  Order,       \* orders rows
  OwnerOf,     \* the account of each order
  Monthly,     \* the orders whose plan is monthly
  Connection,  \* HTTP calls in flight
  Job,         \* runs of remindDueRenewals that may overlap
  Channels,    \* the channels of a reminder, "app" first
  Month,       \* how long a subscription runs
  LeadTime,    \* RENEWAL_REMINDER_LEAD_DAYS
  MaxTime,     \* bound on the time that passes
  MaxCrash     \* bound on the crashes of the process

ASSUME OrderAssumption == OwnerOf \in [Order -> Account] /\ Monthly \subseteq Order
ASSUME ChannelAssumption == Channels \in Seq(STRING) /\ Len(Channels) > 0
ASSUME TimeAssumption == Month \in Nat \ {0} /\ LeadTime \in Nat /\ MaxTime \in Nat
ASSUME BoundAssumption == IsFiniteSet(Job) /\ MaxCrash \in Nat

NoOrder   == "no order"
NoAccount == "no account"
Never     == -1

ASSUME SentinelAssumption == NoOrder \notin Order /\ NoAccount \notin Account

VARIABLES
  order,      \* orders.state
  reported,   \* the orders the provider has called opened
  sub,        \* subscriptions, one row for each account
  reminders,  \* renewal_reminders: account, charge date and channel
  notices,    \* how many account_notices say that a renewal is due
  told,       \* the accounts with account_notices on a failed charge
  call,       \* the calls in flight, between two statements
  job,        \* the reminder jobs, between two statements
  now,
  crashes

tableVars == <<order, sub, reminders, notices, told>>
vars == <<order, reported, sub, reminders, notices, told, call, job, now, crashes>>

-----------------------------------------------------------------------------
(* Rows *)

Time == 0 .. MaxTime
Date == Month .. MaxTime + Month

OrderState == {"unfinished", "confirming", "opened", "closed"}
Result     == OrderState \ {"unfinished"}

\* charge: next_charge_at; reminded: reminder_for_charge_at; failed:
\* charge_failed_at; retry and grace: next_retry_at and entitlement_ends_at are set.
Subscription == [order: Order \cup {NoOrder}, renew: BOOLEAN,
                 charge: Date \cup {Never}, reminded: Date \cup {Never},
                 failed: Time \cup {Never}, retry: BOOLEAN, grace: BOOLEAN]

NoSubscription == [order |-> NoOrder, renew |-> FALSE, charge |-> Never,
                   reminded |-> Never, failed |-> Never, retry |-> FALSE,
                   grace |-> FALSE]

Exists(a) == sub[a].order # NoOrder

\* at: changedAt or failedAt, the date to be written.
Call == [pc: {"idle", "update", "subscribe", "record", "tell"},
         order: Order \cup {NoOrder}, state: OrderState,
         account: Account \cup {NoAccount}, last: BOOLEAN, at: Time]

NoCall == [pc |-> "idle", order |-> NoOrder, state |-> "unfinished",
           account |-> NoAccount, last |-> FALSE, at |-> 0]

\* next: the channel to insert; app: recordedApp.
JobRun == [pc: {"idle", "next", "insert", "notice", "mark"}, todo: SUBSET Account,
           account: Account \cup {NoAccount}, next: 1 .. Len(Channels) + 1,
           app: BOOLEAN]

NoRun == [pc |-> "idle", todo |-> {}, account |-> NoAccount, next |-> 1,
          app |-> FALSE]

Init ==
  /\ order = [o \in Order |-> "absent"]
  /\ reported = {}
  /\ sub = [a \in Account |-> NoSubscription]
  /\ reminders = {}
  /\ notices = [a \in Account |-> 0]
  /\ told = {}
  /\ call = [c \in Connection |-> NoCall]
  /\ job = [j \in Job |-> NoRun]
  /\ now = 0
  /\ crashes = 0

-----------------------------------------------------------------------------
(* Orders *)

Create(o) ==
  /\ order[o] = "absent"
  /\ order' = [order EXCEPT ![o] = "unfinished"]
  /\ UNCHANGED <<reported, sub, reminders, notices, told, call, job, now, crashes>>

\* canApplyProviderState, for a result that is not the order's state already.
CanApply(from, to) ==
  \/ from = "unfinished"
  \/ from = "confirming" /\ to \in {"opened", "closed"}

\* transitionOrder, up to its SELECT.  A result the order has already, or that no
\* longer applies, is answered at once.
ProviderResult(c, o, st) ==
  /\ call[c].pc = "idle"
  /\ order[o] # "absent"
  /\ reported' = IF st = "opened" THEN reported \cup {o} ELSE reported
  /\ call' = IF order[o] # st /\ CanApply(order[o], st)
             THEN [call EXCEPT ![c] = [NoCall EXCEPT !.pc = "update", !.order = o,
                                                     !.state = st, !.at = now]]
             ELSE call
  /\ UNCHANGED <<tableVars, job, now, crashes>>

\* Every result of a monthly order would open its subscription.
UpdateOrderAnyResult(c) ==
  LET o == call[c].order IN
  /\ call[c].pc = "update"
  /\ order' = [order EXCEPT ![o] = call[c].state]
  /\ call' = IF o \in Monthly
             THEN [call EXCEPT ![c].pc = "subscribe"]
             ELSE [call EXCEPT ![c] = NoCall]
  /\ UNCHANGED <<reported, sub, reminders, notices, told, job, now, crashes>>

\* The UPDATE has no condition on the state that was read.
UpdateOrder(c) ==
  LET o == call[c].order IN
  /\ call[c].pc = "update"
  /\ order' = [order EXCEPT ![o] = call[c].state]
  /\ call' = IF call[c].state = "opened" /\ o \in Monthly
             THEN [call EXCEPT ![c].pc = "subscribe"]
             ELSE [call EXCEPT ![c] = NoCall]
  /\ UNCHANGED <<reported, sub, reminders, notices, told, job, now, crashes>>

\* The month is counted from the charge that was next so far.
OpenFromLastCharge(c) ==
  LET o == call[c].order
      a == OwnerOf[o]
      start == IF Exists(a) THEN sub[a].charge ELSE call[c].at
  IN /\ call[c].pc = "subscribe"
     /\ sub' = [sub EXCEPT ![a] =
          [NoSubscription EXCEPT !.order = o, !.renew = TRUE, !.charge = start + Month]]
     /\ call' = [call EXCEPT ![c] = NoCall]
     /\ UNCHANGED <<order, reported, reminders, notices, told, job, now, crashes>>

\* openMonthlySubscription: INSERT or, for an account that has one, replace it.
OpenMonthlySubscription(c) ==
  LET o == call[c].order IN
  /\ call[c].pc = "subscribe"
  /\ sub' = [sub EXCEPT ![OwnerOf[o]] =
       [NoSubscription EXCEPT !.order = o, !.renew = TRUE, !.charge = call[c].at + Month]]
  /\ call' = [call EXCEPT ![c] = NoCall]
  /\ UNCHANGED <<order, reported, reminders, notices, told, job, now, crashes>>

-----------------------------------------------------------------------------
(* Subscriptions *)

SetAutoRenew(a, on) ==
  /\ Exists(a)
  /\ sub' = [sub EXCEPT ![a].renew = on, ![a].retry = @ /\ on]
  /\ UNCHANGED <<order, reported, reminders, notices, told, call, job, now, crashes>>

\* recordChargeFailure, up to its SELECT.  last: the provider will not retry.
\* Nothing happens once renewal is off, or in the time of grace.
ChargeFailure(c, a, last) ==
  /\ call[c].pc = "idle"
  /\ Exists(a) /\ sub[a].renew /\ ~sub[a].grace
  /\ call' = [call EXCEPT ![c] =
       [NoCall EXCEPT !.pc = "record", !.account = a, !.last = last,
                      !.at = IF sub[a].failed = Never THEN now ELSE sub[a].failed]]
  /\ UNCHANGED <<reported, tableVars, job, now, crashes>>

\* Without COALESCE.
FailedAtAsRead(c, old) == call[c].at

FailedAt(c, old) == IF old = Never THEN call[c].at ELSE old

\* The UPDATE keeps a first failure that was recorded meanwhile (COALESCE), and
\* otherwise overwrites.
RecordFailure(c) ==
  LET a == call[c].account IN
  /\ call[c].pc = "record"
  /\ sub' = [sub EXCEPT ![a].failed = FailedAt(c, @),
                        ![a].retry = ~call[c].last, ![a].grace = call[c].last]
  /\ call' = [call EXCEPT ![c].pc = "tell"]
  /\ UNCHANGED <<order, reported, reminders, notices, told, job, now, crashes>>

\* The notice is inserted unless one with the same words is there; the words are
\* left out, and how often it is there.
TellFailure(c) ==
  /\ call[c].pc = "tell"
  /\ told' = told \cup {call[c].account}
  /\ call' = [call EXCEPT ![c] = NoCall]
  /\ UNCHANGED <<order, reported, sub, reminders, notices, job, now, crashes>>

\* A statement of the call fails, and it is answered with an error.
CallFails(c) ==
  /\ call[c].pc # "idle"
  /\ call' = [call EXCEPT ![c] = NoCall]
  /\ UNCHANGED <<reported, tableVars, job, now, crashes>>

-----------------------------------------------------------------------------
(* remindDueRenewals *)

Due(a) ==
  /\ Exists(a) /\ sub[a].renew /\ sub[a].failed = Never
  /\ now < sub[a].charge /\ sub[a].charge <= now + LeadTime
  /\ sub[a].reminded # sub[a].charge

\* The SELECT of the subscriptions that are due.
StartJob(j) ==
  /\ job[j].pc = "idle"
  /\ \E a \in Account : Due(a)
  /\ job' = [job EXCEPT ![j] = [NoRun EXCEPT !.pc = "next",
                                  !.todo = {a \in Account : Due(a)}]]
  /\ UNCHANGED <<reported, tableVars, call, now, crashes>>

NextDue(j) ==
  /\ job[j].pc = "next"
  /\ \/ \E a \in job[j].todo :
          job' = [job EXCEPT ![j] = [NoRun EXCEPT !.pc = "insert", !.account = a,
                                       !.todo = job[j].todo \ {a}]]
     \/ job[j].todo = {} /\ job' = [job EXCEPT ![j] = NoRun]
  /\ UNCHANGED <<reported, tableVars, call, now, crashes>>

\* Without the count of inserted rows.
RecordedAppAgain(j, row) ==
  job[j].app \/ row[3] = "app"

RecordedApp(j, row) ==
  job[j].app \/ (row[3] = "app" /\ row \notin reminders)

\* One INSERT for each channel, for the charge date the row has by now.
InsertReminder(j) ==
  LET a   == job[j].account
      row == <<a, sub[a].charge, Channels[job[j].next]>>
      app == RecordedApp(j, row)
  IN /\ job[j].pc = "insert"
     /\ reminders' = reminders \cup {row}
     /\ job' = [job EXCEPT ![j].next = @ + 1, ![j].app = app,
                  ![j].pc = IF job[j].next < Len(Channels) THEN "insert"
                            ELSE IF app THEN "notice" ELSE "mark"]
     /\ UNCHANGED <<order, reported, sub, notices, told, call, now, crashes>>

InsertNotice(j) ==
  /\ job[j].pc = "notice"
  /\ notices' = [notices EXCEPT ![job[j].account] = @ + 1]
  /\ job' = [job EXCEPT ![j].pc = "mark"]
  /\ UNCHANGED <<order, reported, sub, reminders, told, call, now, crashes>>

\* The mark would be part of the branch that inserts the notice.
MarkIfRecorded(j) ==
  LET a == job[j].account IN
  /\ job[j].pc = "mark"
  /\ sub' = IF job[j].app THEN [sub EXCEPT ![a].reminded = sub[a].charge] ELSE sub
  /\ job' = [job EXCEPT ![j].pc = "next"]
  /\ UNCHANGED <<order, reported, reminders, notices, told, call, now, crashes>>

\* reminder_for_charge_at = next_charge_at, as that is by now.
MarkReminded(j) ==
  LET a == job[j].account IN
  /\ job[j].pc = "mark"
  /\ sub' = [sub EXCEPT ![a].reminded = sub[a].charge]
  /\ job' = [job EXCEPT ![j].pc = "next"]
  /\ UNCHANGED <<order, reported, reminders, notices, told, call, now, crashes>>

-----------------------------------------------------------------------------
\* The process ends, by a statement of a job that failed or for any reason, and
\* starts again.
Crash ==
  /\ crashes < MaxCrash
  /\ crashes' = crashes + 1
  /\ call' = [c \in Connection |-> NoCall]
  /\ job' = [j \in Job |-> NoRun]
  /\ UNCHANGED <<reported, tableVars, now>>

Tick ==
  /\ now < MaxTime
  /\ now' = now + 1
  /\ UNCHANGED <<reported, tableVars, call, job, crashes>>

OrderNext ==
  \/ \E o \in Order : Create(o)
  \/ \E c \in Connection :
       \/ \E o \in Order, st \in Result : ProviderResult(c, o, st)
       \/ UpdateOrder(c) \/ OpenMonthlySubscription(c)

SubscriptionNext ==
  \/ \E a \in Account, on \in BOOLEAN : SetAutoRenew(a, on)
  \/ \E c \in Connection :
       \/ \E a \in Account, last \in BOOLEAN : ChargeFailure(c, a, last)
       \/ RecordFailure(c) \/ TellFailure(c) \/ CallFails(c)

JobStep(j) == NextDue(j) \/ InsertReminder(j) \/ InsertNotice(j) \/ MarkReminded(j)

JobNext == \E j \in Job : StartJob(j) \/ JobStep(j)

Next == OrderNext \/ SubscriptionNext \/ JobNext \/ Crash \/ Tick

Spec == Init /\ [][Next]_vars

\* The provider sends a result again.
Repeat(c, o) == o \in reported /\ ProviderResult(c, o, "opened")

\* The timer starts a job every hour, statements return, and the provider repeats
\* that an order is opened until it is answered.
Fairness ==
  /\ \A o \in Order : WF_vars(\E c \in Connection : Repeat(c, o))
  /\ \A j \in Job : WF_vars(StartJob(j)) /\ WF_vars(JobStep(j))
  /\ \A c \in Connection :
       WF_vars(UpdateOrder(c) \/ OpenMonthlySubscription(c)
               \/ RecordFailure(c) \/ TellFailure(c))

FairSpec == Spec /\ Fairness

-----------------------------------------------------------------------------
(* Properties *)

\* Every table keeps its columns and their types.
TypeOK ==
  /\ order \in [Order -> OrderState \cup {"absent"}]
  /\ reported \subseteq Order
  /\ sub \in [Account -> Subscription]
  /\ reminders \subseteq Account \X Date \X {Channels[i] : i \in 1 .. Len(Channels)}
  /\ notices \in [Account -> Nat]
  /\ told \subseteq Account
  /\ call \in [Connection -> Call]
  /\ job \in [Job -> JobRun]
  /\ now \in Time
  /\ crashes \in 0 .. MaxCrash

\* Nobody is made to renew what was not paid: a subscription belongs to a monthly
\* order that the provider reported opened, however callbacks repeat, overtake each
\* other or stop half way.
RenewsWhatWasPaid ==
  \A a \in Account : Exists(a) => sub[a].order \in Monthly \cap reported

\* Jobs that overlap, or start again after a crash, tell an account of a renewal
\* at most once for each reminder that is on record.
NoticesBacked ==
  \A a \in Account :
    notices[a] <= Cardinality({r \in reminders : r[1] = a /\ r[3] = "app"})

\* The first failure of a charge dates the failure until a new order opens: two
\* reports that read the row before either wrote it do not move the date.
FirstFailureKept ==
  [][\A a \in Account :
       sub[a].failed # Never /\ sub'[a].failed # sub[a].failed
         => sub'[a].failed = Never]_vars

\* A renewal that falls due does not stay so: a job marks it, though an earlier
\* one got half way and crashed.
DueIsMarked == \A a \in Account : Due(a) ~> ~Due(a)

\* A monthly order that is opened gives its owner a subscription in the end.
\* Not kept: when the call stops between its two statements, the provider's
\* repetition finds the order opened and is answered at once.
OpenedIsServed ==
  \A o \in Monthly : order[o] = "opened" ~> Exists(OwnerOf[o])

=============================================================================
