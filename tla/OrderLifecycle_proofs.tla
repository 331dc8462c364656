------------------------ MODULE OrderLifecycle_proofs ------------------------
(***************************************************************************)
(* What OrderLifecycle keeps for any accounts, orders, calls, reminder jobs *)
(* and channels.                                                           *)
(*                                                                         *)
(* Shapes strengthens the types: what a call or a job carries fits the     *)
(* statement it is about to run.  Debts strengthens NoticesBacked: every   *)
(* job that has recorded an app reminder and not told the account yet has  *)
(* a row of its own on record.                                             *)
(***************************************************************************)
EXTENDS OrderLifecycle, FiniteSetTheorems, SequenceTheorems, TLAPS

CallShape(c) ==
  /\ call[c].pc \in {"update", "subscribe"} => call[c].order \in Order
  /\ call[c].pc = "update" /\ call[c].state = "opened" => call[c].order \in reported
  /\ call[c].pc = "subscribe" => call[c].order \in Monthly \cap reported
  /\ call[c].pc \in {"record", "tell"} => call[c].account \in Account

JobShape(j) ==
  /\ \A a \in job[j].todo : Exists(a)
  /\ job[j].pc \in {"insert", "notice", "mark"} =>
       job[j].account \in Account /\ Exists(job[j].account)
  /\ job[j].pc = "insert" => job[j].next <= Len(Channels)
  /\ job[j].pc = "notice" => job[j].app

Shapes ==
  /\ \A c \in Connection : CallShape(c)
  /\ \A j \in Job : JobShape(j)
  /\ \A a \in Account : Exists(a) => sub[a].charge \in Date

TInv == TypeOK /\ Shapes /\ RenewsWhatWasPaid

-----------------------------------------------------------------------------
(* Types, shapes and what was paid *)

LEMMA Sentinels ==
  /\ NoOrder \notin Order /\ NoAccount \notin Account
  /\ Never \notin Date /\ Never \notin Time
  /\ 0 \in Time
  /\ 1 \in 1 .. Len(Channels) + 1
  /\ Len(Channels) \in Nat \ {0}
BY SentinelAssumption, TimeAssumption, ChannelAssumption, LenProperties
DEF Never, Date, Time

LEMMA Empty ==
  NoCall \in Call /\ NoRun \in JobRun /\ NoSubscription \in Subscription
BY Sentinels
DEF NoCall, Call, NoRun, JobRun, NoSubscription, Subscription, OrderState

LEMMA TInit ==
  ASSUME Init
  PROVE  TInv
<1>1. TypeOK
  BY Empty, Sentinels, BoundAssumption, TimeAssumption DEF Init, TypeOK, Time
<1>2. Shapes
  BY DEF Init, Shapes, CallShape, JobShape, NoCall, NoRun, NoSubscription, Exists
<1>3. RenewsWhatWasPaid
  BY DEF Init, RenewsWhatWasPaid, NoSubscription, Exists
<1>4. QED
  BY <1>1, <1>2, <1>3 DEF TInv

\* A step that leaves jobs and subscriptions alone and moves one call.
LEMMA OneCall ==
  ASSUME TInv, NEW c \in Connection, NEW v \in Call,
         call' = [call EXCEPT ![c] = v],
         CallShape(c)',
         reported \subseteq reported', reported' \subseteq Order,
         UNCHANGED <<sub, reminders, notices, job, now, crashes>>,
         order' \in [Order -> OrderState \cup {"absent"}],
         told' \subseteq Account
  PROVE  TInv'
<1>1. TypeOK'
  BY DEF TInv, TypeOK
<1>2. \A d \in Connection : CallShape(d)'
  <2>1. ASSUME NEW d \in Connection, d # c PROVE CallShape(d)'
    <3>1. call'[d] = call[d] /\ CallShape(d)
      BY <2>1 DEF TInv, TypeOK, Shapes
    <3>2. QED
      BY <3>1 DEF CallShape
  <2>2. QED
    BY <2>1
<1>3. Shapes'
  BY <1>2 DEF TInv, Shapes, JobShape, Exists
<1>4. RenewsWhatWasPaid'
  BY DEF TInv, RenewsWhatWasPaid, Exists
<1>5. QED
  BY <1>1, <1>3, <1>4 DEF TInv

\* A step that rewrites one subscription, and may end or advance one call.
LEMMA OneRow ==
  ASSUME TInv, NEW a \in Account, NEW r \in Subscription,
         sub' = [sub EXCEPT ![a] = r],
         r.order # NoOrder, r.charge \in Date, r.order \in Monthly \cap reported,
         UNCHANGED <<reported, order, reminders, notices, told, now, crashes>>,
         call' \in [Connection -> Call], \A c \in Connection : CallShape(c)',
         job' \in [Job -> JobRun],
         \A j \in Job : \/ job'[j] = job[j]
                        \/ job'[j] = [job[j] EXCEPT !.pc = "next"]
  PROVE  TInv'
<1>1. TypeOK'
  BY DEF TInv, TypeOK
<1>2. \A b \in Account : Exists(b) => Exists(b)'
  BY DEF TInv, TypeOK, Exists
<1>3. ASSUME NEW j \in Job PROVE JobShape(j)'
  <2>1. JobShape(j) /\ job[j] \in JobRun
    BY DEF TInv, Shapes, TypeOK
  <2>2. job[j].todo \subseteq Account
    BY <2>1 DEF JobRun
  <2>3. CASE job'[j] = job[j]
    BY <1>2, <2>1, <2>2, <2>3 DEF JobShape
  <2>4. CASE job'[j] = [job[j] EXCEPT !.pc = "next"]
    <3>1. job'[j].pc = "next" /\ job'[j].todo = job[j].todo
      BY <2>1, <2>4 DEF JobRun
    <3>2. QED
      BY <1>2, <2>1, <2>2, <3>1 DEF JobShape
  <2>5. QED
    BY <2>3, <2>4
<1>4. \A b \in Account : Exists(b)' => sub'[b].charge \in Date
  BY DEF TInv, TypeOK, Shapes, Exists
<1>5. RenewsWhatWasPaid'
  BY DEF TInv, TypeOK, RenewsWhatWasPaid, Exists
<1>6. QED
  BY <1>1, <1>3, <1>4, <1>5 DEF TInv, Shapes

\* A step of one job that leaves every subscription alone.
LEMMA OneJob ==
  ASSUME TInv, NEW j \in Job, NEW v \in JobRun,
         job' = [job EXCEPT ![j] = v],
         JobShape(j)',
         UNCHANGED <<order, reported, sub, told, call, now, crashes>>,
         notices' \in [Account -> Nat],
         reminders' \subseteq
           Account \X Date \X {Channels[i] : i \in 1 .. Len(Channels)}
  PROVE  TInv'
<1>1. TypeOK'
  BY DEF TInv, TypeOK
<1>2. ASSUME NEW i \in Job, i # j PROVE JobShape(i)'
  <2>1. job'[i] = job[i] /\ JobShape(i)
    BY <1>2 DEF TInv, TypeOK, Shapes
  <2>2. QED
    BY <2>1 DEF JobShape, Exists
<1>3. Shapes'
  BY <1>2 DEF TInv, Shapes, CallShape, Exists
<1>4. RenewsWhatWasPaid'
  BY DEF TInv, RenewsWhatWasPaid, Exists
<1>5. QED
  BY <1>1, <1>3, <1>4 DEF TInv

LEMMA OrderStep ==
  ASSUME TInv, OrderNext
  PROVE  TInv'
<1>1. ASSUME NEW o \in Order, Create(o) PROVE TInv'
  <2>1. TypeOK'
    BY <1>1 DEF Create, TInv, TypeOK, OrderState
  <2>2. QED
    BY <1>1, <2>1
    DEF Create, TInv, Shapes, CallShape, JobShape, RenewsWhatWasPaid, Exists
<1>2. ASSUME NEW c \in Connection, NEW o \in Order, NEW st \in Result,
             ProviderResult(c, o, st)
      PROVE  TInv'
  <2>1. reported \subseteq reported' /\ reported' \subseteq Order
    BY <1>2 DEF ProviderResult, TInv, TypeOK
  <2>2. order' \in [Order -> OrderState \cup {"absent"}] /\ told' \subseteq Account
    BY <1>2 DEF ProviderResult, TInv, TypeOK, tableVars
  <2>3. CASE call' = call
    <3>1. call' = [call EXCEPT ![c] = call[c]] /\ call[c] \in Call
      BY <2>3 DEF TInv, TypeOK
    <3>2. CallShape(c)'
      BY <1>2, <2>1, <2>3 DEF TInv, Shapes, CallShape
    <3>3. QED
      BY <1>2, <2>1, <2>2, <3>1, <3>2, OneCall DEF ProviderResult, tableVars
  <2>4. CASE call' = [call EXCEPT ![c] = [NoCall EXCEPT !.pc = "update", !.order = o,
                                                     !.state = st, !.at = now]]
    <3> DEFINE v == [NoCall EXCEPT !.pc = "update", !.order = o,
                                   !.state = st, !.at = now]
    <3>1. v \in Call /\ v.pc = "update" /\ v.order = o /\ v.state = st
      BY <1>2 DEF NoCall, Call, Result, TInv, TypeOK
    <3>2. call'[c] = v
      BY <2>4 DEF TInv, TypeOK
    <3>3. st = "opened" => o \in reported'
      BY <1>2 DEF ProviderResult
    <3> HIDE DEF v
    <3>4. CallShape(c)'
      BY <3>1, <3>2, <3>3 DEF CallShape
    <3>5. call' = [call EXCEPT ![c] = v]
      BY <2>4 DEF v
    <3>6. QED
      BY <1>2, <2>1, <2>2, <3>1, <3>4, <3>5, OneCall DEF ProviderResult, tableVars
  <2>5. QED
    BY <1>2, <2>3, <2>4 DEF ProviderResult
<1>3. ASSUME NEW c \in Connection, UpdateOrder(c) PROVE TInv'
  <2>1. /\ call[c] \in Call /\ CallShape(c)
        /\ call[c].pc = "update" /\ call[c].order \in Order
    BY <1>3 DEF UpdateOrder, TInv, TypeOK, Shapes, CallShape
  <2>2. order' \in [Order -> OrderState \cup {"absent"}]
    BY <1>3, <2>1 DEF UpdateOrder, TInv, TypeOK, Call
  <2>3. PICK v \in Call :
          /\ call' = [call EXCEPT ![c] = v]
          /\ \/ v = NoCall
             \/ /\ v = [call[c] EXCEPT !.pc = "subscribe"]
                /\ call[c].state = "opened" /\ call[c].order \in Monthly
    <3>1. CASE call[c].state = "opened" /\ call[c].order \in Monthly
      <4>1. call' = [call EXCEPT ![c] = [call[c] EXCEPT !.pc = "subscribe"]]
        BY <1>3, <3>1 DEF UpdateOrder
      <4>2. [call[c] EXCEPT !.pc = "subscribe"] \in Call
        BY <2>1 DEF Call
      <4>3. QED
        BY <3>1, <4>1, <4>2
    <3>2. CASE ~(call[c].state = "opened" /\ call[c].order \in Monthly)
      BY <1>3, <3>2, Empty DEF UpdateOrder
    <3>3. QED
      BY <3>1, <3>2
  <2>4. CallShape(c)'
    <3>1. call'[c] = v /\ reported' = reported
      BY <1>3, <2>3 DEF UpdateOrder, TInv, TypeOK
    <3>2. CASE v = NoCall
      BY <3>1, <3>2 DEF CallShape, NoCall
    <3>3. CASE /\ v = [call[c] EXCEPT !.pc = "subscribe"]
               /\ call[c].state = "opened" /\ call[c].order \in Monthly
      <4>1. v.pc = "subscribe" /\ v.order = call[c].order
        BY <2>1, <3>3 DEF Call
      <4>2. QED
        BY <2>1, <3>1, <3>3, <4>1 DEF CallShape
    <3>4. QED
      BY <2>3, <3>2, <3>3
  <2>5. QED
    BY <1>3, <2>2, <2>3, <2>4, OneCall DEF UpdateOrder, TInv, TypeOK
<1>4. ASSUME NEW c \in Connection, OpenMonthlySubscription(c) PROVE TInv'
  <2> DEFINE o == call[c].order
             r == [NoSubscription EXCEPT !.order = o, !.renew = TRUE,
                                         !.charge = call[c].at + Month]
  <2>1. /\ o \in Monthly \cap reported /\ o \in Order /\ OwnerOf[o] \in Account
        /\ call[c].at \in Time
    BY <1>4, OrderAssumption
    DEF OpenMonthlySubscription, TInv, TypeOK, Shapes, CallShape, Call
  <2>2. call[c].at + Month \in Date
    BY <2>1, TimeAssumption DEF Time, Date
  <2>3. r \in Subscription /\ r.order = o /\ r.charge \in Date
    BY <2>1, <2>2 DEF NoSubscription, Subscription
  <2>4. sub' = [sub EXCEPT ![OwnerOf[o]] = r]
    BY <1>4 DEF OpenMonthlySubscription
  <2>5. call' \in [Connection -> Call] /\ \A d \in Connection : CallShape(d)'
    <3>1. call' \in [Connection -> Call]
      BY <1>4, Empty DEF OpenMonthlySubscription, TInv, TypeOK
    <3>2. ASSUME NEW d \in Connection PROVE CallShape(d)'
      <4>1. call'[d] = NoCall \/ call'[d] = call[d]
        BY <1>4 DEF OpenMonthlySubscription, TInv, TypeOK
      <4>2. QED
        BY <1>4, <4>1
        DEF OpenMonthlySubscription, TInv, Shapes, CallShape, NoCall
    <3>3. QED
      BY <3>1, <3>2
  <2>6. job' = job /\ job \in [Job -> JobRun]
    BY <1>4 DEF OpenMonthlySubscription, TInv, TypeOK
  <2>7. r.order # NoOrder
    BY <2>1, <2>3, SentinelAssumption
  <2>8. UNCHANGED <<reported, order, reminders, notices, told, now, crashes>>
    BY <1>4 DEF OpenMonthlySubscription
  <2> HIDE DEF r, o
  <2>9. QED
    BY <2>1, <2>3, <2>4, <2>5, <2>6, <2>7, <2>8, OneRow
<1>5. QED
  BY <1>1, <1>2, <1>3, <1>4 DEF OrderNext

LEMMA SubscriptionStep ==
  ASSUME TInv, SubscriptionNext
  PROVE  TInv'
<1>1. ASSUME NEW a \in Account, NEW on \in BOOLEAN, SetAutoRenew(a, on)
      PROVE  TInv'
  <2> DEFINE r == [sub[a] EXCEPT !.renew = on, !.retry = @ /\ on]
  <2>1. /\ sub[a] \in Subscription /\ sub[a].order # NoOrder
        /\ sub[a].charge \in Date /\ sub[a].order \in Monthly \cap reported
    BY <1>1 DEF SetAutoRenew, Exists, TInv, TypeOK, Shapes, RenewsWhatWasPaid
  <2>2. (sub[a].retry /\ on) \in BOOLEAN
    OBVIOUS
  <2>3. r \in Subscription /\ r.order = sub[a].order /\ r.charge = sub[a].charge
    BY <2>1, <2>2 DEF Subscription
  <2>4. sub' = [sub EXCEPT ![a] = r]
    BY <1>1, <2>1 DEF SetAutoRenew, TInv, TypeOK, Subscription
  <2>5. /\ call' \in [Connection -> Call] /\ \A c \in Connection : CallShape(c)'
        /\ job' = job /\ job \in [Job -> JobRun]
    BY <1>1 DEF SetAutoRenew, TInv, TypeOK, Shapes, CallShape
  <2>6. UNCHANGED <<reported, order, reminders, notices, told, now, crashes>>
    BY <1>1 DEF SetAutoRenew
  <2> HIDE DEF r
  <2>7. QED
    BY <2>1, <2>3, <2>4, <2>5, <2>6, OneRow
<1>2. ASSUME NEW c \in Connection, NEW a \in Account, NEW last \in BOOLEAN,
             ChargeFailure(c, a, last)
      PROVE  TInv'
  <2> DEFINE v == [NoCall EXCEPT !.pc = "record", !.account = a, !.last = last,
                      !.at = IF sub[a].failed = Never THEN now ELSE sub[a].failed]
  <2>1. (IF sub[a].failed = Never THEN now ELSE sub[a].failed) \in Time
    BY DEF TInv, TypeOK, Subscription
  <2>2. v \in Call /\ v.pc = "record" /\ v.account = a
    BY <2>1, Empty DEF NoCall, Call
  <2>3. call' = [call EXCEPT ![c] = v] /\ call'[c] = v
    BY <1>2 DEF ChargeFailure, TInv, TypeOK
  <2> HIDE DEF v
  <2>4. CallShape(c)'
    BY <2>2, <2>3 DEF CallShape
  <2>5. QED
    BY <1>2, <2>2, <2>3, <2>4, OneCall DEF ChargeFailure, tableVars, TInv, TypeOK
<1>3. ASSUME NEW c \in Connection, RecordFailure(c) PROVE TInv'
  <2> DEFINE a == call[c].account
             f == FailedAt(c, sub[a].failed)
             r == [sub[a] EXCEPT !.failed = f, !.retry = ~call[c].last,
                                 !.grace = call[c].last]
  <2>1. a \in Account /\ call[c] \in Call /\ sub[a] \in Subscription
    BY <1>3 DEF RecordFailure, TInv, TypeOK, Shapes, CallShape
  <2>2. f \in Time \cup {Never} /\ call[c].last \in BOOLEAN
    BY <2>1 DEF FailedAt, Call, Subscription
  <2>3. r \in Subscription /\ r.order = sub[a].order /\ r.charge = sub[a].charge
    <3>1. (~call[c].last) \in BOOLEAN
      BY <2>2
    <3>2. QED
      BY <2>1, <2>2, <3>1 DEF Subscription
  <2>4. sub' = [sub EXCEPT ![a] = r]
    BY <1>3, <2>1 DEF RecordFailure, TInv, TypeOK, Subscription
  <2>5. call' \in [Connection -> Call] /\ \A d \in Connection : CallShape(d)'
    <3>1. call'[c] = [call[c] EXCEPT !.pc = "tell"]
          /\ call' \in [Connection -> Call]
          /\ \A d \in Connection : d # c => call'[d] = call[d]
      BY <1>3, <2>1 DEF RecordFailure, TInv, TypeOK, Call
    <3>2. CallShape(c)'
      BY <2>1, <3>1 DEF CallShape, Call
    <3>3. ASSUME NEW d \in Connection, d # c PROVE CallShape(d)'
      BY <1>3, <3>1, <3>3 DEF RecordFailure, TInv, Shapes, CallShape
    <3>4. QED
      BY <3>1, <3>2, <3>3
  <2>6. job' = job /\ job \in [Job -> JobRun]
    BY <1>3 DEF RecordFailure, TInv, TypeOK
  <2>7. UNCHANGED <<reported, order, reminders, notices, told, now, crashes>>
    BY <1>3 DEF RecordFailure
  <2>8. CASE Exists(a)
    <3>1. sub[a].order # NoOrder /\ sub[a].charge \in Date
          /\ sub[a].order \in Monthly \cap reported
      BY <2>1, <2>8 DEF Exists, TInv, Shapes, RenewsWhatWasPaid
    <3> HIDE DEF r, f, a
    <3>2. QED
      BY <2>1, <2>3, <2>4, <2>5, <2>6, <2>7, <3>1, OneRow
  <2>9. CASE ~Exists(a)
    <3>1. TypeOK'
      BY <2>1, <2>3, <2>4, <2>5, <2>6, <2>7 DEF TInv, TypeOK
    <3>2. \A b \in Account : sub'[b].order = sub[b].order
                             /\ sub'[b].charge = sub[b].charge
      BY <2>1, <2>3, <2>4 DEF TInv, TypeOK
    <3>3. \A b \in Account : Exists(b)' <=> Exists(b)
      BY <3>2 DEF Exists
    <3>4. ASSUME NEW j \in Job PROVE JobShape(j)'
      <4>1. JobShape(j) /\ job[j].todo \subseteq Account
        BY DEF TInv, Shapes, TypeOK, JobRun
      <4>2. QED
        BY <2>6, <3>3, <4>1 DEF JobShape
    <3>5. Shapes'
      BY <2>5, <3>2, <3>3, <3>4 DEF TInv, Shapes
    <3>6. RenewsWhatWasPaid'
      BY <2>7, <3>2, <3>3 DEF TInv, RenewsWhatWasPaid
    <3>7. QED
      BY <3>1, <3>5, <3>6 DEF TInv
  <2>10. QED
    BY <2>8, <2>9
<1>4. ASSUME NEW c \in Connection, TellFailure(c) PROVE TInv'
  <2>1. call[c].account \in Account
    BY <1>4 DEF TellFailure, TInv, Shapes, CallShape
  <2>2. call' = [call EXCEPT ![c] = NoCall] /\ CallShape(c)'
    BY <1>4 DEF TellFailure, TInv, TypeOK, CallShape, NoCall
  <2>3. QED
    BY <1>4, <2>1, <2>2, Empty, OneCall DEF TellFailure, TInv, TypeOK
<1>5. ASSUME NEW c \in Connection, CallFails(c) PROVE TInv'
  <2>1. call' = [call EXCEPT ![c] = NoCall] /\ CallShape(c)'
    BY <1>5 DEF CallFails, TInv, TypeOK, CallShape, NoCall
  <2>2. QED
    BY <1>5, <2>1, Empty, OneCall DEF CallFails, tableVars, TInv, TypeOK
<1>6. QED
  BY <1>1, <1>2, <1>3, <1>4, <1>5 DEF SubscriptionNext

LEMMA JobRunStep ==
  ASSUME TInv, JobNext
  PROVE  TInv'
<1>1. ASSUME NEW j \in Job, StartJob(j) PROVE TInv'
  <2> DEFINE v == [NoRun EXCEPT !.pc = "next", !.todo = {a \in Account : Due(a)}]
  <2>1. v \in JobRun /\ v.pc = "next" /\ v.todo = {a \in Account : Due(a)}
    BY Empty DEF NoRun, JobRun
  <2>2. job' = [job EXCEPT ![j] = v] /\ job'[j] = v
    BY <1>1 DEF StartJob, TInv, TypeOK
  <2> HIDE DEF v
  <2>3. JobShape(j)'
    BY <1>1, <2>1, <2>2 DEF StartJob, tableVars, JobShape, Due, Exists
  <2>4. QED
    BY <1>1, <2>1, <2>2, <2>3, OneJob DEF StartJob, tableVars, TInv, TypeOK
<1>2. ASSUME NEW j \in Job, NextDue(j) PROVE TInv'
  <2>1. /\ job[j] \in JobRun /\ job[j].todo \subseteq Account
        /\ \A a \in job[j].todo : Exists(a)
    BY DEF TInv, TypeOK, Shapes, JobShape, JobRun
  <2>2. CASE job' = [job EXCEPT ![j] = NoRun]
    <3>1. JobShape(j)'
      BY <2>2 DEF TInv, TypeOK, JobShape, NoRun
    <3>2. QED
      BY <1>2, <2>2, <3>1, Empty, OneJob DEF NextDue, tableVars, TInv, TypeOK
  <2>3. ASSUME NEW a \in job[j].todo,
               job' = [job EXCEPT ![j] = [NoRun EXCEPT !.pc = "insert", !.account = a,
                                            !.todo = job[j].todo \ {a}]]
        PROVE  TInv'
    <3> DEFINE v == [NoRun EXCEPT !.pc = "insert", !.account = a,
                                  !.todo = job[j].todo \ {a}]
    <3>1. /\ v \in JobRun /\ v.pc = "insert" /\ v.account = a
          /\ v.todo = job[j].todo \ {a} /\ v.next = 1
      BY <2>1, Sentinels DEF NoRun, JobRun
    <3>2. job' = [job EXCEPT ![j] = v] /\ job'[j] = v
      BY <2>3 DEF TInv, TypeOK
    <3> HIDE DEF v
    <3>3. UNCHANGED sub
      BY <1>2 DEF NextDue, tableVars
    <3>4. a \in Account /\ Exists(a)' /\ \A b \in job[j].todo : Exists(b)'
      BY <2>1, <3>3 DEF Exists
    <3>5. JobShape(j)'
      BY <3>1, <3>2, <3>4, Sentinels DEF JobShape
    <3>6. QED
      BY <1>2, <3>1, <3>2, <3>5, OneJob DEF NextDue, tableVars, TInv, TypeOK
  <2>4. QED
    BY <1>2, <2>2, <2>3 DEF NextDue
<1>3. ASSUME NEW j \in Job, InsertReminder(j) PROVE TInv'
  <2> DEFINE a   == job[j].account
             row == <<a, sub[a].charge, Channels[job[j].next]>>
             app == RecordedApp(j, row)
             pc  == IF job[j].next < Len(Channels) THEN "insert"
                    ELSE IF app THEN "notice" ELSE "mark"
             v   == [job[j] EXCEPT !.next = @ + 1, !.app = app, !.pc = pc]
  <2>1. /\ job[j] \in JobRun /\ job[j].pc = "insert" /\ JobShape(j)
        /\ job[j].next \in 1 .. Len(Channels)
    BY <1>3, Sentinels DEF InsertReminder, TInv, TypeOK, Shapes, JobShape, JobRun
  <2>2. a \in Account /\ Exists(a) /\ sub[a].charge \in Date
    BY <2>1 DEF JobShape, TInv, Shapes
  <2>3. row \in Account \X Date \X {Channels[i] : i \in 1 .. Len(Channels)}
    BY <2>1, <2>2
  <2>4. app \in BOOLEAN
    BY <2>1 DEF RecordedApp, JobRun
  <2>5. pc \in {"insert", "notice", "mark"}
        /\ (pc = "insert" => job[j].next + 1 <= Len(Channels))
        /\ (pc = "notice" => app)
    BY <2>1, Sentinels
  <2>6. job[j].next + 1 \in 1 .. Len(Channels) + 1
    BY <2>1, Sentinels
  <2>7. job' = [job EXCEPT ![j] = v]
    BY <1>3, <2>1 DEF InsertReminder, TInv, TypeOK, JobRun
  <2>8. reminders' = reminders \cup {row}
    BY <1>3 DEF InsertReminder
  <2> HIDE DEF pc, app, row
  <2>9. /\ v \in JobRun /\ v.pc = pc /\ v.next = job[j].next + 1 /\ v.app = app
        /\ v.account = a /\ v.todo = job[j].todo
    BY <2>1, <2>4, <2>5, <2>6 DEF JobRun
  <2>10. job'[j] = v
    BY <2>7 DEF TInv, TypeOK
  <2> HIDE DEF v
  <2>11. JobShape(j)'
    BY <1>3, <2>1, <2>2, <2>5, <2>9, <2>10 DEF InsertReminder, JobShape, Exists
  <2>12. QED
    BY <1>3, <2>3, <2>7, <2>8, <2>9, <2>11, OneJob
    DEF InsertReminder, TInv, TypeOK
<1>4. ASSUME NEW j \in Job, InsertNotice(j) PROVE TInv'
  <2> DEFINE v == [job[j] EXCEPT !.pc = "mark"]
  <2>1. job[j] \in JobRun /\ JobShape(j) /\ job[j].pc = "notice"
    BY <1>4 DEF InsertNotice, TInv, TypeOK, Shapes
  <2>2. /\ v \in JobRun /\ v.pc = "mark" /\ v.account = job[j].account
        /\ v.todo = job[j].todo
    BY <2>1 DEF JobRun
  <2>3. job' = [job EXCEPT ![j] = v] /\ job'[j] = v
    BY <1>4 DEF InsertNotice, TInv, TypeOK
  <2>4. notices' \in [Account -> Nat]
    BY <1>4, <2>1 DEF InsertNotice, TInv, TypeOK, JobShape
  <2> HIDE DEF v
  <2>5. JobShape(j)'
    BY <1>4, <2>1, <2>2, <2>3 DEF InsertNotice, JobShape, Exists
  <2>6. QED
    BY <1>4, <2>2, <2>3, <2>4, <2>5, OneJob DEF InsertNotice, TInv, TypeOK
<1>5. ASSUME NEW j \in Job, MarkReminded(j) PROVE TInv'
  <2> DEFINE a == job[j].account
             r == [sub[a] EXCEPT !.reminded = sub[a].charge]
  <2>1. a \in Account /\ Exists(a) /\ sub[a] \in Subscription
    BY <1>5 DEF MarkReminded, TInv, TypeOK, Shapes, JobShape
  <2>2. /\ sub[a].order # NoOrder /\ sub[a].charge \in Date
        /\ sub[a].order \in Monthly \cap reported
    BY <2>1 DEF Exists, TInv, Shapes, RenewsWhatWasPaid
  <2>3. r \in Subscription /\ r.order = sub[a].order /\ r.charge = sub[a].charge
    BY <2>1 DEF Subscription
  <2>4. sub' = [sub EXCEPT ![a] = r]
    BY <1>5, <2>1 DEF MarkReminded, TInv, TypeOK, Subscription
  <2>5. call' \in [Connection -> Call] /\ \A c \in Connection : CallShape(c)'
    BY <1>5 DEF MarkReminded, TInv, TypeOK, Shapes, CallShape
  <2>6. /\ job' \in [Job -> JobRun]
        /\ \A i \in Job : job'[i] = job[i] \/ job'[i] = [job[i] EXCEPT !.pc = "next"]
    BY <1>5 DEF MarkReminded, TInv, TypeOK, JobRun
  <2>7. UNCHANGED <<reported, order, reminders, notices, told, now, crashes>>
    BY <1>5 DEF MarkReminded
  <2> HIDE DEF r, a
  <2>8. QED
    BY <2>1, <2>2, <2>3, <2>4, <2>5, <2>6, <2>7, OneRow
<1>6. QED
  BY <1>1, <1>2, <1>3, <1>4, <1>5 DEF JobNext, JobStep

LEMMA OtherStep ==
  ASSUME TInv, Crash \/ Tick \/ UNCHANGED vars
  PROVE  TInv'
<1>1. CASE Crash
  <2>1. TypeOK'
    BY <1>1, Empty, BoundAssumption DEF Crash, tableVars, TInv, TypeOK
  <2>2. Shapes'
    BY <1>1
    DEF Crash, tableVars, TInv, Shapes, CallShape, JobShape, NoCall, NoRun, Exists
  <2>3. QED
    BY <1>1, <2>1, <2>2 DEF Crash, tableVars, TInv, RenewsWhatWasPaid, Exists
<1>2. CASE Tick
  <2>1. TypeOK'
    BY <1>2, TimeAssumption DEF Tick, tableVars, TInv, TypeOK, Time
  <2>2. QED
    BY <1>2, <2>1
    DEF Tick, tableVars, TInv, Shapes, CallShape, JobShape, RenewsWhatWasPaid, Exists
<1>3. CASE UNCHANGED vars
  BY <1>3
  DEF vars, TInv, TypeOK, Shapes, CallShape, JobShape, RenewsWhatWasPaid, Exists
<1>4. QED
  BY <1>1, <1>2, <1>3

THEOREM TInvariant == Spec => []TInv
<1>1. Init => TInv
  BY TInit
<1>2. TInv /\ [Next]_vars => TInv'
  BY OrderStep, SubscriptionStep, JobRunStep, OtherStep DEF Next
<1>3. QED
  BY <1>1, <1>2, PTL DEF Spec

\* Every table keeps its columns and their types, whatever calls and jobs
\* interleave and wherever the process stops.
THEOREM TypeCorrect == Spec => []TypeOK
BY TInvariant, PTL DEF TInv

\* A subscription belongs to a monthly order the provider reported opened.
THEOREM RenewsOnlyPaid == Spec => []RenewsWhatWasPaid
BY TInvariant, PTL DEF TInv

-----------------------------------------------------------------------------
(* The date of a failure *)

\* The first failure dates a failed charge until a new order opens.
THEOREM FirstFailureStays == Spec => FirstFailureKept
<1>1. ASSUME TInv, [Next]_vars, NEW a \in Account,
             sub[a].failed # Never, sub'[a].failed # sub[a].failed
      PROVE  sub'[a].failed = Never
  <2>1. sub \in [Account -> Subscription] /\ sub' # sub
    BY <1>1 DEF TInv, TypeOK
  <2>2. ASSUME NEW c \in Connection, OpenMonthlySubscription(c)
        PROVE  sub'[a].failed = Never
    BY <1>1, <2>1, <2>2 DEF OpenMonthlySubscription, NoSubscription
  <2>3. ASSUME NEW b \in Account, NEW on \in BOOLEAN, SetAutoRenew(b, on)
        PROVE  sub'[a].failed = sub[a].failed
    BY <2>1, <2>3 DEF SetAutoRenew, Subscription
  <2>4. ASSUME NEW c \in Connection, RecordFailure(c)
        PROVE  sub'[a].failed = sub[a].failed
    BY <1>1, <2>1, <2>4 DEF RecordFailure, Subscription, FailedAt
  <2>5. ASSUME NEW j \in Job, MarkReminded(j)
        PROVE  sub'[a].failed = sub[a].failed
    BY <2>1, <2>5 DEF MarkReminded, Subscription
  <2>6. \/ \E c \in Connection : OpenMonthlySubscription(c) \/ RecordFailure(c)
        \/ \E b \in Account, on \in BOOLEAN : SetAutoRenew(b, on)
        \/ \E j \in Job : MarkReminded(j)
    BY <1>1, <2>1
    DEF Next, vars, OrderNext, SubscriptionNext, JobNext, JobStep, Crash, Tick,
        Create, ProviderResult, UpdateOrder, ChargeFailure, TellFailure, CallFails,
        StartJob, NextDue, InsertReminder, InsertNotice, tableVars
  <2>7. QED
    BY <1>1, <2>2, <2>3, <2>4, <2>5, <2>6
<1>2. TInv /\ [Next]_vars =>
        [\A a \in Account :
           sub[a].failed # Never /\ sub'[a].failed # sub[a].failed
             => sub'[a].failed = Never]_vars
  BY <1>1
<1>3. QED
  BY <1>2, TInvariant, PTL DEF Spec, FirstFailureKept

-----------------------------------------------------------------------------
(* Notices *)

AppRows(a) == {r \in reminders : r[1] = a /\ r[3] = "app"}

\* The jobs that have recorded an app reminder and not told the account yet.
Owing(a) == {j \in Job : /\ job[j].account = a /\ job[j].app
                         /\ job[j].pc \in {"insert", "notice"}}

Debts ==
  /\ IsFiniteSet(reminders)
  /\ \A a \in Account :
       notices[a] + Cardinality(Owing(a)) <= Cardinality(AppRows(a))

LEMMA Finite ==
  ASSUME IsFiniteSet(reminders), NEW a
  PROVE  /\ IsFiniteSet(AppRows(a)) /\ Cardinality(AppRows(a)) \in Nat
         /\ IsFiniteSet(Owing(a)) /\ Cardinality(Owing(a)) \in Nat
<1>1. AppRows(a) \subseteq reminders /\ Owing(a) \subseteq Job
  BY DEF AppRows, Owing
<1>2. IsFiniteSet(AppRows(a)) /\ IsFiniteSet(Owing(a))
  BY <1>1, BoundAssumption, FS_Subset
<1>3. QED
  BY <1>2, FS_CardinalityType

\* A step that owes nothing new and takes no row away.
LEMMA NoNewDebt ==
  ASSUME TInv, Debts, UNCHANGED <<reminders, notices>>,
         \A a \in Account : Owing(a)' \subseteq Owing(a)
  PROVE  Debts'
<1>1. ASSUME NEW a \in Account
      PROVE  notices'[a] + Cardinality(Owing(a)') <= Cardinality(AppRows(a)')
  <2>1. IsFiniteSet(Owing(a)) /\ Cardinality(Owing(a)) \in Nat
        /\ Cardinality(AppRows(a)) \in Nat
    BY Finite DEF Debts
  <2>2. Cardinality(Owing(a)') \in Nat
        /\ Cardinality(Owing(a)') <= Cardinality(Owing(a))
    BY <2>1, FS_Subset, FS_CardinalityType
  <2>3. AppRows(a)' = AppRows(a)
    BY DEF AppRows
  <2>4. QED
    BY <2>1, <2>2, <2>3 DEF Debts, TInv, TypeOK
<1>2. QED
  BY <1>1 DEF Debts

LEMMA DebtsInit == Init => Debts
<1>1. SUFFICES ASSUME Init PROVE Debts
  OBVIOUS
<1>2. ASSUME NEW a \in Account PROVE Owing(a) = {} /\ AppRows(a) = {}
  BY <1>1 DEF Init, NoRun, Owing, AppRows
<1>3. QED
  BY <1>1, <1>2, FS_EmptySet DEF Init, Debts

\* The row the job inserts is new or the job owed nothing and still owes nothing.
LEMMA DebtsReminder ==
  ASSUME TInv, Debts, NEW j \in Job, InsertReminder(j)
  PROVE  Debts'
<1> DEFINE b   == job[j].account
           row == <<b, sub[b].charge, Channels[job[j].next]>>
           app == RecordedApp(j, row)
<1>1. /\ job[j] \in JobRun /\ job[j].pc = "insert" /\ b \in Account
      /\ notices \in [Account -> Nat]
  BY DEF InsertReminder, TInv, TypeOK, Shapes, JobShape
<1>2. /\ reminders' = reminders \cup {row} /\ notices' = notices
      /\ job'[j].account = b /\ job'[j].app = app
      /\ app => job'[j].pc \in {"insert", "notice"}
      /\ \A i \in Job : i # j => job'[i] = job[i]
  BY <1>1 DEF InsertReminder, TInv, TypeOK, JobRun
<1>3. app <=> job[j].app \/ (row[3] = "app" /\ row \notin reminders)
  BY DEF RecordedApp
<1>4. row[1] = b
  OBVIOUS
<1> HIDE DEF app, row
<1>5. IsFiniteSet(reminders')
  BY <1>2, FS_AddElement DEF Debts
<1>6. ASSUME NEW a \in Account
      PROVE  notices'[a] + Cardinality(Owing(a)') <= Cardinality(AppRows(a)')
  <2>1. /\ IsFiniteSet(Owing(a)) /\ Cardinality(Owing(a)) \in Nat
        /\ IsFiniteSet(AppRows(a)) /\ Cardinality(AppRows(a)) \in Nat
        /\ notices[a] + Cardinality(Owing(a)) <= Cardinality(AppRows(a))
        /\ notices[a] \in Nat
    BY <1>1, Finite DEF Debts
  <2>2. AppRows(a) \subseteq AppRows(a)' /\ IsFiniteSet(AppRows(a)')
    <3>1. AppRows(a) \subseteq AppRows(a)' /\ AppRows(a)' \subseteq reminders'
      BY <1>2 DEF AppRows
    <3>2. QED
      BY <1>5, <3>1, FS_Subset
  <2>3. Cardinality(AppRows(a)) <= Cardinality(AppRows(a)')
        /\ Cardinality(AppRows(a)') \in Nat
    BY <2>2, FS_Subset, FS_CardinalityType
  <2>4. CASE Owing(a)' = Owing(a)
    BY <1>2, <2>1, <2>3, <2>4
  <2>5. CASE Owing(a)' # Owing(a)
    <3>1. /\ a = b /\ app /\ ~job[j].app
          /\ j \notin Owing(a) /\ Owing(a)' = Owing(a) \cup {j}
      BY <1>1, <1>2, <1>3, <2>5 DEF Owing
    <3>2. row \notin AppRows(a) /\ AppRows(a)' = AppRows(a) \cup {row}
      BY <1>2, <1>3, <1>4, <3>1 DEF AppRows
    <3>3. Cardinality(Owing(a)') = Cardinality(Owing(a)) + 1
      BY <2>1, <3>1, FS_AddElement
    <3>4. Cardinality(AppRows(a)') = Cardinality(AppRows(a)) + 1
      BY <2>1, <3>2, FS_AddElement
    <3>5. QED
      BY <1>2, <2>1, <3>3, <3>4
  <2>6. QED
    BY <2>4, <2>5
<1>7. QED
  BY <1>5, <1>6 DEF Debts

\* The notice settles the debt of the job that inserts it.
LEMMA DebtsNotice ==
  ASSUME TInv, Debts, NEW j \in Job, InsertNotice(j)
  PROVE  Debts'
<1> DEFINE b == job[j].account
<1>1. /\ job[j].pc = "notice" /\ b \in Account /\ notices \in [Account -> Nat]
      /\ job \in [Job -> JobRun]
      /\ notices' = [notices EXCEPT ![b] = @ + 1]
      /\ job' = [job EXCEPT ![j].pc = "mark"] /\ reminders' = reminders
  BY DEF InsertNotice, TInv, TypeOK, Shapes, JobShape
<1>2. job'[j].pc = "mark" /\ \A i \in Job : i # j => job'[i] = job[i]
  BY <1>1 DEF JobRun
<1>3. job[j].app
  BY <1>1 DEF TInv, Shapes, JobShape
<1>4. ASSUME NEW a \in Account
      PROVE  notices'[a] + Cardinality(Owing(a)') <= Cardinality(AppRows(a)')
  <2>1. /\ IsFiniteSet(Owing(a)) /\ Cardinality(Owing(a)) \in Nat
        /\ Cardinality(AppRows(a)) \in Nat
        /\ notices[a] + Cardinality(Owing(a)) <= Cardinality(AppRows(a))
        /\ notices[a] \in Nat
    BY <1>1, Finite DEF Debts
  <2>2. AppRows(a)' = AppRows(a)
    BY <1>1 DEF AppRows
  <2>3. CASE a # b
    <3>1. Owing(a)' = Owing(a) /\ notices'[a] = notices[a]
      BY <1>1, <1>2, <2>3 DEF Owing
    <3>2. QED
      BY <2>1, <2>2, <3>1
  <2>4. CASE a = b
    <3>1. j \in Owing(a) /\ Owing(a)' = Owing(a) \ {j}
      BY <1>1, <1>2, <1>3, <2>4 DEF Owing
    <3>2. Cardinality(Owing(a)') = Cardinality(Owing(a)) - 1
      BY <2>1, <3>1, FS_RemoveElement
    <3>3. notices'[a] = notices[a] + 1
      BY <1>1, <2>4
    <3>4. QED
      BY <2>1, <2>2, <3>2, <3>3
  <2>5. QED
    BY <2>3, <2>4
<1>5. QED
  BY <1>1, <1>4 DEF Debts

LEMMA DebtsJob ==
  ASSUME TInv, Debts, JobNext
  PROVE  Debts'
<1>1. job \in [Job -> JobRun]
  BY DEF TInv, TypeOK
<1>2. ASSUME NEW j \in Job, StartJob(j) PROVE Debts'
  BY <1>1, <1>2, NoNewDebt DEF StartJob, tableVars, NoRun, Owing
<1>3. ASSUME NEW j \in Job, NextDue(j) PROVE Debts'
  <2>1. PICK v \in {NoRun} \cup
               {[NoRun EXCEPT !.pc = "insert", !.account = a,
                              !.todo = job[j].todo \ {a}] : a \in job[j].todo} :
          job' = [job EXCEPT ![j] = v]
    BY <1>3 DEF NextDue
  <2>2. v.app = FALSE
    <3>1. NoRun.app = FALSE
      BY DEF NoRun
    <3>2. ASSUME NEW a \in job[j].todo,
                 v = [NoRun EXCEPT !.pc = "insert", !.account = a,
                                   !.todo = job[j].todo \ {a}]
          PROVE  v.app = FALSE
      BY <3>2 DEF NoRun
    <3>3. QED
      BY <3>1, <3>2
  <2>3. UNCHANGED <<reminders, notices>>
    BY <1>3 DEF NextDue, tableVars
  <2>4. \A a \in Account : Owing(a)' \subseteq Owing(a)
    BY <1>1, <2>1, <2>2 DEF Owing
  <2>5. QED
    BY <2>3, <2>4, NoNewDebt
<1>4. ASSUME NEW j \in Job, MarkReminded(j) PROVE Debts'
  <2>1. /\ job'[j].pc = "next" /\ UNCHANGED <<reminders, notices>>
        /\ \A i \in Job : i # j => job'[i] = job[i]
    BY <1>1, <1>4 DEF MarkReminded, JobRun
  <2>2. \A a \in Account : Owing(a)' \subseteq Owing(a)
    BY <2>1 DEF Owing
  <2>3. QED
    BY <2>1, <2>2, NoNewDebt
<1>5. QED
  BY <1>2, <1>3, <1>4, DebtsReminder, DebtsNotice DEF JobNext, JobStep

LEMMA DebtsOther ==
  ASSUME TInv, Debts, OrderNext \/ SubscriptionNext \/ Crash \/ Tick \/ UNCHANGED vars
  PROVE  Debts'
<1>1. UNCHANGED <<reminders, notices>> /\ (job' = job \/ job' = [j \in Job |-> NoRun])
  BY DEF OrderNext, SubscriptionNext, Crash, Tick, vars, tableVars, Create,
         ProviderResult, UpdateOrder, OpenMonthlySubscription, SetAutoRenew,
         ChargeFailure, RecordFailure, TellFailure, CallFails
<1>2. \A a \in Account : Owing(a)' \subseteq Owing(a)
  BY <1>1 DEF Owing, NoRun
<1>3. QED
  BY <1>1, <1>2, NoNewDebt

\* Overlapping and restarted jobs tell an account of a renewal at most once for
\* each app reminder on record.
THEOREM NoticesAreBacked == Spec => []NoticesBacked
<1>1. Init => Debts
  BY DebtsInit
<1>2. TInv /\ Debts /\ [Next]_vars => Debts'
  BY DebtsJob, DebtsOther DEF Next
<1>3. TInv /\ Debts => NoticesBacked
  <2>1. ASSUME TInv, Debts, NEW a \in Account
        PROVE  notices[a] <= Cardinality(AppRows(a))
    <3>1. Cardinality(Owing(a)) \in Nat /\ Cardinality(AppRows(a)) \in Nat
      BY <2>1, Finite DEF Debts
    <3>2. QED
      BY <2>1, <3>1 DEF Debts, TInv, TypeOK
  <2>2. QED
    BY <2>1 DEF NoticesBacked, AppRows
<1>4. QED
  BY <1>1, <1>2, <1>3, TInvariant, PTL DEF Spec

=============================================================================
