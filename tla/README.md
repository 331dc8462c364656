# Formal models of the desktop-sharing services

This directory holds TLA+ models of the remote desktop system in `src/`: the
control plane (TypeScript over PostgreSQL), the relay and signalling services
(Rust), and the desktop programs that use them. The models are checked with TLC
on small instances; the theorems are proved with TLAPS for every value of the
constants. `PROJECT.json` maps each definition to the source lines it models and
lists the runs, the hazards, the findings and the theorems.

## 1. Inventory

| Component | State | Operations | What is hard | What makes it correct |
|---|---|---|---|---|
| **Relay tickets and metering** `session-service.ts`, `relay-directive.ts` | `relay_tickets`, `relay_grants`, `relay_ledger`, `relay_heartbeats`, `remote_sessions.state` | admit, heartbeat (check, deduct, decide, rotate), issueRelayFields, ensureFreeGrant | READ COMMITTED transactions that read before they lock; repeated and late heartbeats; rollback of refusals; stops in between | one live ticket per session; a heartbeat is charged once, only while active; overdraw is bounded; a stopped or dry session loses its relay |
| **Session opening, consent, stop** `session-service.ts`, `account-service.ts` | `remote_sessions`, `web_grant_codes`, `host_devices.accepting_connections` | requestSession, redeemWebGrant, consent, rejectIncoming, takeHostRelayTicket, stopControlled | concurrent requests, rings of row locks, codes redeemed twice, three unrelated statements in stopControlled, tickets that expire while the owner decides | limits hold; nobody is let in unasked; a code opens one session; a ticket is handed out once; requests are answered |
| **Relay pairing and pump** `services/relay/src/main.rs` | `App.pending`, one thread and channel per connection, the pump's ticket and byte count | accept_side, pump, report | a wait that times out while the other side is being sent; reconnects of a dead side; a control plane that does not answer | only matching sides are joined; no connection is lost; no side hangs |
| **Orders, subscriptions** `order-service.ts` | `orders`, `subscriptions`, `renewal_reminders` | create, transitionOrder, recordChargeFailure, setAutoRenew, remindDueRenewals | repeated and reordered callbacks, statements without a transaction, a stop half way | an opened order has its subscription and stays opened; a failed charge is told once |
| **Accounts** `account-service.ts` | `accounts`, `login_sessions`, `host_devices`, `verification_challenges` | register, login, refresh, forgotPassword, deletion, device quota, maintenance | counters read before a slow hash, checks outside the statement that writes, maintenance beside user requests | five failures lock; a recovery code works once; a deleted account stays deleted; the quota holds |
| **Operations** `ops-service.ts` | `staff_accounts`, `compensation_approvals` | compensate, approveCompensation, setBan, sign-in with a one-time code | two approvals at once, a stop between approval and grant | a compensation is granted once, by two people |
| **Signalling** `services/signal`, `crates/signal-client` | rooms in memory with a time to live | join; clients poll it | offers of an earlier attempt | the two sides see each other's latest candidates |
| **Direct link** `crates/direct-client`, `crates/session-core` | keys, nonce counters, unfinished messages | probe, handshake, send_frame, try_recv_frame | loss, duplication and reordering; a handshake that ends on one side only | an end that holds a link holds the one the other has chosen; no end is left on the relay |
| **Relay client, wire formats** `crates/relay-client`, `crates/session-core` | a read buffer | framing | – | decoders invert encoders |
| **Web relay bridge** `web-relay-bridge.ts` | one WebSocket, one TLS socket | bridgeClient | events during an await | both sockets close together |
| **Desktop host** `apps/desktop-host` | a model behind a mutex, timers, a confirmation window, relay, direct and punch threads | poll_incoming, allow_once, refuse, stop_now, toggle_accept, poll_host_attach, run_host_relay, run_host_direct | state copied out of the mutex before a request and used after it; threads that outlive the owner's click | one session at a time; the owner's answer is about the session shown; a stop ends the relay |
| **Screen capture and encoding** `apps/desktop-host` capture, encoders, keyframe schedule | the duplication, the last picture's hash, the encoder and its last reference | grab, encode, replace an encoder, force a keyframe, fall back to JPEG | an encoder that fails in mid-stream; a picture that counts as sent and was not; lost datagrams | references hold over the relay; the resting screen is shown or a named step failed on it; damage heals |
| **Desktop controller** `apps/desktop-controller` | the window, the geometry of the picture, the input channel, the session thread | clicks, keys, fullscreen, meter, consent wait, the two session loops | presses and releases across a change of link and of window; integer scaling | nothing stays pressed unaccounted for; a click lands where it points |
| **Host windows and layout** `ui_d2d.rs`, `ui_chrome.rs` | – | drawing, rectangles | – | – |
| **Mobile app, web pages** | screens | HTTP requests | – | – |
| **HTTP, configuration, schema, passwords** | – | parsing, routing, hashing | – | – |

How they interact. A controller asks the control plane for a session and gets a
relay ticket; the host's owner consents; the host polls for the same ticket. Both
connect to the relay and present it. The relay pairs them, has the ticket
admitted by the control plane, forwards bytes, and every 30 s reports them in a
heartbeat whose answer carries the next ticket or stops the relay. Meanwhile both
sides may find each other through the signalling service and move to a direct
link. The control plane's transactions meet only in the database: in row locks,
and in what a statement sees as committed.

## 2. Modules

| Module | Models | Composes with |
|---|---|---|
| `MeteredSession` | abstract: what a session promises the account that pays for it: a life, the reports that count, the bytes charged | – |
| `RelayTickets` | admit, heartbeat and the ledger as transactions on database connections, the pumps that send heartbeats, and every statement of a session's life that touches tickets | implements `MeteredSession`; the pump of `RelayPairing` starts at `AdmitLoad` |
| `SessionOpening` | the two ways to open a session, the host's answers, the stop | a session that leaves it `active` is one of `RelayTickets` |
| `Rendezvous` | abstract: how the sides of tickets meet, are served and part, without threads, table and channels | – |
| `RelayPairing` | the relay's table of waiting sides and its threads | implements `Rendezvous`; `Admitted`/`Refused` are the outcome of `RelayTickets`' admission |
| `OrderLifecycle` | orders, the monthly subscription, failed charges and reminders, statement by statement | – |
| `HostDesktop` | the shared machine's program: its window thread, its calls, its relay and punch threads | its calls are methods of `SessionOpening`; its fairness of the relay is `StoppedRelayEnds` of `RelayTickets` |
| `LinkHandover` | abstract: what the two ends of a session may count on while it moves from the relay to a direct link | – |
| `DirectUpgrade` | signalling rooms, probing, the handshake over a bad network, the hand-over at both ends | implements `LinkHandover`; its end `host` is a thread of `HostDesktop`, its end `controller` one of `ControllerWindow` |
| `ScreenStream` | a picture's way from the screen through grabber, encoders and links to the controller's window | rides on the links of `DirectUpgrade` |
| `ControllerWindow` | the controlling machine's program: window thread, geometry, session thread, and the host's injection of its input | as `ScreenStream`, in the other direction |
| `MC*` | constants, symmetry and instances for TLC | |
| `*_proofs` | theorems and their proofs | |

A definition marked "mutant" in a module is a plausible mistake in the code that
the definition beside it models; the specification does not use it. It is what the
mutants of `PROJECT.json` put in the place of the right one.

### MeteredSession and RelayTickets

A database row is a record in a function over its key; the rows of one table are
one variable. `txn[w]` is the transaction a database connection is running:
`pc` says between which statements it is, the other fields are what the method
holds in local variables. Steps are cut where another transaction can come
between: before a row lock is granted, and between a plain read and the write
that relies on it.

* `admit` is `AdmitLoad` (a SELECT without a lock) and `AdmitCommit` (an UPDATE
  without a condition). The real names and fingerprints it compares always match
  here: pairing is the other module's subject.
* `heartbeat` is `HeartbeatBegin`; then, when the session's row lock is free,
  `HeartbeatReplay`, `HeartbeatRefuse` or `HeartbeatAccept`; then deduct's SELECT
  (`DeductRead`), its wait for the grants' locks (`DeductLock`), and
  `HeartbeatCommit`, which books the ledger rows, decides
  (`StopForBalance`, `StopForRealName`, `RotateTicket`) and commits. `gone` is the
  clock of the transaction: the grants it takes to be expired.
* `DeductRead` keeps the remainders it computed even if it then waits: PostgreSQL
  re-reads a locked row only if that row was changed, and grant rows never are.
* `Deducts` says which ledger rows the loop of `deduct` produces, without the loop:
  a grant gives everything before the next gives anything.
* `HeartbeatRefuse` leaves the session as it is, because `withTransaction` rolls
  back every failure, the UPDATE before it included.
* `Abort` is a lost connection, a failed statement or the end of the process.
* `Open`, `Consent`, `RejectIncoming`, `StopRevoke`, `StopClose` are what the
  methods of `SessionOpening` do to these rows.
* Whether a real name is asked for, and whether a new account's free grant is
  frozen, are free choices: they depend on tables that are not modelled.
* The pump sends a heartbeat and waits. A request it gave up on stays in `sent`
  and may still arrive, or arrive twice.

`MeteredSession` is the promise without tickets, grants, connections and relays:
a session opens once, is charged only while it is active, each report counts for one
session and charges at most what it says, only a report leaves a session dry, and what
is over stays over. `Metering == INSTANCE MeteredSession` maps `life` to the session's
state (`LifeOf`: closed and rejected are both over), `report` to the recorded heartbeats
without their answers (`ReportOf`), and `paid` to `charged`. The three are written by
different statements of different transactions; that a charge and its
report appear in one step is the commit of `heartbeat`.

### SessionOpening

`requestSession` and `redeemWebGrant` share the steps of
`openControllerSession`: `LockAccount`, `LoadHost`, `CheckLimits` (the limits and
the query for a prior session), `LockOwner` and `InsertSession` (the rest and COMMIT).
`LockOwner` is the foreign key of the INSERT: `host_account_id` references `accounts`, so
the row of the host's owner is locked FOR KEY SHARE (`KeySharers`) and the INSERT waits
while a request of that owner holds it FOR UPDATE. Requests of two accounts for each
other's hosts then wait in a `Ring`, which `BreakDeadlock`, PostgreSQL's deadlock
detection, ends by failing one of them. A failure is `Finish` without a write. `stopControlled` is three actions, since its
statements commit one by one. `agreed` and `redeemed` are the audit rows
`remote_session.consent` and `web_grant.redeem`; `handed` counts the answers of
`takeHostRelayTicket` that carried a ticket. Checks before the transaction (the
login, the disclosure, formats) have no state and are passed.

### Rendezvous and RelayPairing

`pending[t]` is whose sender is in the table under a ticket, `inbox[s]` the
connection in a side's channel. A thread that waited too long is `late` until it
has the mutex again: that gap is the interesting one. Dropping a thread or a
channel closes the connection it holds, as ownership does in Rust.

`Rendezvous` has only how far each side is (`stage`), what it said, and who met whom.
`Meeting == INSTANCE Rendezvous` maps them: a side waits while its thread has nobody in
its channel, two have met from the send on (`PairsOf`), whether or not the receiving
thread has noticed or is already about to give up, and they are served when that
thread pumps. What a late `pending.remove` breaks is not promised there: in `Rendezvous`,
too, a side may wait beside a matching one.

### OrderLifecycle

None of these methods opens a transaction, so every statement is a step:
`call[c]` is a request between two of its statements, with what its SELECT
returned, and `job[j]` a run of `remindDueRenewals`. `ProviderResult` is
`transitionOrder` up to the SELECT (with the answers that need no write),
`UpdateOrder` and `OpenMonthlySubscription` its two writes. `ChargeFailure`,
`RecordFailure` and `TellFailure` are `recordChargeFailure`. A date is the tick at
which the code took it. `CallFails` is a statement that fails; `Crash` ends
everything, as does a rejected reminder job, which nobody catches. `reported` is
not a table: it remembers what the provider said. Left out are amounts, the words
of a notice, invoices, and the yearly plan's entitlement, which no table holds.

### HostDesktop

The program keeps one `Model` behind a mutex, `model` here. A handler of the
window thread that calls the control plane does three things: it changes the
Model, calls with the lock released, and finishes with the answer. That is two
steps (`stop_now` and `FinishStop`, `allow_once` and `FinishAllow`, `refuse` and
`FinishRefuse`, `toggle_accept` and `FinishAccept`, and the timer's `poll_incoming`
and `poll_host_attach`); `ui` holds the call between them and what the handler
copied out of the lock. The other threads run in between, and the window thread
itself handles nothing else (`Idle`). `shown` remembers for which session each
confirm window was opened, since a window can outlive the request it shows.

`thread[r]` is a relay thread with its punch thread: `Connect`, `EnterLoop`,
`RefreshMedia`, `SwitchToDirect`, `Finish`, `PunchReturns`. A relay that cannot be
reached leaves the thread `failed` and the ticket set, as the code does. `inject`
is the static flag that lets input through. `Restart` is the tray's exit or a crash
with the next start: the control plane keeps what it has. The control plane is
four variables that show of `SessionOpening` what the host's calls can see; every
call may be lost, or served with its answer lost. The status line is one of seven
values: texts that the owner and the program do not tell apart are one.

### LinkHandover and DirectUpgrade

`LinkHandover` is the promise, in one variable: each end's carrier is the relay,
then perhaps a direct link, then nothing; an end never comes back, and one that is
alone on the relay leaves it in the end (`Follow` is fair).

`DirectUpgrade` has both ends with a loop and a punch thread each. `offer` is what an
end left in its signalling room, which ages (`stale`, then gone), so that one end
may probe the addresses of an attempt that is over. A packet is on a path; the network may
lose it, delay it past later ones, and deliver what is sent again and again more
than once (`net` is a set, and a sender sends while it waits). `ProbeReads` chooses the path on which
any packet of the other comes; `ShakeReads` ends the handshake on the first hello on
that path; `ShakeFails` is its deadline or an error of its socket, which may come while
the other end still probes. `HandOver` puts the link into the channel the loop looks at,
`SwitchToDirect` is the loop finding it, `RelayLost` the loop finding the relay
gone, perhaps a moment before the link came. `carrier` is the refinement mapping:
it is the loop's own state, and `Handover == INSTANCE LinkHandover WITH End <- End,
carrier <- carrier`.

### ScreenStream

`grab_jpeg_frame` is once round the host's loop: read the screen (`ReadBy`, with a
duplication that is clean, owes a picture, or was lost to GDI), leave out a picture
whose hash is known, encode it, send what came out. An encoder is its keyframe
schedule (`index`, `force`) and the last picture it coded; `MfEncode` has the ways Media
Foundation gives nothing or throws away a picture that comes late (`AfterThrown`),
`H264Encoder`'s replacement by OpenH264 follows, and a picture nobody could code
goes as JPEG, unless that fails too (`unsent`). The backend `deaf` is a Media Foundation
encoder without ICodecAPI, which takes no request for a keyframe; the code goes on without.

A coded picture carries its number and its reference's. The controller has two decoders,
`dec.mf` and `dec.soft`, each with a last picture of its own. `MfDecode` may decline a
picture, keep it back, or give an older one; only when it gives nothing is the same
picture put to `SoftDecode` (`Decoded`), which has then missed every picture that the
first gave. A picture decodes on the right reference only, else what is seen is `Wrong`;
when neither decoder gives anything the window keeps what it shows (`given`). The relay
keeps the order; datagrams overtake each other (`apply_video_frame(i)`) or are lost
(`LoseDatagram`), any number of them. A frame that is repeated is not modelled here: to a
decoder its copy is a picture on the wrong reference, as after a loss.

### ControllerWindow

The window thread's messages are actions: `ButtonDown`, `ButtonUp`, `KeyDown` (again and
again while the key is held), `KeyUp`, `SysKeyDown` and `SysKeyUp` (with Alt down, when
the messages go to `DefWindowProcW`), a timer that hides the toolbar, the meter with its poll. What they decide by is
the code's geometry, on sizes and points given as integers: toolbar buttons,
letterboxed picture, fullscreen. `queue` is the channel to the session thread,
`wire` what is under way, `pressed` what the shared machine holds down after
`apply_input`. The session thread is `start_remote_if_configured`, `AwaitConsent`
(polls up to `MaxPoll`), `Connect`, the two loops with `SendInput`, the switch to
the direct link and the end. `excuse` is a ghost variable: it remembers for which
buttons and keys the program let a release go on purpose, lost it with a link, or had it
injected before a press of the same key. On the direct link events may be lost,
overtaken, and repeated (`RepeatDatagram`): an event fits in one chunk, `take_complete`
forgets a message it has put together, and the cipher opens the copy.

## 3. Runs

| Run | Question | Bounds |
|---|---|---|
| `ledger` | Is what is charged right when two sessions of an account charge at once? | 2 sessions, 2 grants of 1 and 2, 2 heartbeats of 2 bytes, 2 connections, 2 pumps, 2 tickets |
| `live` | Does a session keep one ticket, stay metered as promised (refinement), and lose its relays? (fair) | 1 session, 1 grant of 4, 4 tickets, 3 heartbeats of 1 byte (2 of them reserved for sessions that are no longer live), 2 connections, 2 pumps |
| `sessions` | Do limits and consents hold, are codes, tickets and requests each served once, and at all? (fair) | 2 accounts with a host each, 2 sessions, 1 ticket, 1 code, 2 connections; 1 channel, 1 session per channel; one owner stops and reopens his host |
| `pairing` | Are the right sides joined, served and closed together (refinement), and is none lost? (fair) | 4 connections, 2 tickets |
| `renewals` | Do subscriptions rest on paid orders, and failures keep their date? | 1 account, 2 monthly orders, 2 connections, 2 ticks, a month of 1, 1 crash |
| `reminders` | Is each renewal told at most once, and marked in the end? (fair) | 2 orders, 1 connection, 2 jobs, 2 channels, 1 tick, 1 crash |
| `host` | Does the program serve one session, answer for what it shows, stop when told, and show who asks? (fair) | 2 sessions, 2 relay threads, 2 confirm windows |
| `upgrade` | Do both ends of a session end up on the same carrier? (refinement, fair) | 2 paths |
| `media` | Do references hold over the relay, is the resting screen shown, and damage healed? (fair) | 2 pictures, a period of 2, 1 frame under way on each link, 8 picture numbers, both sorts of Media Foundation encoder and OpenH264, DXGI with its fall to GDI |
| `window` | Is each press released or excused, and does a click land where it points? (fair) | one button, escape, 1 event queued, 2 under way, 2 polls; the program's own window, a full-HD monitor, a 1366x768 screen captured at two widths |
| `served`, `watched` | two statements of the repository the code does not keep (section 5) | as small as shows it |

Why these bounds are enough to be interesting. Overdraw needs two sessions whose
heartbeats deduct at the same time from a grant smaller than both: sizes 1 and 2
against 2 bytes give exact fit, straddling and shortage. Two connections are two
transactions at once; duplicates and stale admissions need no more. Four
tickets and three heartbeats let a session be issued a ticket, rotate it, and be rotated
once more while the host stops it (a fifth ticket and a fourth heartbeat add no state).
The grant outlasts the heartbeats of `live`, so that a relay which should end does not
end for want of bytes: there a session runs dry when its grant expires, in
`ledger` by being charged. In `sessions` the second account is the stranger, two hosts are
the least for a ring of requests, and a second session is what a limit of one has to refuse; the theorems hold for any
limits. Four connections on one ticket are the least
for a late side to remove another's entry. Two orders of one account replace its
subscription under a job or a failure report; a second tick gives the
replacement another charge date, and a month of one tick is due from the start.
In `host` a second session is the ticket that comes while one is held and the
request that comes while a window is open, and two threads are one at work and one whose
punch thread has not come back. Two paths let the ends choose differently. In `media`
a period of two has forced, periodic and dependent pictures, and after a loss
every picture up to the next keyframe is wrong. In `window` escape is a key and leaves
fullscreen; two events under way let a release overtake its press, or a copy of it, on the direct
link. The screen's 1366 pixels are no multiple of 16, so that the two ways of capturing
it give different heights (`Captured`).

These guards are not in the code, and each keeps a finite set from blocking a step the
code could take or a counter from growing: `Reserve` (in `MaySend`) and `RowsLeft`
for heartbeats and session rows, `MaxRun` and `MaxWindow` for threads and windows,
`MaxQueue` and `MaxWire` for what is under way, `MaxTime` and `MaxCrash` for the clock and
the stops, `Tended` for the hosts that are stopped and opened again in `sessions`, and
`Ids`: a picture gets the least number that no decoder, encoder or frame under way
refers to (`NextId`), and so many are enough that there always is one.

`RelayPairing.cfg` and `DirectUpgrade.cfg` say `CHECK_DEADLOCK FALSE`: the connections
of the one are finitely many and all may have ended, and in the other both ends may
be through with their session. The other runs check deadlock.

**Fairness.** `RelayFairness`: the pump's loop comes round to its next heartbeat,
because reads time out after 200 ms, and `post_json` gives up after five seconds.
It says nothing of the control plane: its connections may never answer. (A side
that stops reading can block `write_all`; that is listed as a hazard and outside
this model.) `Answering`: a query returns, and row locks are granted in the order
in which they were asked for, hence strong fairness of `LockAccount` and
`LockOwner`; a ring of waiting transactions is found (`BreakDeadlock`). `Fairness`
of `RelayPairing`: a thread that can go on goes on, and `admit` answers or times
out. Nothing makes a client say hello or a pump end.
`Fairness` of `OrderLifecycle`: the hourly timer starts a job while something is due,
statements return, and the provider repeats an `opened` until it is answered. The
clock is not fair: a due renewal has to be marked, not merely to pass.
`HostDesktop`: a call returns or times out (`Finishing`); the timer fires every two
seconds for as long as the program runs, and its calls are not lost for ever (strong
fairness of the two polls, answered); threads are scheduled; and the relay ends
the connections of a session that is not active, which is what `StoppedRelayEnds`
of `RelayTickets` checks. The owner need never click.
`DirectUpgrade`: the loops go round, and every wait of the punch thread has an end
(`JOIN_ROUNDS`, `PROBE_WAIT`, `HS_WAIT`). Nothing is assumed of the network, which may
lose everything. `ScreenStream`: the loops go round while the screen owes them a
picture, and what is on the wire is read. `ControllerWindow`: the session thread goes
round (strong fairness of `SendInput`: copies of datagrams may fill the wire again and
again, and its limit is the model's alone), and the oldest event under way arrives or, as
a datagram, is lost; the user need do nothing.

## 4. Properties

* `OneLiveTicket`: a session never has two tickets that are not revoked.
* `MeteredAsPromised`: the account sees a `MeteredSession`. Among other things a
  heartbeat that was accepted before a stop does not reopen the session, and a
  delivery that is repeated, or comes for another session, counts for nothing.
* `ChargeOnlyWhileActive`: nor is a session charged after its stop.
* `ChargedWithinReported`: at most once per recorded heartbeat, whatever is
  repeated, delayed or rolled back.
* `PaidInFull`: a relay only goes on if its heartbeat was charged in full, across
  grants, except for a balance that arrived while deduct was waiting.
* `OverdrawBound`: the stale read of `deduct` costs at most one heartbeat of every
  other session of the account per grant. (It does happen: with the bound set to
  the grant's size TLC finds two sessions that both take the last byte.)
* `StoppedRelayEnds`, `SurplusRelayEnds`: relays of a stopped session end even if
  their ticket was rotated during the stop; of two relays admitted with one
  ticket, one starves the other.
* `WithinLimits`, `NobodyUninvited`, `OneSessionPerCode`, `HandedOnce`,
  `RequestsAnswered`: the promises of session opening under concurrency. Requests do wait
  for each other in a ring; that is the only way to wait for good, and it is found.
* `MeetsAsPromised`: the connections see a `Rendezvous`: the two that are joined are a
  controller and a host of one ticket, each joined once; they are served together and
  closed together, whichever thread ends; and nobody is turned away but for his own
  side's sake. (`PairsMatch`, the matching alone, is a part of the proof's invariant.)
* `TwoSidesMeet`, `NoSideHangs`: no two matching sides wait in vain, and none hangs.
  `TwoSidesMeet` is as strong as the code allows: a late `pending.remove` may hit
  another side's entry, but only after a timeout on that ticket.
* `RenewsWhatWasPaid`, `FirstFailureKept`, `NoticesBacked`, `DueIsMarked`: what the
  order tables keep although no method has a transaction. (What they do not keep:
  an overlapping `confirming` moves an opened order back, and a failure report
  can be written to a subscription that was switched off or replaced meanwhile.)
* `OneSessionAtATime`: at most one thread feeds keyboard and pointer, and it is
  the one whose ticket the program holds, whichever way and whenever tickets come.
* `AnswerHasItsWindow`: the request a click answers for is the one in the window the
  click closes. (Windows can be left over: a click on one answers for the newest
  request and closes that one's window.)
* `StopEndsRelay`: once a stop has arrived, no thread stays on the relay. (A direct
  link is not ended by it: the loop of `run_host_direct` never looks, section 5.)
* `RequestIsShown`: the oldest request comes to be shown, however many before it
  vanished while their windows stood open.
* `LinksAgree`, `MovesAsPromised`: an end that holds a direct link holds the one
  the other chose. It may hold it alone, when the other's attempt failed after that;
  then the session moves on as `LinkHandover` says, and nobody stays on the relay.
* `RelayIntact`: whatever encoder is replaced, whatever goes as JPEG or falls into a
  suspension, each coded picture on the relay refers to the one before it, unless Media
  Foundation's encoder threw that one away; a decoder that missed nothing has the
  reference of what comes next. It is not said that nothing wrong is ever shown: the
  fallback decoder has missed what the first one gave, and a dependent picture put to it
  meets the wrong reference.
* `RestingScreenIsShown`: the resting screen is in the end shown, or one of the two steps
  that the code does not repeat failed on its last picture: neither H.264 nor JPEG could be
  encoded (`unsent`), or the decoders gave nothing for it, an older picture or a wrong one
  (`NotGiven`). The hash is known by then, so that nothing sends it again.
* `DamageHeals`: a wrong picture becomes right again with the next
  periodic keyframe though nobody asks for one, provided the encoder takes
  requests for keyframes at all (`Obeys`), pictures go on going out, and one of the decoders
  gives them.
* `ReleasesAccounted`, `ReleasesArrive`: no button or key stays down on the shared
  machine without a listed reason, above all not by moving to the direct link. The list
  is in the comment of `ReleasesAccounted`; on it are the release with Alt down and the
  copy of a press that comes after its release.
* `LandsWherePointed`: letterbox, scale, alignment and absolute coordinates together
  put the pointer within one pixel of the picture and two of the screen of what the
  user clicked, and never off the screen.

Each has a mutant: the same definition with a plausible mistake (a lock not
taken, a guard dropped, an entry not put back, a flag not reset), which the run then
refutes.

## 5. Findings

Two runs show a statement of the repository that the code does not keep:

* **served** – a process that stops between the order's UPDATE and the
  subscription's INSERT leaves an opened order without a subscription, and the
  provider's repetition does not mend it (`order-service.ts:189-198`).
* **watched** – the owner reads "现在没有人在看你的屏幕。" (`host_hf.rs:14`) while the screen is
  being watched: `refuse` and `toggle_accept` write the idle status without a look
  at the session that runs (`main.rs:612`, `main.rs:504`).

The models contain further divergences that have no run of their own, each as
a behaviour the code has and the properties allow for:

* A ticket can be admitted twice (`session-service.ts:805-814`), though the code
  answers "票据不能重复接入" to the second; `SurplusRelayEnds` shows what limits the
  damage.
* The UPDATE to `relay_stopped` of a refused heartbeat is rolled back
  (`session-service.ts:868`, by the failure at 871).
* A request in flight opens a session on a host that was just stopped, and a stop
  that finds a direct link does not end it (`w2-被控端.html:146` says that one click
  closes the host entirely).
* An owner who takes longer than the ticket's 90 s consents to a relay for which no
  ticket can be taken (`session-service.ts:1005`).
* A stop clears the flag that lets input through, and a relay thread that is
  connecting at that moment sets it again before its loop (`main.rs:763`).
* The first lines of `signal-client/src/lib.rs` say that a failed direct link
  leaves the session on the relay; once one end has switched and the link then fails,
  the session is over.
* The comment at `capture.rs:73` says that the next picture after a request is a forced
  IDR. A Media Foundation encoder without ICodecAPI takes no such request, from the
  controller or from the schedule, and sends dependent pictures; on a direct link
  damage can then stay, which is why `DamageHeals` has the condition `Obeys`.
* `capture.rs:100` remembers a picture before it is encoded and sent; if that fails (106), or
  the controller's decoders give nothing (`desktop-controller/src/main.rs:1040`), a screen
  that rests from then on is not sent again.
* A key let go while Alt is down, or whose press a datagram repeats after its release,
  stays pressed on the shared machine until it is pressed and let go again.
* A direct link locks the controller's input when the balance is used up
  (`session-service.ts:708-709`), where `w1-控制端-连接与额度.html:779` wants view-only when
  the relay is used up and the direct link has failed.

## 6. Proofs

Every proof module extends its model and holds for all values of the constants that
satisfy the assumptions named there (types, sentinels that are no elements,
bounds that are positive). In each, `Init => IInv`, `IInv /\ [Next]_vars => IInv'`
with one step per action, and the theorem from these by a temporal step.

**RelayTickets_proofs**: `TypeCorrect` (`TypeOK`), `SessionHasOneLiveTicket`
(`OneLiveTicket`), `OnlyActiveSessionsPay` (`ChargeOnlyWhileActive`), `OverdrawIsBounded`
(`OverdrawBound`), `ChargesAreReported` (`ChargedWithinReported`), `ForwardsOnlyPaidBytes`
(`PaidInFull`) and `SessionsAreMetered` (`MeteredAsPromised`). Only the first is inductive
alone. The strengthening for tickets has three named parts. `HeldRows`: a
transaction that is past heartbeat's checks holds its session's row, so that the
session is active and the ticket it read is the only one that can be live.
`Admissions`: no ticket is admitted before the host has answered. `NamedTickets`: a
heartbeat, an admission or a relay connection that names a ticket names an issued one.
The proof of `OneLiveTicket` then has two cases: a ticket is issued only if the session
has no unrevoked one that was not admitted, and rotation revokes what it replaces.

The ledger needs an invariant of its own, `LedgerInv`. `OneRequest`: a heartbeat's id
names one request, whatever is repeated. `NotRecordedYet`: a transaction that is
charging is the first to do so, since it holds the session's row. `Remainders`: what a
connection read of a grant can only be too much. `Claims` is a potential: what a grant
was charged, and the most that every connection may still take from it on the
remainder it read, stay within the bound together. A read is what raises the
second sum; it does so only when something is left, and the connections that are then
inside belong to different sessions (`OthersInside`), which is where the number of
sessions in the bound comes from. A commit turns part of a claim into a charge. For
`PaidInFull` the commit's rows are added up: a grant gives everything before the next
gives anything, so a shortfall leaves no grant with a remainder.

The sums themselves (`SumFunctionOnSet`, a fold in an order it chooses) are reasoned
about without induction over data: a sum is the number of units that the values have
(`SumIsUnits`), shown by taking a least subset for which it would not be, under the
well-founded order of strict inclusion (`LeastSubset`). Splitting, monotony and
the change of one value are then facts about cardinalities. `FinitenessAssumption`
is needed for this: connections, sessions and heartbeat ids are finitely many.

`SessionsAreMetered` is the whole of `Spec => Metering!Spec`: a lemma per action that an
account can see (open, consent, reject, the two halves of a stop, commit), and every
other step leaves the mapped variables alone. That a commit's report is new is
`NotRecordedYet`, that its session is active `HeldRows`, that it charges at most what it
reports is the lemma behind `ChargesAreReported`.

**SessionOpening_proofs**: `TypeCorrect`, `LimitsKept` (`WithinLimits`),
`NobodyEntersUninvited` (`NobodyUninvited`), `CodeOpensOneSession`
(`OneSessionPerCode`), `PlaintextHandedOnce` (`HandedOnce`), for any positive limits.
Each has a strengthening of its own over `TypeOK`. For the limits:
whoever is past the account's lock holds it (`LimitsHeld`), and what it found when it
counted is still so (`Room`), because every other step only lowers the counts of
its account (`RowsAnswered`, `FewerSessions`); the INSERT then adds one where there
is room for one (`OneMoreSession`), which is where the finiteness of `Session` and
`Host` is used. For consent no lock helps, since the prior session is read without
one: `Invitations` holds because agreement, once given, stays on record. For codes
and plaintexts the row locks carry the argument (`CodesHeld`, `TicketsHeld`).

**RelayPairing_proofs**: `TypeCorrect`, `SidesMatch` (`PairsMatch`), `SendReaches`
(`PendingWaits`), `GivenIsNotLost` (`GivenIsHeld`), `SidesMeet` (`TwoSidesMeet`), from
one invariant over the table, the channels and the threads' steps. `Taken` says
that a connection in a channel is no thread's own; `Findable` that a side nobody
was sent to is in the table, unless another of its ticket timed out.
`PendingWaits`, `GivenIsHeld` and `PairsMatch` are parts of the invariant that no run
checks by name. `SidesRendezvous` (`MeetsAsPromised`) is the refinement, with one invariant
more: `Hold`, that the thread which has received a connection holds an open one, so that
the pair ends in one step when that thread ends.

**OrderLifecycle_proofs**: `TypeCorrect`, `RenewsOnlyPaid` (`RenewsWhatWasPaid`),
`FirstFailureStays` (`FirstFailureKept`), `NoticesAreBacked` (`NoticesBacked`).
`Shapes`: what a call or job carries fits its next statement, so an UPDATE to
`opened` and the INSERT behind it are for an order that was reported. `Debts`: each
job between its app reminder and the notice has a reminder of its own on record;
counting them needs that `Job` is finite.

**HostDesktop_proofs**: `TypeCorrect`, `OneSession` (`OneSessionAtATime`),
`AnswersWhatIsShown` (`AnswerHasItsWindow`) and `TicketIsReleased`
(`HeldForAThread`, a part of the invariant). The threads' half is
inductive with `HeldForAThread` and `Running`: a ticket is held only for a thread, so
`remember_relay_ticket` starts one only when none is alive. The windows' half needs
`Asking`: a handler that is about to close a window has taken it out of the Model,
so no poll can put a request into a window that is about to go.

**DirectUpgrade_proofs**: `TypeCorrect`, `LinksMatch` (`LinksAgree`),
`MovesForward` (every step is one of `LinkHandover` or stutters). `HellosMeant`: a
hello under way was sent by an end that has chosen, on the path it chose;
`PathChosen`: whoever shakes hands or did has a path, and keeps it.

**ScreenStream_proofs**: `TypeCorrect`, `NeverGarbled` (`RelayIntact`), `HeldDecodesNext`.
The invariant `RelayChain` is about one picture `d`, the last coded one read off the relay:
each coded picture on the wire refers to the coded picture before it, the first to `d`
(`Chained`); a decoder holds `d` or has missed one; and what the encoder would refer to
next is the last coded picture on the wire (`InStep`). A replaced encoder begins with an
intra picture, a JPEG is no link of the chain, and a picture that was not sent moves
neither. `HeldDecodesNext` draws the conclusion for each of the two decoders: if it
holds a picture at all, it decodes the next coded one rightly.

**ControllerWindow_proofs**: `TypeCorrect`, `PressesAccounted` (`ReleasesAccounted`),
`ClicksLand` (`LandsWherePointed`).
`Followed` says the same of what is under way: behind each press in the channel
or on the wire comes its release, or the user still holds it, or it is excused. A copy
of a datagram keeps this (`Copied`), since what is behind a press is behind its copy; a
release that comes before a copy of its press is excused as it comes.

The geometry of clicks holds in every state, for all sizes of window, picture and screen;
it follows from bounds on one nested division after the other, by integer arithmetic on one axis
that both axes use. `ScreenAssumption` is the one hypothesis: Windows' absolute
coordinates have 65536 values, so a screen of more than 32768 pixels cannot be pointed
at to within two.

Only model-checked, because there are no rules here for fairness and ENABLED: the liveness
properties `StoppedRelayEnds`, `SurplusRelayEnds`, `RequestsAnswered`, `NoSideHangs`,
`DueIsMarked`, `StopEndsRelay`, `RequestIsShown`, `RestingScreenIsShown`, `DamageHeals`,
`ReleasesArrive`, and the fair half of `MovesAsPromised`, whose steps `MovesForward` proves.
`MeteredSession` and `Rendezvous` state no fairness, so the theorems about them are
complete. Every invariant and every safety property of a step that a passing run checks
is proved. The runs `served` and `watched` refute what they check.

## 7. Not modelled

* **Accounts, login, deletion**: single-row updates around password hashing. Three of
  them read before a slow step and write after it; they are listed as a hazard.
* **Operations**: single statements, but for an approval and its grant.
* **Web relay bridge**: 140 lines between a WebSocket and a TLS socket. Its close race
  is listed as a hazard.
* **Trust, real name, reports**: records of what clients say. The prompt they cause is
  a free choice in `RelayTickets`.
* **Token bucket, TLS, relay client**: arithmetic and blocking reads; a relay that
  cannot be written is `LinkBreaks`, `RelayLost`, `LinkEnds` to the models.
* **Wire formats**: encoders and decoders without state. The fragments of a datagram
  frame are lost or late together here. Input that the network repeats is in
  `ControllerWindow`, a repeated frame of video is not modelled.
* **The looks of the host's windows**, COM, GPU and Win32 calls: a failed call is a
  free choice, what is drawn is left out, except where a click hits.
* **The wheel and the pointer's moves**: they press nothing.
* **The mobile app, the web pages, HTTP, configuration, schema, passwords**: input and
  output without interplay.
* In the modelled components: `takePlainTicket`, which no caller reaches; the second
  month's grants; invoices; `setInputAllowed` on the server, which the host never
  reads; autostart.

## 8. Plan

*Done*: eight detailed modules, each with proofs, and three abstract ones,
`MeteredSession`, `Rendezvous` and `LinkHandover`, that three of them implement.
Left, in this order:

1. `AccountLifecycle`: the login counter and the lock, recovery codes, deletion against
   maintenance, the device quota; compensation and bans of the back office.
2. Reassembly of frames on the direct link, with fragments and repeated video datagrams;
   `WebRelayBridge` with the events of its two sockets.
3. Refinement of an abstract session by `SessionOpening`: asked for, agreed, entered once.
4. Checks of pure algorithms against reference definitions: the loop of `deduct`
   against `Deducts`, `decideRelayHeartbeat`, the relay's token bucket.
