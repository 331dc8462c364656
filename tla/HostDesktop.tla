---------------------------- MODULE HostDesktop ----------------------------
(***************************************************************************)
(* The shared machine's program, apps/desktop-host: one window thread that *)
(* handles clicks, menu commands and the two-second timer, and, for every  *)
(* relay ticket it accepts, a relay thread (run_host_relay, then           *)
(* run_host_direct) with a punch thread beside it.                         *)
(*                                                                         *)
(* A handler of the window thread that calls the control plane changes the *)
(* Model, calls with the lock released, and finishes: two steps, between   *)
(* which the other threads run.  The control plane is what the calls and   *)
(* their answers show of it; SessionOpening has its own steps.  The token  *)
(* is set, and every session is one of this host's.                        *)
(***************************************************************************)
EXTENDS Integers, Sequences, FiniteSets

CONSTANTS
  Session,     \* remote_session_id values
  None,        \* Option::None
  MaxRun,      \* bound: relay threads there can be at once, ended ones whose
               \* punch thread still works included
  MaxWindow    \* bound: confirm windows open at once

ASSUME SessionAssumption == None \notin Session
ASSUME BoundAssumption   == MaxRun \in Nat \ {0} /\ MaxWindow \in Nat \ {0}

Run    == 1..MaxRun
Handle == 1..MaxWindow
NoWindow == 0     \* HWND::default()

VARIABLES
  server,     \* the control plane's remote_sessions.state
  queue,      \* the sessions awaiting consent, oldest first
  offer,      \* sessions whose host ticket host-attach would hand out
  open,       \* the control plane's accepting_connections of this host
  model,      \* MODEL
  shown,      \* the session each open confirm window was opened for
  inject,     \* inject::INPUT_ALLOWED
  ui,         \* the call the window thread waits in
  thread      \* the relay threads with their punch threads

serverVars == <<server, queue, offer, open>>
vars == <<server, queue, offer, open, model, shown, inject, ui, thread>>

-----------------------------------------------------------------------------
(* The values *)

State == {"absent", "awaiting_host_consent", "active", "relay_stopped",
          "over"}     \* "over": closed or rejected, alike to the host

\* The texts of status_line, by what the program and the owner tell apart:
\* "session" stands for a relay ticket at hand, a relay or direct link in use
\* and a relay that stopped, "none" for a session that ended, a relay not
\* reached and a button pressed without a session.
Status == {"idle", "off", "asked", "connected", "view only", "session", "none"}

Model == [accepting: BOOLEAN, status: Status, incoming: Session \cup {None},
          confirm: Handle \cup {NoWindow}, ticket: Session \cup {None},
          remote: BOOLEAN]

FreshModel == [accepting |-> TRUE, status |-> "idle", incoming |-> None,
               confirm |-> NoWindow, ticket |-> None, remote |-> FALSE]

Call == [at: {"none", "attach", "stop", "accept", "consent", "reject"},
         sess: Session \cup {None}, window: Handle \cup {NoWindow}]

Calling(what, s, w) == [at |-> what, sess |-> s, window |-> w]
NoCall == Calling("none", None, NoWindow)

Thread == [sess: Session \cup {None},
           pc: {"free", "connecting", "joined", "relay", "direct", "gone", "failed"},
           punch: {"none", "probing", "sent"},
           video: BOOLEAN, link: BOOLEAN]

NoThread == [sess |-> None, pc |-> "free", punch |-> "none",
             video |-> FALSE, link |-> FALSE]

\* host_hf::session_actions_visible, and tray_disconnect_enabled by it.
session_actions_visible == model.status \in {"connected", "view only"}

\* relay_media::should_send_relay_video
should_send_relay_video(s) == server[s] \notin {"relay_stopped", "over"}

Alive(r) == thread[r].pc \in {"connecting", "joined", "relay", "direct"}
Watched  == \E r \in Run : \/ thread[r].pc = "direct"
                           \/ thread[r].pc = "relay" /\ thread[r].video
OpenWindows == {w \in Handle : shown[w] # None}
FreeRuns    == {r \in Run : thread[r] = NoThread}

Init ==
  /\ server = [s \in Session |-> "absent"]
  /\ queue = << >>
  /\ offer = {}
  /\ open = TRUE
  /\ model = FreshModel
  /\ shown = [w \in Handle |-> None]
  /\ inject = TRUE
  /\ ui = NoCall
  /\ thread = [r \in Run |-> NoThread]

-----------------------------------------------------------------------------
(* The control plane, moved by others: controllers, the owner's other      *)
(* devices (the list of requests is the account's, not the device's), the  *)
(* relay's heartbeats and the clock.                                       *)

Without(s) ==
  LET at == {i \in 1..Len(queue) : queue[i] = s}
      i  == CHOOSE j \in at : TRUE
  IN IF at = {} THEN queue ELSE SubSeq(queue, 1, i - 1) \o SubSeq(queue, i + 1, Len(queue))

Enqueue(s, state) ==
  /\ server' = [server EXCEPT ![s] = state]
  /\ queue' = IF state = "awaiting_host_consent" THEN Append(Without(s), s) ELSE Without(s)
  /\ offer' = IF state = "active" THEN offer \cup {s} ELSE offer

Elsewhere == UNCHANGED <<open, model, shown, inject, ui, thread>>

\* A controller asks for a session, or enters one without asking.
Ask(s) ==
  /\ open /\ server[s] = "absent"
  /\ \E state \in {"awaiting_host_consent", "active"} : Enqueue(s, state)
  /\ Elsewhere

\* The request is answered on another device of the account.
AnsweredElsewhere(s) ==
  /\ server[s] = "awaiting_host_consent"
  /\ \E state \in {"active", "over"} : Enqueue(s, state)
  /\ Elsewhere

\* The credit runs out.
RelayStopped(s) == server[s] = "active" /\ Enqueue(s, "relay_stopped") /\ Elsewhere

\* The ticket's time is over before the host has taken it.
TicketExpires(s) ==
  /\ s \in offer
  /\ offer' = offer \ {s}
  /\ UNCHANGED <<server, queue>> /\ Elsewhere

-----------------------------------------------------------------------------
(* The window thread *)

Idle == ui.at = "none"

\* TRAY_EXIT or a crash, and the next start: run builds a fresh Model and the
\* threads are gone, while the control plane keeps what it has, until
\* register_device at WM_CREATE turns accepting back on, if its calls arrive.
Restart(arrives) ==
  /\ model' = FreshModel
  /\ shown' = [w \in Handle |-> None]
  /\ inject' = TRUE
  /\ ui' = NoCall
  /\ thread' = [r \in Run |-> NoThread]
  /\ open' = (arrives \/ open)
  /\ UNCHANGED <<server, queue, offer>>

\* remember_relay_ticket: the model, the flag and the threads after it.
TicketReplaced == FALSE
Refused == model.ticket # None

remember_relay_ticket(s) ==
  IF Refused
  THEN UNCHANGED <<model, inject, thread>>
  ELSE /\ model' = [model EXCEPT !.ticket = s, !.remote = TRUE,
                                 !.status = "session"]
       /\ inject' = TRUE
       /\ \E r \in FreeRuns :
            /\ \A q \in FreeRuns : r <= q
            /\ thread' = [thread EXCEPT ![r].sess = s, ![r].pc = "connecting"]

PollOnlyWhenNoneIsSet(answered) ==
  /\ Idle
  /\ IF answered /\ model.accepting /\ queue # << >> /\ model.incoming = None
     THEN \E w \in Handle \ OpenWindows :
            /\ model' = [model EXCEPT !.incoming = Head(queue), !.status = "asked",
                                      !.confirm = w]
            /\ shown' = [shown EXCEPT ![w] = Head(queue)]
     ELSE UNCHANGED <<model, shown>>
  /\ ui' = Calling("attach", None, NoWindow)
  /\ UNCHANGED <<server, queue, offer, open, inject, thread>>

\* WM_TIMER, first half: poll_incoming with open_confirm.  A call that fails,
\* like an empty list, changes nothing.
poll_incoming(answered) ==
  /\ Idle
  /\ IF answered /\ model.accepting /\ queue # << >> /\ model.incoming # Head(queue)
     THEN \E w \in Handle \ OpenWindows :
            /\ \A v \in Handle \ OpenWindows : w <= v
            /\ model' = [model EXCEPT !.incoming = Head(queue), !.status = "asked",
                                      !.confirm = w]
            /\ shown' = [shown EXCEPT ![w] = Head(queue)]
     ELSE UNCHANGED <<model, shown>>
  /\ ui' = Calling("attach", None, NoWindow)
  /\ UNCHANGED <<server, queue, offer, open, inject, thread>>

\* WM_TIMER, second half: poll_host_attach.  The control plane clears the
\* ticket's text as it answers, whether the answer arrives or not.
poll_host_attach(reached, answered) ==
  LET ready == {s \in offer : server[s] = "active"} IN
  /\ ui.at = "attach"
  /\ IF reached /\ model.ticket = None /\ ready # {}
     THEN \E s \in ready :
            /\ offer' = offer \ {s}
            /\ IF answered THEN remember_relay_ticket(s)
                           ELSE UNCHANGED <<model, inject, thread>>
     ELSE UNCHANGED <<offer, model, inject, thread>>
  /\ ui' = NoCall
  /\ UNCHANGED <<server, queue, open, shown>>

StopKeepsRequest ==
  /\ model' = [model EXCEPT !.accepting = FALSE, !.status = "off",
                            !.confirm = NoWindow]
  /\ inject' = FALSE
  /\ ui' = Calling("stop", None, model.confirm)

\* stop_now, up to its call.
stop_now ==
  /\ model' = [model EXCEPT !.accepting = FALSE, !.incoming = None,
                            !.status = "off", !.confirm = NoWindow]
  /\ inject' = FALSE
  /\ ui' = Calling("stop", None, model.confirm)

Closed(w) == IF w = NoWindow THEN shown ELSE [shown EXCEPT ![w] = None]

\* Its call, if it arrives, and DestroyWindow.
FinishStop(arrives) ==
  /\ ui.at = "stop"
  /\ IF arrives
     THEN /\ open' = FALSE
          /\ server' = [s \in Session |->
               IF server[s] \in {"active", "awaiting_host_consent", "relay_stopped"}
               THEN "over" ELSE server[s]]
          /\ queue' = << >>
          /\ offer' = {}
     ELSE UNCHANGED serverVars
  /\ shown' = Closed(ui.window)
  /\ ui' = NoCall
  /\ UNCHANGED <<model, inject, thread>>

\* The accept switch, always there: toggle_accept.
toggle_accept ==
  /\ Idle
  /\ IF model.accepting
     THEN stop_now
     ELSE /\ model' = [model EXCEPT !.accepting = TRUE, !.status = "idle"]
          /\ ui' = Calling("accept", None, NoWindow)
          /\ UNCHANGED inject
  /\ UNCHANGED <<server, queue, offer, open, shown, thread>>

FinishAccept(arrives) ==
  /\ ui.at = "accept"
  /\ open' = (arrives \/ open)
  /\ ui' = NoCall
  /\ UNCHANGED <<server, queue, offer, model, shown, inject, thread>>

\* The session's buttons are drawn and hit, and the tray's items live, only
\* while session_actions_visible.
Pressed == Idle /\ session_actions_visible

StopButton == Pressed /\ stop_now /\ UNCHANGED <<server, queue, offer, open, shown, thread>>

\* set_session_input; the control plane's input_revoked is the controller's
\* affair and the host never reads it.
set_session_input(allowed) ==
  /\ Pressed
  /\ IF ~model.remote
     THEN model' = [model EXCEPT !.status = "none"] /\ UNCHANGED inject
     ELSE /\ model' = [model EXCEPT !.status =
               IF model.ticket = None THEN @
               ELSE IF allowed THEN "connected" ELSE "view only"]
          /\ inject' = allowed
  /\ UNCHANGED <<server, queue, offer, open, shown, ui, thread>>

\* A click on a confirm window, the current one or one left over: both answer
\* for incoming_id and close confirm_window.
Clicked(w) == Idle /\ w \in OpenWindows

allow_once(w) ==
  /\ Clicked(w)
  /\ model' = [model EXCEPT !.incoming = None, !.status = "connected",
                            !.confirm = NoWindow]
  /\ ui' = Calling("consent", model.incoming, model.confirm)
  /\ UNCHANGED <<server, queue, offer, open, shown, inject, thread>>

\* The consent call: lost, refused because the request no longer waits, or
\* answered with the ticket, which host-attach goes on offering too.
FinishAllow(arrives, answered) ==
  /\ ui.at = "consent"
  /\ IF arrives /\ ui.sess # None /\ ui.sess \in {s \in Session : server[s] = "awaiting_host_consent"}
     THEN /\ Enqueue(ui.sess, "active")
          /\ IF answered THEN remember_relay_ticket(ui.sess)
                         ELSE UNCHANGED <<model, inject, thread>>
     ELSE UNCHANGED <<server, queue, offer, model, inject, thread>>
  /\ shown' = Closed(ui.window)
  /\ ui' = NoCall
  /\ UNCHANGED open

refuse(w) ==
  /\ Clicked(w)
  /\ model' = [model EXCEPT !.incoming = None, !.confirm = NoWindow,
                            !.status = IF model.accepting THEN "idle" ELSE "off"]
  /\ ui' = Calling("reject", model.incoming, model.confirm)
  /\ UNCHANGED <<server, queue, offer, open, shown, inject, thread>>

FinishRefuse(arrives) ==
  /\ ui.at = "reject"
  /\ IF arrives /\ ui.sess \in {s \in Session : server[s] = "awaiting_host_consent"}
     THEN Enqueue(ui.sess, "over")
     ELSE UNCHANGED <<server, queue, offer>>
  /\ shown' = Closed(ui.window)
  /\ ui' = NoCall
  /\ UNCHANGED <<open, model, inject, thread>>

-----------------------------------------------------------------------------
(* The relay, direct and punch threads *)

Rest == UNCHANGED <<server, queue, offer, open, shown, ui>>

\* The status line a thread writes.
SaysInTheWrongField(status) == model' = [model EXCEPT !.ticket = status]
Says(status) == model' = [model EXCEPT !.status = status]

\* run_host_relay up to its hello.  A relay that cannot be reached leaves
\* relay_ticket set; a ticket the relay pairs and admits is no longer offered.
Connect(r, reached, admitted) ==
  /\ thread[r].pc = "connecting"
  /\ admitted => server[thread[r].sess] = "active"
  /\ IF reached
     THEN /\ thread' = [thread EXCEPT ![r].pc = "joined", ![r].punch = "probing",
                                      ![r].link = admitted]
          /\ Says("session")
     ELSE /\ thread' = [thread EXCEPT ![r].pc = "failed"]
          /\ Says("none")
  /\ offer' = IF reached /\ admitted THEN offer \ {thread[r].sess} ELSE offer
  /\ UNCHANGED <<server, queue, open, shown, inject, ui>>

\* The lines between the connection and the loop.
EnterLoop(r) ==
  /\ thread[r].pc = "joined"
  /\ thread' = [thread EXCEPT ![r].pc = "relay", ![r].video = TRUE]
  /\ inject' = TRUE
  /\ UNCHANGED model /\ Rest

\* The loop finds the punch thread's link in the channel: run_host_direct.
SwitchToDirect(r) ==
  /\ thread[r].pc = "relay" /\ thread[r].punch = "sent"
  /\ thread' = [thread EXCEPT ![r].pc = "direct", ![r].punch = "none",
                              ![r].link = TRUE, ![r].video = FALSE]
  /\ Says("session")
  /\ UNCHANGED inject /\ Rest

\* refresh_session_media.  Both loops call it; only the relay's keeps the
\* answer, and a call that fails counts as "keep sending".
RefreshMedia(r, answered) ==
  LET keep == answered => should_send_relay_video(thread[r].sess) IN
  /\ thread[r].pc \in {"relay", "direct"}
  /\ model' = [model EXCEPT !.status = IF keep THEN @ ELSE "session"]
  /\ thread' = [thread EXCEPT ![r].video = IF thread[r].pc = "relay" THEN keep ELSE @]
  /\ UNCHANGED inject /\ Rest

FinishDirectOnly(r) ==
  /\ thread[r].pc = "direct" /\ ~thread[r].link
  /\ inject' = FALSE
  /\ model' = [model EXCEPT !.status = "none", !.ticket = None]
  /\ thread' = [thread EXCEPT ![r] = NoThread]
  /\ Rest

\* finish_host_relay, after a link that sends or receives no more.  A punch
\* thread still at work goes on for nobody; a link left in the channel is dropped.
Finish(r) ==
  /\ thread[r].pc \in {"relay", "direct"} /\ ~thread[r].link
  /\ inject' = FALSE
  /\ model' = [model EXCEPT !.status = "none", !.ticket = None]
  /\ thread' = [thread EXCEPT ![r] =
       IF @.punch = "probing" THEN [@ EXCEPT !.pc = "gone"]
                                            ELSE NoThread]
  /\ Rest

\* The peer leaves, the relay ends the session, the network breaks.
LinkBreaks(r) ==
  /\ thread[r].pc \in {"joined", "relay", "direct"} /\ thread[r].link
  /\ thread' = [thread EXCEPT ![r].link = FALSE]
  /\ UNCHANGED <<model, inject>> /\ Rest

\* probe_and_upgrade_direct, and the link it made put into the channel; without
\* a relay thread the receiver is gone and the link is dropped.
PunchReturns(r, reached) ==
  /\ thread[r].punch = "probing"
  /\ thread' = [thread EXCEPT ![r] =
       IF @.pc = "gone" THEN NoThread
       ELSE [@ EXCEPT !.punch = IF reached THEN "sent" ELSE "none"]]
  /\ UNCHANGED <<model, inject>> /\ Rest

-----------------------------------------------------------------------------
ServerNext == \E s \in Session : \/ Ask(s) \/ AnsweredElsewhere(s)
                                 \/ RelayStopped(s) \/ TicketExpires(s)

Finishing == \/ \E arrives \in BOOLEAN :
                  \/ FinishStop(arrives) \/ FinishAccept(arrives)
                  \/ FinishRefuse(arrives)
                  \/ \E answered \in BOOLEAN : FinishAllow(arrives, answered)
             \/ \E reached, answered \in BOOLEAN : poll_host_attach(reached, answered)

Click == \/ toggle_accept \/ StopButton
         \/ \E allowed \in BOOLEAN : set_session_input(allowed)
         \/ \E w \in Handle : allow_once(w) \/ refuse(w)

ThreadNext(r) == \/ \E reached, admitted \in BOOLEAN : Connect(r, reached, admitted)
                 \/ EnterLoop(r) \/ SwitchToDirect(r) \/ Finish(r)
                 \/ \E answered \in BOOLEAN : RefreshMedia(r, answered)
                 \/ \E reached \in BOOLEAN : PunchReturns(r, reached)

Next == \/ ServerNext \/ Finishing \/ Click
        \/ \E arrives \in BOOLEAN : Restart(arrives)
        \/ \E answered \in BOOLEAN : poll_incoming(answered)
        \/ \E r \in Run : ThreadNext(r) \/ LinkBreaks(r)

Spec == Init /\ [][Next]_vars

\* The window thread and the others are scheduled; the timer fires every two
\* seconds and of its calls some are answered; the relay ends what is no
\* longer active (StoppedRelayEnds of RelayTickets).  Nothing is assumed of
\* the owner, the controllers or a direct link.
Fairness ==
  /\ WF_vars(Finishing)
  /\ SF_vars(poll_incoming(TRUE)) /\ SF_vars(poll_host_attach(TRUE, TRUE))
  /\ \A r \in Run :
       /\ WF_vars(ThreadNext(r) /\ thread'[r].pc # thread[r].pc)
       /\ WF_vars(\E reached \in BOOLEAN : PunchReturns(r, reached))
       /\ WF_vars(LinkBreaks(r) /\ server[thread[r].sess] # "active"
                                /\ thread[r].pc # "direct")

FairSpec == Spec /\ Fairness

-----------------------------------------------------------------------------
(* Properties *)

TypeOK ==
  /\ server \in [Session -> State]
  /\ queue \in Seq(Session) /\ offer \subseteq Session /\ open \in BOOLEAN
  /\ model \in Model
  /\ shown \in [Handle -> Session \cup {None}]
  /\ inject \in BOOLEAN /\ ui \in Call
  /\ thread \in [Run -> Thread]

\* One session at a time feeds the keyboard and the pointer, and it is the one
\* whose ticket the program holds: remember_relay_ticket's check and
\* finish_host_relay's reset, over threads that end when their links do.
OneSessionAtATime ==
  \A r \in Run : Alive(r) => /\ model.ticket = thread[r].sess
                             /\ \A q \in Run \ {r} : ~Alive(q)

\* A ticket is held only for a thread that is there, or for one that could not
\* reach the relay: no end of a session, in whatever order its link, its punch
\* thread and the owner's clicks come, leaves the program deaf to the next one.
HeldForAThread ==
  model.ticket # None =>
    \E r \in Run : /\ thread[r].sess = model.ticket
                   /\ Alive(r) \/ thread[r].pc = "failed"

\* The request the program would answer for is the one of the window it would
\* close, and there is such a window: polls, stops and answers keep the two
\* fields of the Model in step, orphaned windows or not.
AnswerHasItsWindow ==
  /\ (model.incoming = None) = (model.confirm = NoWindow)
  /\ model.confirm # NoWindow => shown[model.confirm] = model.incoming

\* Once the owner has stopped and the stop has arrived, the relay carries no
\* more of the screen after a while, unless the owner lets others in again.
Blocked == ~model.accepting /\ ~open
Relaying == \E r \in Run : thread[r].pc \in {"connecting", "joined", "relay"}
StopEndsRelay == [](Blocked => <>(~Relaying \/ ~Blocked))

\* The oldest request that waits for this account is shown, if the owner
\* accepts requests and keeps doing so: however many requests were answered
\* elsewhere while their windows stood open.
Oldest(s) == server[s] = "awaiting_host_consent" /\ Head(queue) = s
RequestIsShown ==
  \A s \in Session :
    (Oldest(s) /\ model.accepting) ~> (~Oldest(s) \/ ~model.accepting \/ model.incoming = s)

\* The idle text of host_hf says that nobody is watching the screen now: it
\* is not there while a thread sends the screen to a controller.
IdleMeansUnwatched == model.status = "idle" => ~Watched

=============================================================================
