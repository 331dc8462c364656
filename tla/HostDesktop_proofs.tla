------------------------ MODULE HostDesktop_proofs --------------------------
(* Proofs about HostDesktop, for any sessions and any number of relay threads *)
(* and confirm windows at once.                                               *)
EXTENDS HostDesktop, SequenceTheorems, TLAPS

\* A thread that runs has a session, whose ticket is not None.
Running == \A r \in Run : Alive(r) => thread[r].sess \in Session

\* A handler that is about to close a window has taken it out of the Model.
Asking == ui.at \in {"stop", "consent", "reject"} => model.confirm = NoWindow

IInv == TypeOK /\ OneSessionAtATime /\ HeldForAThread /\ AnswerHasItsWindow
               /\ Running /\ Asking

\* What depends on the threads and the ticket alone, and what on the windows.
Threads == OneSessionAtATime /\ HeldForAThread /\ Running
Windows == AnswerHasItsWindow /\ Asking

\* The list without a session is a list of sessions.
LEMMA WithoutType ==
  ASSUME queue \in Seq(Session), NEW s PROVE Without(s) \in Seq(Session)
<1> DEFINE at == {i \in 1..Len(queue) : queue[i] = s}
           i  == CHOOSE j \in at : TRUE
<1>1. CASE at = {}
  BY <1>1 DEF Without
<1>2. CASE at # {}
  <2>1. i \in 1..Len(queue) /\ Len(queue) \in Nat
    BY <1>2
  <2> HIDE DEF i
  <2>2. /\ SubSeq(queue, 1, i - 1) \in Seq(Session)
        /\ SubSeq(queue, i + 1, Len(queue)) \in Seq(Session)
    BY <2>1
  <2>3. Without(s) = SubSeq(queue, 1, i - 1) \o SubSeq(queue, i + 1, Len(queue))
    BY <1>2 DEF Without, i
  <2>4. QED
    BY <2>2, <2>3
<1>3. QED
  BY <1>1, <1>2

LEMMA EnqueueType ==
  ASSUME TypeOK, NEW s \in Session, NEW state \in State, Enqueue(s, state)
  PROVE  server' \in [Session -> State] /\ queue' \in Seq(Session)
         /\ offer' \subseteq Session
<1>1. Without(s) \in Seq(Session)
  BY WithoutType DEF TypeOK
<1>2. queue' \in Seq(Session)
  BY <1>1 DEF Enqueue
<1>3. QED
  BY <1>2 DEF Enqueue, TypeOK

LEMMA InvInit == Init => IInv
<1> SUFFICES ASSUME Init PROVE IInv
  OBVIOUS
<1>1. TypeOK
  BY DEF Init, TypeOK, State, Model, FreshModel, Status, NoWindow, Call, NoCall, Calling,
     Thread, NoThread
<1>2. Threads
  BY DEF Init, Threads, OneSessionAtATime, HeldForAThread, Running, Alive, FreshModel,
     NoThread
<1>3. Windows
  BY DEF Init, Windows, AnswerHasItsWindow, Asking, FreshModel, NoCall, Calling
<1>4. QED
  BY <1>1, <1>2, <1>3 DEF IInv, Threads, Windows

\* A step that leaves the threads and the ticket as they are, or one that leaves
\* the windows, disturbs nothing of theirs.
LEMMA ThreadsKept ==
  ASSUME Threads, thread' = thread, model'.ticket = model.ticket PROVE Threads'
BY DEF Threads, OneSessionAtATime, HeldForAThread, Running, Alive

LEMMA WindowsKept ==
  ASSUME Windows, shown' = shown, model'.incoming = model.incoming,
         model'.confirm = model.confirm,
         ui'.at \in {"stop", "consent", "reject"} => ui' = ui
  PROVE  Windows'
BY DEF Windows, AnswerHasItsWindow, Asking

\* The ticket is taken only if none is held, and then no thread runs.
LEMMA RememberInv ==
  ASSUME IInv, NEW s \in Session, remember_relay_ticket(s)
  PROVE  /\ model' \in Model /\ inject' \in BOOLEAN /\ thread' \in [Run -> Thread]
         /\ Threads'
         /\ model'.incoming = model.incoming /\ model'.confirm = model.confirm
<1>1. CASE Refused
  BY <1>1, ThreadsKept DEF remember_relay_ticket, IInv, TypeOK, Threads
<1>2. CASE ~Refused
  <2>1. model.ticket = None
    BY <1>2 DEF Refused
  <2>2. \A q \in Run : ~Alive(q)
    BY <2>1, SessionAssumption DEF IInv, OneSessionAtATime, Running
  <2>3. PICK r \in FreeRuns :
          thread' = [thread EXCEPT ![r].sess = s, ![r].pc = "connecting"]
    BY <1>2 DEF remember_relay_ticket
  <2>4. /\ model' = [model EXCEPT !.ticket = s, !.remote = TRUE, !.status = "session"]
        /\ inject' = TRUE
    BY <1>2 DEF remember_relay_ticket
  <2>5. model' \in Model /\ model'.ticket = s
        /\ model'.incoming = model.incoming /\ model'.confirm = model.confirm
    BY <2>4 DEF IInv, TypeOK, Model, Status
  <2>6. thread' \in [Run -> Thread]
    BY <2>3 DEF IInv, TypeOK, Thread, FreeRuns
  <2>7. /\ r \in Run /\ thread'[r].sess = s /\ thread'[r].pc = "connecting"
        /\ \A q \in Run \ {r} : thread'[q] = thread[q]
    BY <2>3 DEF FreeRuns, IInv, TypeOK, Thread
  <2>8. Threads'
    BY <2>2, <2>5, <2>7 DEF Threads, OneSessionAtATime, HeldForAThread, Running, Alive
  <2>9. QED
    BY <2>4, <2>5, <2>6, <2>8
<1>3. QED
  BY <1>1, <1>2

\* The control plane moves nothing of the program's.
LEMMA ServerInv ==
  ASSUME IInv, ServerNext PROVE IInv'
<1>1. PICK s \in Session : \/ Ask(s) \/ AnsweredElsewhere(s)
                           \/ RelayStopped(s) \/ TicketExpires(s)
  BY DEF ServerNext
<1>2. Elsewhere
  BY <1>1 DEF Ask, AnsweredElsewhere, RelayStopped, TicketExpires
<1>3. /\ server' \in [Session -> State] /\ queue' \in Seq(Session)
      /\ offer' \subseteq Session
  <2>1. CASE TicketExpires(s)
    BY <2>1 DEF TicketExpires, IInv, TypeOK
  <2>2. CASE ~TicketExpires(s)
    <3>1. PICK state \in State : Enqueue(s, state)
      BY <1>1, <2>2 DEF Ask, AnsweredElsewhere, RelayStopped, State
    <3>2. QED
      BY <3>1, EnqueueType DEF IInv
  <2>3. QED
    BY <2>1, <2>2
<1>4. TypeOK'
  BY <1>2, <1>3 DEF Elsewhere, IInv, TypeOK
<1>5. Threads' /\ Windows'
  BY <1>2, ThreadsKept, WindowsKept DEF IInv, Threads, Windows, Elsewhere
<1>6. QED
  BY <1>4, <1>5 DEF IInv, Threads, Windows

\* The window thread, first halves: a button, a confirm window, the timer.
LEMMA ClickInv ==
  ASSUME IInv, Click PROVE IInv'
<1> USE DEF IInv
<1>1. CASE \/ toggle_accept \/ StopButton
  <2>1. CASE stop_now /\ UNCHANGED <<server, queue, offer, open, shown, thread>>
    <3>1. model' = [model EXCEPT !.accepting = FALSE, !.incoming = None,
                                 !.status = "off", !.confirm = NoWindow]
      BY <2>1 DEF stop_now
    <3>2. model' \in Model /\ model'.ticket = model.ticket
          /\ model'.incoming = None /\ model'.confirm = NoWindow
      BY <3>1 DEF TypeOK, Model, Status
    <3>3. ui' \in Call /\ inject' \in BOOLEAN
      BY <2>1 DEF stop_now, Calling, Call, TypeOK, Model
    <3>4. TypeOK'
      BY <2>1, <3>2, <3>3 DEF TypeOK
    <3>5. Threads' /\ Windows'
      BY <2>1, <3>2, ThreadsKept DEF Threads, Windows, AnswerHasItsWindow, Asking
    <3>6. QED
      BY <3>4, <3>5 DEF Threads, Windows
  <2>2. CASE /\ model' = [model EXCEPT !.accepting = TRUE, !.status = "idle"]
             /\ ui' = Calling("accept", None, NoWindow)
             /\ UNCHANGED <<server, queue, offer, open, shown, inject, thread>>
    <3>1. model' \in Model /\ model'.ticket = model.ticket
          /\ model'.incoming = model.incoming /\ model'.confirm = model.confirm
      BY <2>2 DEF TypeOK, Model, Status
    <3>2. ui' \in Call /\ ui'.at = "accept"
      BY <2>2 DEF Calling, Call
    <3>3. TypeOK'
      BY <2>2, <3>1, <3>2 DEF TypeOK
    <3>4. Threads' /\ Windows'
      BY <2>2, <3>1, <3>2, ThreadsKept, WindowsKept DEF Threads, Windows
    <3>5. QED
      BY <3>3, <3>4 DEF Threads, Windows
  <2>3. QED
    BY <1>1, <2>1, <2>2 DEF toggle_accept, StopButton
<1>2. CASE \E allowed \in BOOLEAN : set_session_input(allowed)
  <2>1. PICK allowed \in BOOLEAN : set_session_input(allowed)
    BY <1>2
  <2>2. PICK status \in Status : model' = [model EXCEPT !.status = status]
    BY <2>1 DEF set_session_input, TypeOK, Model, Status
  <2>3. model' \in Model /\ model'.ticket = model.ticket
        /\ model'.incoming = model.incoming /\ model'.confirm = model.confirm
    BY <2>2 DEF TypeOK, Model
  <2>4. inject' \in BOOLEAN
        /\ UNCHANGED <<server, queue, offer, open, shown, ui, thread>>
    BY <2>1 DEF set_session_input, TypeOK
  <2>5. TypeOK'
    BY <2>3, <2>4 DEF TypeOK
  <2>6. Threads' /\ Windows'
    BY <2>3, <2>4, ThreadsKept, WindowsKept DEF Threads, Windows
  <2>7. QED
    BY <2>5, <2>6 DEF Threads, Windows
<1>3. CASE \E w \in Handle : allow_once(w) \/ refuse(w)
  <2>1. PICK status \in Status :
          model' = [model EXCEPT !.incoming = None, !.status = status,
                                 !.confirm = NoWindow]
    BY <1>3 DEF allow_once, refuse, TypeOK, Model, Status
  <2>2. model' \in Model /\ model'.ticket = model.ticket
        /\ model'.incoming = None /\ model'.confirm = NoWindow
    BY <2>1 DEF TypeOK, Model
  <2>3. UNCHANGED <<server, queue, offer, open, shown, inject, thread>>
    BY <1>3 DEF allow_once, refuse
  <2>4. ui' \in Call
    BY <1>3 DEF allow_once, refuse, Calling, Call, TypeOK, Model
  <2>5. TypeOK'
    BY <2>2, <2>3, <2>4 DEF TypeOK
  <2>6. Threads' /\ Windows'
    BY <2>2, <2>3, ThreadsKept DEF Threads, Windows, AnswerHasItsWindow, Asking
  <2>7. QED
    BY <2>5, <2>6 DEF Threads, Windows
<1>4. QED
  BY <1>1, <1>2, <1>3 DEF Click

LEMMA PollInv ==
  ASSUME IInv, NEW answered \in BOOLEAN, poll_incoming(answered) PROVE IInv'
<1> USE DEF IInv
<1>1. /\ UNCHANGED <<server, queue, offer, open, inject, thread>>
      /\ ui' \in Call /\ ui'.at = "attach"
  BY DEF poll_incoming, Calling, Call
<1>2. CASE UNCHANGED <<model, shown>>
  <2>1. TypeOK'
    BY <1>1, <1>2 DEF TypeOK
  <2>2. Threads' /\ Windows'
    BY <1>1, <1>2, ThreadsKept, WindowsKept DEF Threads, Windows
  <2>3. QED
    BY <2>1, <2>2 DEF Threads, Windows
<1>3. CASE queue # << >> /\ \E w \in Handle \ OpenWindows :
             /\ model' = [model EXCEPT !.incoming = Head(queue), !.status = "asked",
                                       !.confirm = w]
             /\ shown' = [shown EXCEPT ![w] = Head(queue)]
  <2>1. PICK w \in Handle :
             /\ model' = [model EXCEPT !.incoming = Head(queue), !.status = "asked",
                                       !.confirm = w]
             /\ shown' = [shown EXCEPT ![w] = Head(queue)]
    BY <1>3
  <2>2. Head(queue) \in Session
    BY <1>3 DEF TypeOK
  <2>3. w # NoWindow
    BY DEF Handle, NoWindow
  <2>4. /\ model' \in Model /\ model'.ticket = model.ticket
        /\ model'.incoming = Head(queue) /\ model'.confirm = w
    BY <2>1, <2>2 DEF TypeOK, Model, Status
  <2>5. shown' \in [Handle -> Session \cup {None}] /\ shown'[w] = Head(queue)
    BY <2>1, <2>2 DEF TypeOK
  <2>6. TypeOK'
    BY <1>1, <2>4, <2>5 DEF TypeOK
  <2>7. Windows'
    BY <1>1, <2>2, <2>3, <2>4, <2>5, SessionAssumption
    DEF Windows, AnswerHasItsWindow, Asking
  <2>8. Threads'
    BY <1>1, <2>4, ThreadsKept DEF Threads
  <2>9. QED
    BY <2>6, <2>7, <2>8 DEF Threads, Windows
<1>4. QED
  BY <1>2, <1>3 DEF poll_incoming

\* What closes a window leaves the one the Model knows.
LEMMA ClosedKeeps ==
  ASSUME IInv, ui.at \in {"stop", "consent", "reject"}, shown' = Closed(ui.window),
         ui' = NoCall, model'.incoming = model.incoming, model'.confirm = model.confirm
  PROVE  shown' \in [Handle -> Session \cup {None}] /\ ui' \in Call /\ Windows'
<1>1. model.confirm = NoWindow /\ model.incoming = None
  BY DEF IInv, Asking, AnswerHasItsWindow
<1>2. shown' \in [Handle -> Session \cup {None}]
  BY DEF IInv, TypeOK, Closed
<1>3. ui' \in Call /\ ui'.at = "none"
  BY DEF NoCall, Calling, Call
<1>4. QED
  BY <1>1, <1>2, <1>3 DEF Windows, AnswerHasItsWindow, Asking

\* The window thread, second halves: what is left after a call.
LEMMA FinishingInv ==
  ASSUME IInv, Finishing PROVE IInv'
<1> USE DEF IInv
<1>1. ASSUME NEW arrives \in BOOLEAN, FinishStop(arrives) PROVE IInv'
  <2>1. /\ open' \in BOOLEAN /\ server' \in [Session -> State]
        /\ queue' \in Seq(Session) /\ offer' \subseteq Session
    <3>1. CASE UNCHANGED serverVars
      BY <3>1 DEF serverVars, TypeOK
    <3>2. CASE /\ open' = FALSE /\ queue' = << >> /\ offer' = {}
               /\ server' = [s \in Session |->
                    IF server[s] \in {"active", "awaiting_host_consent", "relay_stopped"}
                    THEN "over" ELSE server[s]]
      <4>1. server' \in [Session -> State]
        BY <3>2 DEF TypeOK, State
      <4>2. queue' \in Seq(Session)
        BY <3>2, EmptySeq
      <4>3. QED
        BY <3>2, <4>1, <4>2
    <3>3. QED
      BY <1>1, <3>1, <3>2 DEF FinishStop
  <2>2. UNCHANGED <<model, inject, thread>>
    BY <1>1 DEF FinishStop
  <2>3. shown' \in [Handle -> Session \cup {None}] /\ ui' \in Call /\ Windows'
    BY <1>1, <2>2, ClosedKeeps DEF FinishStop
  <2>4. TypeOK' /\ Threads'
    BY <2>1, <2>2, <2>3, ThreadsKept DEF TypeOK, Threads
  <2>5. QED
    BY <2>3, <2>4 DEF Threads, Windows
<1>2. ASSUME NEW arrives \in BOOLEAN, FinishAccept(arrives) PROVE IInv'
  <2>1. ui' \in Call /\ ui'.at = "none"
    BY <1>2 DEF FinishAccept, NoCall, Calling, Call
  <2>2. TypeOK'
    BY <1>2, <2>1 DEF FinishAccept, TypeOK
  <2>3. Threads' /\ Windows'
    BY <1>2, <2>1, ThreadsKept, WindowsKept DEF FinishAccept, Threads, Windows
  <2>4. QED
    BY <2>2, <2>3 DEF Threads, Windows
<1>3. ASSUME NEW arrives \in BOOLEAN, FinishRefuse(arrives) PROVE IInv'
  <2>1. /\ server' \in [Session -> State] /\ queue' \in Seq(Session)
        /\ offer' \subseteq Session
    <3>1. CASE UNCHANGED <<server, queue, offer>>
      BY <3>1 DEF TypeOK
    <3>2. CASE ui.sess \in Session /\ Enqueue(ui.sess, "over")
      BY <3>2, EnqueueType DEF State
    <3>3. QED
      BY <1>3, <3>1, <3>2 DEF FinishRefuse
  <2>2. UNCHANGED <<open, model, inject, thread>>
    BY <1>3 DEF FinishRefuse
  <2>3. shown' \in [Handle -> Session \cup {None}] /\ ui' \in Call /\ Windows'
    BY <1>3, <2>2, ClosedKeeps DEF FinishRefuse
  <2>4. TypeOK' /\ Threads'
    BY <2>1, <2>2, <2>3, ThreadsKept DEF TypeOK, Threads
  <2>5. QED
    BY <2>3, <2>4 DEF Threads, Windows
<1>4. ASSUME NEW arrives \in BOOLEAN, NEW answered \in BOOLEAN,
             FinishAllow(arrives, answered)
      PROVE  IInv'
  <2>1. \/ UNCHANGED <<server, queue, offer, model, inject, thread>>
        \/ /\ ui.sess \in Session /\ Enqueue(ui.sess, "active")
           /\ remember_relay_ticket(ui.sess) \/ UNCHANGED <<model, inject, thread>>
    BY <1>4 DEF FinishAllow
  <2>2. /\ server' \in [Session -> State] /\ queue' \in Seq(Session)
        /\ offer' \subseteq Session
    BY <2>1, EnqueueType DEF State, TypeOK
  <2>3. /\ model' \in Model /\ inject' \in BOOLEAN /\ thread' \in [Run -> Thread]
        /\ Threads'
        /\ model'.incoming = model.incoming /\ model'.confirm = model.confirm
    BY <2>1, RememberInv, ThreadsKept DEF TypeOK, Threads
  <2>4. shown' \in [Handle -> Session \cup {None}] /\ ui' \in Call /\ Windows'
    BY <1>4, <2>3, ClosedKeeps DEF FinishAllow
  <2>5. TypeOK'
    BY <1>4, <2>2, <2>3, <2>4 DEF FinishAllow, TypeOK
  <2>6. QED
    BY <2>3, <2>4, <2>5 DEF Threads, Windows
<1>5. ASSUME NEW reached \in BOOLEAN, NEW answered \in BOOLEAN,
             poll_host_attach(reached, answered)
      PROVE  IInv'
  <2>1. /\ offer' \subseteq Session
        /\ \/ UNCHANGED <<model, inject, thread>>
           \/ \E s \in Session : remember_relay_ticket(s)
    BY <1>5 DEF poll_host_attach, TypeOK
  <2>2. /\ model' \in Model /\ inject' \in BOOLEAN /\ thread' \in [Run -> Thread]
        /\ Threads'
        /\ model'.incoming = model.incoming /\ model'.confirm = model.confirm
    BY <2>1, RememberInv, ThreadsKept DEF TypeOK, Threads
  <2>3. UNCHANGED <<server, queue, open, shown>> /\ ui' \in Call /\ ui'.at = "none"
    BY <1>5 DEF poll_host_attach, NoCall, Calling, Call
  <2>4. TypeOK'
    BY <2>1, <2>2, <2>3 DEF TypeOK
  <2>5. Windows'
    BY <2>2, <2>3, WindowsKept DEF Windows
  <2>6. QED
    BY <2>2, <2>4, <2>5 DEF Threads, Windows
<1>6. QED
  BY <1>1, <1>2, <1>3, <1>4, <1>5 DEF Finishing

\* After a restart there is nothing left to disagree.
LEMMA RestartInv ==
  ASSUME IInv, NEW arrives \in BOOLEAN, Restart(arrives) PROVE IInv'
<1>1. TypeOK'
  BY DEF IInv, Restart, TypeOK, Model, FreshModel, Status, NoWindow, Call, NoCall,
     Calling, Thread, NoThread
<1>2. Threads'
  BY DEF Restart, Threads, OneSessionAtATime, HeldForAThread, Running, Alive, FreshModel,
     NoThread
<1>3. Windows'
  BY DEF Restart, Windows, AnswerHasItsWindow, Asking, FreshModel, NoCall, Calling
<1>4. QED
  BY <1>1, <1>2, <1>3 DEF IInv, Threads, Windows

\* The threads write a status line, drop the ticket, and move themselves.
LEMMA ThreadStep ==
  ASSUME IInv, NEW r \in Run, ThreadNext(r) \/ LinkBreaks(r)
  PROVE  /\ model' \in Model /\ inject' \in BOOLEAN /\ offer' \subseteq Session
         /\ model'.incoming = model.incoming /\ model'.confirm = model.confirm
         /\ UNCHANGED <<server, queue, open, shown, ui>>
<1> USE DEF IInv, Rest
<1>1. ASSUME NEW status \in Status, Says(status)
      PROVE  /\ model' \in Model
             /\ model'.incoming = model.incoming /\ model'.confirm = model.confirm
  BY <1>1 DEF Says, TypeOK, Model
<1>2. {"session", "none"} \subseteq Status
  BY DEF Status
<1>3. CASE \E reached, admitted \in BOOLEAN : Connect(r, reached, admitted)
  <2>1. Says("session") \/ Says("none")
    BY <1>3 DEF Connect
  <2>2. /\ offer' \subseteq Session /\ inject' \in BOOLEAN
        /\ UNCHANGED <<server, queue, open, shown, ui>>
    BY <1>3 DEF Connect, TypeOK
  <2>3. QED
    BY <1>1, <1>2, <2>1, <2>2
<1>4. CASE EnterLoop(r) \/ LinkBreaks(r) \/ \E reached \in BOOLEAN : PunchReturns(r, reached)
  BY <1>4 DEF EnterLoop, LinkBreaks, PunchReturns, TypeOK
<1>5. CASE SwitchToDirect(r)
  BY <1>1, <1>2, <1>5 DEF SwitchToDirect, TypeOK
<1>6. CASE \E answered \in BOOLEAN : RefreshMedia(r, answered)
  <2>1. PICK status \in Status : Says(status)
    BY <1>2, <1>6 DEF RefreshMedia, Says, TypeOK, Model
  <2>2. QED
    BY <1>1, <1>6, <2>1 DEF RefreshMedia, TypeOK
<1>7. CASE Finish(r)
  <2>1. model' = [model EXCEPT !.status = "none", !.ticket = None]
    BY <1>7 DEF Finish
  <2>2. model' \in Model
        /\ model'.incoming = model.incoming /\ model'.confirm = model.confirm
    BY <1>2, <2>1 DEF TypeOK, Model
  <2>3. QED
    BY <1>7, <2>2 DEF Finish, TypeOK
<1>8. QED
  BY <1>3, <1>4, <1>5, <1>6, <1>7 DEF ThreadNext

\* A thread that goes on keeps its session and its ticket, one that ends drops
\* the ticket, one that was over stays so.
Onward(r) ==
  /\ model'.ticket = model.ticket
  /\ thread'[r].sess = thread[r].sess
  /\ Alive(r)' => Alive(r)
  /\ Alive(r) => Alive(r)' \/ thread'[r].pc = "failed"
  /\ thread[r].pc = "failed" => thread'[r].pc = "failed"

Ends(r) == /\ Alive(r) /\ model'.ticket = None /\ ~Alive(r)'

Fades(r) == /\ model'.ticket = model.ticket /\ thread[r].pc = "gone" /\ ~Alive(r)'

LEMMA ThreadMoves ==
  ASSUME IInv, NEW r \in Run, ThreadNext(r) \/ LinkBreaks(r)
  PROVE  /\ thread' \in [Run -> Thread]
         /\ \A q \in Run \ {r} : thread'[q] = thread[q]
         /\ Onward(r) \/ Ends(r) \/ Fades(r)
<1> USE DEF IInv
<1>1. thread \in [Run -> Thread] /\ thread[r] \in Thread
  BY DEF TypeOK
<1>2. CASE \E reached, admitted \in BOOLEAN : Connect(r, reached, admitted)
  <2>1. PICK reached, admitted \in BOOLEAN : Connect(r, reached, admitted)
    BY <1>2
  <2>2. model'.ticket = model.ticket
    BY <2>1 DEF Connect, Says, TypeOK, Model
  <2>3. thread' = [thread EXCEPT ![r] =
          IF reached THEN [@ EXCEPT !.pc = "joined", !.punch = "probing", !.link = admitted]
                     ELSE [@ EXCEPT !.pc = "failed"]]
    BY <2>1, <1>1 DEF Connect
  <2>4. thread[r].pc = "connecting"
    BY <2>1 DEF Connect
  <2>5. QED
    BY <1>1, <2>2, <2>3, <2>4 DEF Thread, Onward, Alive
<1>3. CASE EnterLoop(r)
  BY <1>1, <1>3 DEF EnterLoop, Thread, Onward, Alive
<1>4. CASE LinkBreaks(r)
  BY <1>1, <1>4 DEF LinkBreaks, Thread, Onward, Alive
<1>5. CASE SwitchToDirect(r)
  <2>1. model'.ticket = model.ticket
    BY <1>5 DEF SwitchToDirect, Says, TypeOK, Model
  <2>2. QED
    BY <1>1, <1>5, <2>1 DEF SwitchToDirect, Thread, Onward, Alive
<1>6. CASE \E answered \in BOOLEAN : RefreshMedia(r, answered)
  <2>1. PICK keep \in BOOLEAN :
          /\ thread[r].pc \in {"relay", "direct"}
          /\ model' = [model EXCEPT !.status = IF keep THEN @ ELSE "session"]
          /\ thread' = [thread EXCEPT ![r].video = IF thread[r].pc = "relay" THEN keep ELSE @]
    BY <1>6, Zenon DEF RefreshMedia
  <2>2. model'.ticket = model.ticket
    BY <2>1 DEF TypeOK, Model
  <2>3. QED
    BY <1>1, <2>1, <2>2 DEF Thread, Onward, Alive
<1>7. CASE \E reached \in BOOLEAN : PunchReturns(r, reached)
  <2>1. UNCHANGED model /\ thread[r].punch = "probing"
    BY <1>7 DEF PunchReturns
  <2>2. CASE thread[r].pc = "gone"
    <3>1. thread' = [thread EXCEPT ![r] = NoThread]
      BY <1>7, <2>2, <1>1 DEF PunchReturns
    <3>2. QED
      BY <1>1, <2>1, <2>2, <3>1 DEF Thread, NoThread, Fades, Alive
  <2>3. CASE thread[r].pc # "gone"
    <3>1. PICK p \in {"sent", "none"} : thread' = [thread EXCEPT ![r] = [@ EXCEPT !.punch = p]]
      BY <1>7, <2>3, <1>1 DEF PunchReturns
    <3>2. QED
      BY <1>1, <2>1, <3>1 DEF Thread, Onward, Alive
  <2>4. QED
    BY <2>2, <2>3
<1>8. CASE Finish(r)
  <2>1. model'.ticket = None
    BY <1>8 DEF Finish, TypeOK, Model
  <2>2. PICK t \in {NoThread, [thread[r] EXCEPT !.pc = "gone"]} :
          thread' = [thread EXCEPT ![r] = t]
    BY <1>8, <1>1 DEF Finish
  <2>3. t \in Thread /\ t.pc \in {"free", "gone"}
    <3>1. CASE t = NoThread
      BY <3>1 DEF NoThread, Thread
    <3>2. CASE t = [thread[r] EXCEPT !.pc = "gone"]
      BY <1>1, <3>2 DEF Thread
    <3>3. QED
      BY <2>2, <3>1, <3>2
  <2>4. QED
    BY <1>1, <1>8, <2>1, <2>2, <2>3 DEF Finish, Ends, Alive
<1>9. QED
  BY <1>2, <1>3, <1>4, <1>5, <1>6, <1>7, <1>8 DEF ThreadNext

LEMMA ThreadInv ==
  ASSUME IInv, NEW r \in Run, ThreadNext(r) \/ LinkBreaks(r) PROVE IInv'
<1>1. TypeOK' /\ Windows'
  BY ThreadStep, ThreadMoves, WindowsKept DEF IInv, TypeOK, Windows
<1>2. \A q \in Run \ {r} : thread'[q] = thread[q] /\ (Alive(q)' <=> Alive(q))
  BY ThreadMoves DEF Alive
<1>3. ASSUME Onward(r) PROVE Threads'
  <2>1. OneSessionAtATime'
    BY <1>2, <1>3 DEF IInv, Onward, OneSessionAtATime
  <2>2. HeldForAThread'
    <3> SUFFICES ASSUME model.ticket # None
                 PROVE  \E q \in Run : /\ thread'[q].sess = model.ticket
                                       /\ Alive(q)' \/ thread'[q].pc = "failed"
      BY <1>3 DEF HeldForAThread, Onward
    <3>1. PICK q \in Run : /\ thread[q].sess = model.ticket
                           /\ Alive(q) \/ thread[q].pc = "failed"
      BY DEF IInv, HeldForAThread
    <3>2. QED
      BY <1>2, <1>3, <3>1 DEF Onward
  <2>3. Running'
    BY <1>2, <1>3 DEF IInv, Onward, Running
  <2>4. QED
    BY <2>1, <2>2, <2>3 DEF Threads
<1>4. ASSUME Ends(r) PROVE Threads'
  <2>1. \A q \in Run : ~Alive(q)'
    BY <1>2, <1>4 DEF IInv, Ends, OneSessionAtATime
  <2>2. QED
    BY <1>4, <2>1 DEF Threads, Ends, OneSessionAtATime, HeldForAThread, Running
<1>5. ASSUME Fades(r) PROVE Threads'
  <2>1. ~Alive(r) /\ thread[r].pc # "failed" /\ ~Alive(r)' /\ model'.ticket = model.ticket
    BY <1>5 DEF Fades, Alive
  <2>2. OneSessionAtATime'
    BY <1>2, <2>1 DEF IInv, OneSessionAtATime
  <2>3. HeldForAThread'
    <3> SUFFICES ASSUME model.ticket # None
                 PROVE  \E q \in Run : /\ thread'[q].sess = model.ticket
                                       /\ Alive(q)' \/ thread'[q].pc = "failed"
      BY <2>1 DEF HeldForAThread
    <3>1. PICK q \in Run : /\ thread[q].sess = model.ticket
                           /\ Alive(q) \/ thread[q].pc = "failed"
      BY DEF IInv, HeldForAThread
    <3>2. QED
      BY <1>2, <2>1, <3>1
  <2>4. Running'
    BY <1>2, <2>1 DEF IInv, Running
  <2>5. QED
    BY <2>2, <2>3, <2>4 DEF Threads
<1>6. QED
  BY <1>1, <1>3, <1>4, <1>5, ThreadMoves DEF IInv, Threads, Windows

LEMMA Invariant == Spec => []IInv
<1>1. IInv /\ [Next]_vars => IInv'
  <2> SUFFICES ASSUME IInv, [Next]_vars PROVE IInv'
    OBVIOUS
  <2>1. CASE UNCHANGED vars
    BY <2>1 DEF vars, IInv, TypeOK, OneSessionAtATime, HeldForAThread, AnswerHasItsWindow,
       Running, Asking, Alive
  <2>2. CASE Next
    BY <2>2, ServerInv, FinishingInv, ClickInv, RestartInv, PollInv, ThreadInv DEF Next
  <2>3. QED
    BY <2>1, <2>2
<1>2. QED
  BY <1>1, InvInit, PTL DEF Spec

\* The Model, the calls, the windows and the threads keep their types.
THEOREM TypeCorrect == Spec => []TypeOK
<1>1. IInv => TypeOK
  BY DEF IInv
<1>2. QED
  BY <1>1, Invariant, PTL

\* However tickets, stops, broken links and punch threads interleave, one relay
\* thread at a time runs, and it is the one whose ticket the Model holds.
THEOREM OneSession == Spec => []OneSessionAtATime
<1>1. IInv => OneSessionAtATime
  BY DEF IInv
<1>2. QED
  BY <1>1, Invariant, PTL

\* A ticket is never held for a thread that is not there: only a relay that
\* could not be reached leaves one behind.
THEOREM TicketIsReleased == Spec => []HeldForAThread
<1>1. IInv => HeldForAThread
  BY DEF IInv
<1>2. QED
  BY <1>1, Invariant, PTL

\* The session an answer would be for is the one of the window it closes.
THEOREM AnswersWhatIsShown == Spec => []AnswerHasItsWindow
<1>1. IInv => AnswerHasItsWindow
  BY DEF IInv
<1>2. QED
  BY <1>1, Invariant, PTL

=============================================================================
