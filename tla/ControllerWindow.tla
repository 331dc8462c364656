-------------------------- MODULE ControllerWindow --------------------------
(***************************************************************************)
(* The controlling machine's program, apps/desktop-controller, and the way *)
(* of its user's clicks and keys: the window thread turns them into input  *)
(* events, the session thread sends them over the relay or the direct      *)
(* link, the host's loop injects them.  The geometry is the code's own, on *)
(* windows and screens of real size.                                       *)
(*                                                                         *)
(* Outside src/apps: what the control plane answers, the links (the relay  *)
(* keeps the order; datagrams may be lost, overtaken or repeated), Windows.*)
(***************************************************************************)
EXTENDS Integers, Sequences, SequencesExt, FiniteSets

CONSTANTS
  Button,      \* mouse buttons, a subset of {"left", "right", "middle"}
  Key,         \* keys, "esc" among them
  Client,      \* the client area's size when windowed, <<width, height>>
  Monitor,     \* the monitor's size
  Screen,      \* the shared screen's size
  MaxWidth,    \* the widths the rates allow: max_capture_width_for_bitrate_kbps
  MaxQueue,    \* bound: events waiting in the channel
  MaxWire,     \* bound: events under way on the link
  MaxPoll      \* bound: the 120 rounds of waiting for the host's consent

Size == (Nat \ {0}) \X (Nat \ {0})
ASSUME SizeAssumption  ==
  Client \in Size /\ Monitor \in Size /\ Screen \in Size /\ MaxWidth \subseteq Nat \ {0}
\* Beyond this width screen_x * 65535 would no longer fit the i32 of inject.rs.
ASSUME ScreenAssumption == Screen[1] <= 32768 /\ Screen[2] <= 32768
ASSUME InputAssumption == Button \subseteq {"left", "right", "middle"} /\ Button \cap Key = {}
ASSUME BoundAssumption == {MaxQueue, MaxWire, MaxPoll} \subseteq Nat \ {0}

Control == Button \cup Key

VARIABLES
  window,    \* fullscreen and toolbar_visible of MODEL, and HIDE_TIMER
  meter,     \* its view_only and ways_open
  direct,    \* its link_direct
  picture,   \* its picture_width and picture_height
  held,      \* the buttons and keys the user holds down
  tx,        \* INPUT_TX is set
  queue,     \* the input channel
  thread,    \* the session thread: where it is, and the polls it has made
  wire,      \* input under way to the host
  pressed,   \* what Windows holds pressed on the shared machine
  excuse     \* releases that got lost on the way, by what was released

winVars  == <<window, meter>>
linkVars == <<direct, tx, thread>>
vars == <<window, meter, direct, picture, held, tx, queue, thread,
          wire, pressed, excuse>>

-----------------------------------------------------------------------------
(* Geometry: sizes and points are <<x, y>> *)

TOOLBAR_HEIGHT == 48
FACT_HEIGHT    == 40
Unpainted      == <<16, 9>>     \* PICTURE_WIDTH and PICTURE_HEIGHT

Rect(l, t, w, h) == [left |-> l, top |-> t, width |-> w, height |-> h]
Larger(a, b)  == IF a > b THEN a ELSE b
Smaller(a, b) == IF a < b THEN a ELSE b

letterbox(cw, ch, pw, ph) ==
  IF cw <= 0 \/ ch <= 0 \/ pw <= 0 \/ ph <= 0 THEN Rect(0, 0, 0, 0)
  ELSE LET w == (ch * pw) \div ph
           h == (cw * ph) \div pw
       IN IF w <= cw THEN Rect((cw - w) \div 2, 0, w, ch)
          ELSE Rect(0, (ch - h) \div 2, cw, h)

fullscreen_button(client) == Rect(16, client[2] - TOOLBAR_HEIGHT + 8, 96, 32)
ways_button    == Rect(16, 150, 140, 28)
restore_button == Rect(16, 220, 160, 28)

picture_band(height, chrome) ==
  IF chrome THEN <<FACT_HEIGHT, Larger(height - TOOLBAR_HEIGHT, FACT_HEIGHT)>>
  ELSE <<0, Larger(height, 0)>>

hit_frame(p, r) == /\ p[1] >= r.left /\ p[1] < r.left + r.width
                   /\ p[2] >= r.top  /\ p[2] < r.top + r.height

ClientOf(w) == IF w.fullscreen THEN Monitor ELSE Client

\* The rectangle paint and client_to_picture put a picture of this size in.
PictureRect(w, size) ==
  LET band == picture_band(ClientOf(w)[2], w.toolbar)
      box  == letterbox(ClientOf(w)[1], Larger(band[2] - band[1], 0), size[1], size[2])
  IN [box EXCEPT !.top = @ + band[1]]

toolbar_hit(w, p) == w.toolbar /\ hit_frame(p, fullscreen_button(ClientOf(w)))
InPicture(w, size, p) == hit_frame(p, PictureRect(w, size))

\* Mutant: the black border on the left counts as picture.
BorderCounts(w, size, p) ==
  LET r == PictureRect(w, size) IN
  <<Smaller((p[1] * size[1]) \div r.width,           size[1] - 1),
    Smaller(((p[2] - r.top) * size[2]) \div r.height, size[2] - 1)>>

\* client_to_picture, for a point in the picture
client_to_picture(w, size, p) ==
  LET r == PictureRect(w, size) IN
  <<Smaller(((p[1] - r.left) * size[1]) \div r.width,  size[1] - 1),
    Smaller(((p[2] - r.top)  * size[2]) \div r.height, size[2] - 1)>>

\* inject::move_pointer: a point of a frame in Windows' absolute coordinates
ToAbsolute(x, f, s) == (((Smaller(x, f - 1) * s) \div f) * 65535) \div Larger(s - 1, 1)
move_pointer(p, size) == <<ToAbsolute(p[1], size[1], Screen[1]),
                           ToAbsolute(p[2], size[2], Screen[2])>>

\* session_core::align_h264_dimension, and the sizes capture scales the screen
\* to: scale_bgr takes the height from the width that fits, and
\* capture_bgr_scaled_gdi from that width aligned.
align_h264_dimension(v) == Larger((v \div 16) * 16, 16)
Captured(max) ==
  LET fit == Smaller(Screen[1], max) IN
  {<<align_h264_dimension(fit), align_h264_dimension((Screen[2] * w) \div Screen[1])>> :
     w \in {fit, align_h264_dimension(fit)}}

FrameSize == UNION {Captured(max) : max \in MaxWidth}

\* Where the user clicks: the middle of each button and of the window, and
\* corners of the client area.
Middle(r) == <<r.left + r.width \div 2, r.top + r.height \div 2>>
Spot == LET c == ClientOf(window) IN
        {Middle(fullscreen_button(c)), Middle(ways_button), Middle(restore_button),
         <<c[1] \div 2, c[2] \div 2>>, <<0, 0>>, <<c[1] - 1, c[2] - 60>>}

-----------------------------------------------------------------------------
(* The window thread *)

ViewOnly == {"", "resource", "permission"}
Event == [kind: {"down", "up"}, c: Control]

input_blocked == meter.view_only \in {"resource", "permission"}

\* queue_input; a release that is not queued stays out for good.
queue_input(kind, c) ==
  IF input_blocked \/ ~tx
  THEN /\ excuse' = IF kind = "up" THEN excuse \cup {c} ELSE excuse
       /\ UNCHANGED queue
  ELSE /\ Len(queue) < MaxQueue
       /\ queue' = Append(queue, [kind |-> kind, c |-> c])
       /\ excuse' = IF kind = "up" THEN excuse \ {c} ELSE excuse

\* queue_pointer: not on the toolbar's button, not on the ways button of a
\* resource view-only, and only inside the picture.
Pointed(p) == /\ ~toolbar_hit(window, p)
              /\ ~(meter.view_only = "resource" /\ hit_frame(p, ways_button))
              /\ InPicture(window, picture, p)

Swallow(kind, c) == /\ excuse' = IF kind = "up" THEN excuse \cup {c} ELSE excuse
                    /\ UNCHANGED queue

queue_pointer(kind, c, p) ==
  IF Pointed(p) THEN queue_input(kind, c) ELSE Swallow(kind, c)

\* enter_fullscreen and exit_fullscreen
enter_fullscreen == window' = [window EXCEPT !.fullscreen = TRUE, !.toolbar = FALSE]
exit_fullscreen  == window' = [window EXCEPT !.fullscreen = FALSE, !.toolbar = TRUE]
toggle_fullscreen == IF window.fullscreen THEN exit_fullscreen ELSE enter_fullscreen

\* WM_LBUTTONDOWN, WM_RBUTTONDOWN, WM_MBUTTONDOWN
ButtonDown(c) ==
  /\ c \in Button \ held /\ held' = held \cup {c}
  /\ \E p \in Spot : queue_pointer("down", c, p)
  /\ UNCHANGED <<winVars, picture, linkVars, wire, pressed>>

\* WM_LBUTTONUP, WM_RBUTTONUP, WM_MBUTTONUP: for the left button the program's
\* own buttons come first, shown or not.
ButtonUp(c) ==
  /\ c \in Button \cap held /\ held' = held \ {c}
  /\ \E p \in Spot :
       LET toolbar == c = "left" /\ toolbar_hit(window, p)
           ways    == c = "left" /\ ~toolbar /\ hit_frame(p, ways_button)
           restore == c = "left" /\ ~toolbar /\ ~ways /\ hit_frame(p, restore_button)
       IN \/ toolbar /\ toggle_fullscreen /\ Swallow("up", c) /\ UNCHANGED meter
          \/ /\ ways /\ Swallow("up", c) /\ UNCHANGED window
             /\ meter' = [meter EXCEPT !.ways_open =
                            IF meter.view_only = "resource" THEN ~@ ELSE @]
          \/ restore /\ Swallow("up", c) /\ UNCHANGED winVars
          \/ /\ ~(toolbar \/ ways \/ restore)
             /\ queue_pointer("up", c, p) /\ UNCHANGED winVars
  /\ UNCHANGED <<picture, linkVars, wire, pressed>>

\* WM_KEYDOWN, which Windows sends again and again while the key is held:
\* escape leaves fullscreen and goes no further.
KeyDown(k) ==
  /\ held' = held \cup {k}
  /\ IF k = "esc" /\ window.fullscreen
     THEN exit_fullscreen /\ UNCHANGED <<queue, excuse>>
     ELSE queue_input("down", k) /\ UNCHANGED window
  /\ UNCHANGED <<meter, picture, linkVars, wire, pressed>>

\* WM_KEYUP
KeyUp(k) ==
  /\ k \in Key \cap held /\ held' = held \ {k}
  /\ queue_input("up", k)
  /\ UNCHANGED <<winVars, picture, linkVars, wire, pressed>>

\* With Alt down a key comes as WM_SYSKEYDOWN and WM_SYSKEYUP, which the window
\* leaves to DefWindowProcW: neither its press nor its release is queued.
SysKeyDown(k) ==
  /\ held' = held \cup {k}
  /\ UNCHANGED <<winVars, picture, queue, linkVars, wire, pressed, excuse>>

SysKeyUp(k) ==
  /\ k \in Key \cap held /\ held' = held \ {k}
  /\ Swallow("up", k)
  /\ UNCHANGED <<winVars, picture, linkVars, wire, pressed>>

\* Let go outside the window, or after another window took the focus: the
\* program captures neither, and gets no message.
ReleasedElsewhere(c) ==
  /\ c \in held /\ held' = held \ {c}
  /\ excuse' = excuse \cup {c}
  /\ UNCHANGED <<winVars, picture, queue, linkVars, wire, pressed>>

\* WM_MOUSEMOVE: reveal_toolbar; the move itself is left out.
reveal_toolbar ==
  /\ window' = [window EXCEPT !.toolbar = TRUE, !.hide = @ \/ window.fullscreen]
  /\ UNCHANGED <<meter, picture, held, queue, linkVars, wire, pressed, excuse>>

\* WM_TIMER of HIDE_TIMER, which nobody kills
hide_toolbar_if_fullscreen ==
  /\ window.hide
  /\ window' = [window EXCEPT !.toolbar = @ /\ ~window.fullscreen]
  /\ UNCHANGED <<meter, picture, held, queue, linkVars, wire, pressed, excuse>>

\* What the control plane answers as viewOnly, by its latest session's state
\* and balance: a direct link does not enter into it.
viewOnly(stopped, revoked) ==
  IF stopped THEN "resource" ELSE IF revoked THEN "permission" ELSE ""

poll_meter ==
  /\ \E stopped, revoked \in BOOLEAN :
       LET v == viewOnly(stopped, revoked) IN
       meter' = [view_only |-> v, ways_open |-> meter.ways_open /\ v = "resource"]
  /\ UNCHANGED <<window, picture, held, queue, linkVars, wire, pressed, excuse>>

-----------------------------------------------------------------------------
(* The session thread *)

\* start_remote_if_configured, with a session the control plane opened
start_remote_if_configured ==
  /\ thread.pc = "none"
  /\ \E awaiting \in BOOLEAN :
       thread' = [thread EXCEPT !.pc = IF awaiting THEN "awaiting" ELSE "connecting"]
  /\ direct' = FALSE
  /\ UNCHANGED <<winVars, picture, held, tx, queue, wire, pressed, excuse>>

\* Mutant: one round too many.
AwaitOnceMore ==
  /\ thread.pc = "awaiting"
  /\ thread' = IF thread.polls = MaxPoll THEN [pc |-> "connecting", polls |-> 0]
               ELSE [thread EXCEPT !.polls = @ + 1]
  /\ UNCHANGED <<winVars, direct, picture, held, tx, queue, wire, pressed, excuse>>

\* run_controller_relay: one poll of the wait for consent.  Whatever is neither
\* active nor rejected counts as not yet; after the last poll it connects.
AwaitConsent ==
  /\ thread.pc = "awaiting"
  /\ \/ thread' = [pc |-> "connecting", polls |-> 0]               \* active
     \/ thread' = [pc |-> "over", polls |-> 0]                     \* rejected
     \/ thread' = IF thread.polls = MaxPoll - 1
                  THEN [pc |-> "connecting", polls |-> 0]
                  ELSE [thread EXCEPT !.polls = @ + 1]
  /\ UNCHANGED <<winVars, direct, picture, held, tx, queue, wire, pressed, excuse>>

\* RelaySession::connect, and what follows up to the loop
Connect ==
  /\ thread.pc = "connecting"
  /\ \/ thread' = [thread EXCEPT !.pc = "relay"] /\ tx' = TRUE /\ direct' = FALSE
     \/ thread' = [thread EXCEPT !.pc = "over"] /\ UNCHANGED <<tx, direct>>
  /\ UNCHANGED <<winVars, picture, held, queue, wire, pressed, excuse>>

UpsIn(s) == {c \in Control : \E i \in 1..Len(s) : s[i] = [kind |-> "up", c |-> c]}

\* Mutant: the direct loop opens a channel of its own.
NewChannel ==
  /\ thread.pc = "relay"
  /\ thread' = [thread EXCEPT !.pc = "direct"]
  /\ direct' = TRUE
  /\ wire' = <<>> /\ queue' = <<>> /\ excuse' = excuse \cup UpsIn(wire)
  /\ UNCHANGED <<winVars, picture, held, tx, pressed>>

\* The punch thread may have a link for the loop at any time, or never.
\* run_controller_direct: the channel goes on with the new link; what the relay
\* had not delivered is dropped with it.
run_controller_direct ==
  /\ thread.pc = "relay"
  /\ thread' = [thread EXCEPT !.pc = "direct"]
  /\ direct' = TRUE
  /\ wire' = <<>> /\ excuse' = excuse \cup UpsIn(wire)
  /\ UNCHANGED <<winVars, picture, held, tx, queue, pressed>>

\* Mutant: the direct loop reads no input.
SendOnRelayOnly ==
  /\ thread.pc = "relay" /\ queue # <<>> /\ Len(wire) < MaxWire
  /\ wire' = Append(wire, Head(queue)) /\ queue' = Tail(queue)
  /\ UNCHANGED <<winVars, direct, picture, held, tx, thread, pressed, excuse>>

\* Both loops: an event of the channel goes out on the link.
SendInput ==
  /\ thread.pc \in {"relay", "direct"} /\ queue # <<>> /\ Len(wire) < MaxWire
  /\ wire' = Append(wire, Head(queue)) /\ queue' = Tail(queue)
  /\ UNCHANGED <<winVars, direct, picture, held, tx, thread, pressed, excuse>>

\* apply_video_frame: the picture takes the size of the frame it decoded, one
\* the host's rate allows.
apply_video_frame ==
  /\ thread.pc \in {"relay", "direct"}
  /\ picture' \in FrameSize
  /\ UNCHANGED <<winVars, held, queue, linkVars, wire, pressed, excuse>>

\* The link breaks under either loop.  The direct loop first tells the control
\* plane, which takes a call, and then clears INPUT_TX and link_direct.
LinkEnds ==
  /\ thread.pc \in {"relay", "direct"}
  /\ IF thread.pc = "relay"
     THEN thread' = [thread EXCEPT !.pc = "over"] /\ tx' = FALSE
     ELSE thread' = [thread EXCEPT !.pc = "stopping"] /\ UNCHANGED tx
  /\ wire' = <<>>
  /\ queue' = IF thread.pc = "relay" THEN <<>> ELSE queue
  /\ excuse' = excuse \cup UpsIn(wire)
                      \cup (IF thread.pc = "relay" THEN UpsIn(queue) ELSE {})
  /\ UNCHANGED <<winVars, direct, picture, held, pressed>>

Stopped ==
  /\ thread.pc = "stopping"
  /\ thread' = [thread EXCEPT !.pc = "over"]
  /\ tx' = FALSE /\ direct' = FALSE
  /\ queue' = <<>> /\ excuse' = excuse \cup UpsIn(queue)
  /\ UNCHANGED <<winVars, picture, held, wire, pressed>>

-----------------------------------------------------------------------------
(* The host's loop and the datagrams *)

\* inject::apply_input of the i-th event under way.  INPUT_ALLOWED drops it
\* while the owner lets the other side only look.  A release that overtakes
\* its press, or a copy of it, does not undo that press.
apply_input(i) ==
  /\ i \in 1..Len(wire) /\ (thread.pc # "direct" => i = 1)
  /\ wire' = RemoveAt(wire, i)
  /\ \E allowed \in BOOLEAN :
       LET e == wire[i]
           overtaken == \E j \in 1..i-1 : wire[j] = [kind |-> "down", c |-> e.c]
       IN /\ pressed' = IF ~allowed THEN pressed
                        ELSE IF e.kind = "down" THEN pressed \cup {e.c}
                        ELSE pressed \ {e.c}
          /\ excuse' = IF e.kind = "up" /\ (~allowed \/ overtaken)
                       THEN excuse \cup {e.c} ELSE excuse
  /\ UNCHANGED <<winVars, picture, held, queue, linkVars>>

LoseDatagram(i) ==
  /\ thread.pc = "direct" /\ i \in 1..Len(wire)
  /\ wire' = RemoveAt(wire, i)
  /\ excuse' = excuse \cup UpsIn(<<wire[i]>>)
  /\ UNCHANGED <<winVars, picture, held, queue, linkVars, pressed>>

\* The network delivers a datagram once more: an event is one chunk, which
\* take_complete has forgotten when its copy comes, and the cipher opens both.
RepeatDatagram(i) ==
  /\ thread.pc = "direct" /\ i \in 1..Len(wire) /\ Len(wire) < MaxWire
  /\ wire' = SubSeq(wire, 1, i) \o SubSeq(wire, i, Len(wire))
  /\ UNCHANGED <<winVars, picture, held, queue, linkVars, pressed, excuse>>

-----------------------------------------------------------------------------
Init ==
  /\ window = [fullscreen |-> FALSE, toolbar |-> TRUE, hide |-> FALSE]
  /\ meter = [view_only |-> "", ways_open |-> FALSE]
  /\ direct \in BOOLEAN      \* the environment's CONTROLLER_LINK
  /\ picture = Unpainted
  /\ held = {} /\ tx = FALSE /\ queue = <<>>
  /\ thread = [pc |-> "none", polls |-> 0]
  /\ wire = <<>> /\ pressed = {} /\ excuse = {}

User == \/ \E c \in Button : ButtonDown(c) \/ ButtonUp(c)
        \/ \E k \in Key : KeyDown(k) \/ KeyUp(k) \/ SysKeyDown(k) \/ SysKeyUp(k)
        \/ \E c \in Control : ReleasedElsewhere(c)
        \/ reveal_toolbar

Session == \/ start_remote_if_configured
           \/ AwaitConsent
           \/ Connect
           \/ run_controller_direct
           \/ SendInput
           \/ apply_video_frame
           \/ LinkEnds
           \/ Stopped

Next == \/ User
        \/ hide_toolbar_if_fullscreen
        \/ poll_meter
        \/ Session
        \/ \E i \in 1..MaxWire : apply_input(i) \/ LoseDatagram(i) \/ RepeatDatagram(i)

Spec == Init /\ [][Next]_vars

\* The session thread goes round: strongly fair, since copies may fill the link
\* again and again, and the limit on what is under way is the model's.  What is
\* first under way arrives or, on the direct link, is lost.
Fairness == SF_vars(SendInput) /\ WF_vars(Stopped) /\ WF_vars(apply_input(1) \/ LoseDatagram(1))

FairSpec == Spec /\ Fairness

-----------------------------------------------------------------------------
(* Properties *)

\* Every variable keeps its type.
TypeOK ==
  /\ window \in [fullscreen: BOOLEAN, toolbar: BOOLEAN, hide: BOOLEAN]
  /\ meter \in [view_only: ViewOnly, ways_open: BOOLEAN]
  /\ direct \in BOOLEAN /\ tx \in BOOLEAN
  /\ picture \in FrameSize \cup {Unpainted}
  /\ held \subseteq Control /\ pressed \subseteq Control /\ excuse \subseteq Control
  /\ queue \in Seq(Event) /\ Len(queue) <= MaxQueue
  /\ wire \in Seq(Event) /\ Len(wire) <= MaxWire
  /\ thread \in [pc: {"none", "awaiting", "connecting", "relay", "direct", "stopping",
                      "over"}, polls: 0..MaxPoll-1]

\* Nothing stays pressed on the shared machine for a reason not in this list:
\* the user still holds it, its release is under way, or its release
\*   - was let go over one of the program's buttons, beside the picture,
\*     outside the window, with Alt down, or while input was blocked or not
\*     allowed,
\*   - was lost with a link or a datagram, or
\*   - came before its press, or before a copy of it, which pressed it again.
\* The hand-over to the direct link, above all, loses nothing of the channel.
ReleasesAccounted == pressed \subseteq held \cup UpsIn(queue) \cup UpsIn(wire) \cup excuse

\* What is still pressed on the shared machine after the user let go comes to
\* be released, unless the release was let go, lost or overtaken as above.
ReleasesArrive ==
  \A c \in Control : c \in pressed \ held ~> c \notin pressed \/ c \in held \cup excuse

\* Whatever the window's and the picture's sizes, a point clicked in the picture
\* is a point of the captured frame, and the pointer of the shared machine comes
\* to stand on what was drawn under the user's: the two are at the same share of
\* the screen and of the rectangle drawn, within one pixel of the picture and two
\* of the screen, as long as the host still captures at that size.  (Windows maps
\* the absolute coordinates to pixels.)
ToScreen(a) == <<(a[1] * Screen[1]) \div 65536, (a[2] * Screen[2]) \div 65536>>
Apart(drawn, rect, at, screen) ==
  LET d == drawn * screen - at * rect IN (IF d < 0 THEN -d ELSE d) \div rect
LandsWherePointed ==
  \A p \in Spot : picture # Unpainted /\ InPicture(window, picture, p) =>
    LET q == client_to_picture(window, picture, p)
        r == PictureRect(window, picture)
        s == ToScreen(move_pointer(q, picture))
    IN /\ q[1] \in 0..picture[1]-1 /\ q[2] \in 0..picture[2]-1
       /\ s[1] \in 0..Screen[1]-1 /\ s[2] \in 0..Screen[2]-1
       /\ Apart(p[1] - r.left, r.width, s[1], Screen[1]) <= Screen[1] \div picture[1] + 2
       /\ Apart(p[2] - r.top, r.height, s[2], Screen[2]) <= Screen[2] \div picture[2] + 2

=============================================================================
