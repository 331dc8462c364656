---------------------------- MODULE ScreenStream ----------------------------
(***************************************************************************)
(* The picture's way from the shared screen to the controller's window:    *)
(* the host's session loop reads the screen (DXGI or GDI), leaves out a    *)
(* picture whose hash it knows, encodes it (Media Foundation, OpenH264,    *)
(* JPEG), sends it over the relay or, later, over datagrams; the           *)
(* controller decodes what arrives and shows it.                           *)
(*                                                                         *)
(* A coded picture names the one before it as its reference: it decodes    *)
(* only in a decoder whose last picture is that one.  The controller has   *)
(* two decoders, each with a last picture of its own, and asks the second  *)
(* only when the first gives nothing.  What the system's encoders and      *)
(* OpenH264 are relied on for: a fresh encoder starts with an intra        *)
(* picture; OpenH264's encoder opens, codes its first picture, and keeps a *)
(* forced intra picture pending until it codes one.  Of the decoders       *)
(* nothing is relied on: each may refuse any picture or keep it back.      *)
(***************************************************************************)
EXTENDS Integers, Sequences, SequencesExt

CONSTANTS
  Picture,     \* what the screen can show
  HashOf,      \* fnv1a over every H264_HASH_STRIDE-th byte of a picture
  None,        \* Option::None; also "no reference"
  Wrong,       \* a picture that is not the frame's own: decoded against the
               \* wrong reference, or an older one that comes late
  Backend,     \* the encoders MfH264Encoder::open can find, of {"mf", "deaf"}:
               \* "deaf" has no ICodecAPI and takes no request for a keyframe
  Grabber,     \* how the screen is read, a subset of {"dxgi", "gdi"}
  Period,      \* KEYFRAME_PERIOD, 45 in the code
  MaxWire      \* bound: frames under way on a link

ASSUME PictureAssumption ==
  /\ None \notin Picture /\ Wrong \notin Picture /\ None # Wrong
  /\ HashOf \in [Picture -> Nat \ {0}]
ASSUME BackendAssumption ==
  Backend \subseteq {"mf", "deaf"} /\ Grabber \subseteq {"dxgi", "gdi"}
ASSUME BoundAssumption ==
  Period \in Nat \ {0, 1} /\ MaxWire \in Nat \ {0}

Ids     == 4 * MaxWire + 4   \* bound: coded pictures told apart
Thrown  == 0                 \* a coded picture that was thrown away
NoHash  == 0                 \* last_hash of a grabber that owes a picture
Link    == {"relay", "direct"}

VARIABLES
  screen,    \* what the shared screen shows
  prefer,    \* ScreenGrabber.prefer_dxgi
  dxgi,      \* its DxgiGrabber: "none", "dirty" (the desktop changed since the
             \* last AcquireNextFrame), "clean"
  last,      \* its last_hash
  enc,       \* its h264
  unsent,    \* encode_jpeg_bgr failed on the last picture grabbed for the relay
  uncapped,  \* its uncapped_resolution
  sending,   \* send_relay_video
  hostLink,  \* the link the host's loop sends on
  viewLink,  \* the link the controller's loop reads
  wire,      \* video frames under way on each link
  asked,     \* the links with a RequestKeyframe under way to the host
  dec,       \* the last picture that each of the two DECODERs decoded
  view,      \* picture_bgr
  given      \* did the last frame read give its own picture, not none or an older?

grabVars == <<prefer, dxgi, last, enc, unsent, uncapped>>
viewVars == <<dec, view, given>>
linkVars == <<hostLink, viewLink, asked>>
vars == <<screen, grabVars, sending, linkVars, wire, viewVars>>

-----------------------------------------------------------------------------
(* The values *)

PictureId == 1..Ids

Encoder == [kind: {"mf", "deaf", "soft"},
            index: 0..Period-1,         \* keyframes.frame_index modulo period
            force: BOOLEAN,             \* keyframes.pending_force
            stuck: BOOLEAN,             \* OpenH264 still owes a forced intra picture
            at: PictureId \cup {None}]  \* the last picture it coded

Frame == [codec: {"h264", "jpeg"}, picture: Picture,
          id: PictureId \cup {None}, ref: PictureId \cup {None, Thrown}]

Decoder == {"mf", "soft"}

Complete(f) == f.ref = None      \* needs no other picture to be decoded

-----------------------------------------------------------------------------
(* The encoder *)

\* KeyframeSchedule::new, in MfH264Encoder::open and SoftH264Encoder::open.
Fresh(kind) == [kind |-> kind, index |-> 0, force |-> FALSE, stuck |-> FALSE,
                at |-> None]

\* H264Encoder::open: a Media Foundation encoder if one opens, or OpenH264.
Opened == {Fresh(kind) : kind \in Backend \cup {"soft"}}

\* KeyframeSchedule::should_force and advance
ForceFirstOnly(e) == e.force \/ e.at = None                      \* mutant
AdvanceUnwrapped(e) == [e EXCEPT !.force = FALSE, !.index = @ + 1] \* mutant
should_force(e) == e.force \/ e.index = 0
advance(e) == [e EXCEPT !.force = FALSE, !.index = (@ + 1) % Period]

\* KeyframeSchedule::request_now, through H264Encoder::request_keyframe
request_now(e) == [e EXCEPT !.force = TRUE]

\* What one encode_bgr leaves: the encoder, the picture coded under the number
\* id, and its reference.
Intra(e, id) == [enc |-> [e EXCEPT !.at = id, !.stuck = FALSE], id |-> id, ref |-> None]
Inter(e, id) == [enc |-> [e EXCEPT !.at = id], id |-> id, ref |-> e.at]

\* encode_bgr gives None.
Nothing(e) == [enc |-> e, id |-> None, ref |-> None]

Coded(e, must, id) ==
  {Intra(e, id)} \cup (IF must \/ e.at = None THEN {} ELSE {Inter(e, id)})

\* SoftH264Encoder::encode_bgr.  The rate control may leave a picture out: the
\* bitstream is empty, which is no Annex-B.
SoftEncode(e, id) ==
  LET forced == should_force(e) \/ e.stuck
      e1 == [advance(e) EXCEPT !.stuck = forced]
  IN Coded(e1, forced, id) \cup (IF e.at = None THEN {} ELSE {Nothing(e1)})

\* When an output still due comes while encode_async waits for NeedInput, the
\* picture is thrown away, and this one is coded after it.
AfterThrown(codings) ==
  {[c EXCEPT !.ref = Thrown] : c \in {x \in codings : x.ref # None}}

\* MfH264Encoder::encode_bgr.  It gives None when no NeedInput comes, when the
\* input is refused, and when the output is late: then the picture is coded.
MfEncode(e, id) ==
  LET e1 == advance(e)
      coded == Coded(e1, should_force(e) /\ e.kind # "deaf", id)
  IN coded \cup AfterThrown(coded) \cup {Nothing(e1)} \cup {Nothing(c.enc) : c \in coded}

\* H264Encoder::encode_bgr: whenever Media Foundation gives nothing, OpenH264
\* takes its place for good and codes this picture.
KeepMf(e, id) == IF e.kind = "soft" THEN SoftEncode(e, id) ELSE MfEncode(e, id)   \* mutant
encode_bgr(e, id) ==
  IF e.kind = "soft" THEN SoftEncode(e, id)
  ELSE UNION {IF c.id # None THEN {c} ELSE SoftEncode(Fresh("soft"), id) : c \in MfEncode(e, id)}

-----------------------------------------------------------------------------
(* The grabber *)

\* grab_bgr_scaled: what reading the screen leaves of the duplication, and the
\* picture read, or None.  A lost duplication is dropped and GDI takes over
\* until the next call opens another, whose first frame is the whole desktop.
ReadBy(d) ==
  CASE d = "dirty" -> {[dxgi |-> "clean", picture |-> screen]}
    [] d = "clean" -> {[dxgi |-> "clean", picture |-> None],     \* timeout
                       [dxgi |-> "clean", picture |-> screen]}   \* pointer moved
    [] d = "none"  -> {}

grab_bgr_scaled ==
  {[dxgi |-> "none", picture |-> screen]}
    \cup (IF prefer THEN ReadBy(IF dxgi = "none" THEN "dirty" ELSE dxgi) ELSE {})

\* A picture goes on the link the host uses; a relay that the controller has
\* left takes it to nobody.
Send(f) ==
  wire' = IF hostLink = "relay" /\ viewLink = "direct" THEN wire
          ELSE [wire EXCEPT ![hostLink] = Append(@, f)]

FrameOf(c, p) == [codec |-> IF c.id = None THEN "jpeg" ELSE "h264", picture |-> p,
                  id |-> c.id, ref |-> c.ref]

\* The numbers that name a picture still referred to, and the least other.
Named == {dec[x] : x \in Decoder} \cup (IF enc = None THEN {} ELSE {enc.at})
           \cup UNION {{f.id, f.ref} : f \in Range(wire["relay"]) \cup Range(wire["direct"])}
NextId == LET free == PictureId \ Named IN {n \in free : \A m \in free : n <= m}

\* ScreenGrabber::try_h264_frame, and the JPEG that stands in for it, which
\* encode_jpeg_bgr may fail to give.
EncodeNoJpeg(p) ==                                             \* mutant
  /\ Len(wire[hostLink]) < MaxWire
  /\ \E e \in IF enc = None THEN Opened ELSE {enc}, id \in NextId :
       \E c \in encode_bgr(e, id) :
         /\ enc' = c.enc
         /\ IF c.id = None THEN UNCHANGED wire ELSE Send(FrameOf(c, p))
         /\ unsent' = FALSE

Encode(p) ==
  /\ Len(wire[hostLink]) < MaxWire
  /\ \E e \in IF enc = None THEN Opened ELSE {enc}, id \in NextId :
       \E c \in encode_bgr(e, id) :
         /\ enc' = c.enc
         /\ \/ Send(FrameOf(c, p)) /\ unsent' = FALSE
            \/ c.id = None /\ unsent' = (hostLink = "relay") /\ UNCHANGED wire

\* ScreenGrabber::grab_jpeg_frame and the send behind it, once round the loop
\* of run_host_relay or run_host_direct.
grab_jpeg_frame ==
  /\ UNCHANGED <<screen, prefer, uncapped, sending, linkVars, viewVars>>
  /\ hostLink = "direct" \/ sending
  /\ \E g \in grab_bgr_scaled :
       /\ dxgi' = g.dxgi
       /\ IF g.picture = None \/ HashOf[g.picture] = last
          THEN UNCHANGED <<last, enc, unsent, wire>>
          ELSE last' = HashOf[g.picture] /\ Encode(g.picture)

\* ScreenGrabber::set_bitrate_kbps with another rate, from refresh_session_media.
set_bitrate_kbps ==
  /\ enc' = None /\ last' = NoHash
  /\ UNCHANGED <<screen, prefer, dxgi, unsent, uncapped, sending, linkVars, wire,
                 viewVars>>

\* refresh_session_media: does the control plane still want relay video?
RefreshSending ==
  /\ hostLink = "relay"
  /\ sending' \in BOOLEAN
  /\ UNCHANGED <<screen, grabVars, linkVars, wire, viewVars>>

\* A Control frame in the session loop, and ScreenGrabber::request_keyframe.
request_keyframe ==
  /\ hostLink \in asked
  /\ asked' = asked \ {hostLink}
  /\ enc' = IF enc = None THEN None ELSE request_now(enc)
  /\ last' = NoHash
  /\ UNCHANGED <<screen, prefer, dxgi, unsent, uncapped, sending, hostLink, viewLink,
                 wire, viewVars>>

\* run_host_direct begins with enable_peer_native_resolution.
enable_peer_native_resolution ==
  /\ hostLink = "relay" /\ hostLink' = "direct"
  /\ uncapped' = TRUE
  /\ enc' = IF uncapped THEN enc ELSE None
  /\ last' = IF uncapped THEN last ELSE NoHash
  /\ sending' = TRUE /\ unsent' = FALSE       \* run_host_relay's are left behind
  /\ asked' = asked \ {"relay"}
  /\ UNCHANGED <<screen, prefer, dxgi, viewLink, wire, viewVars>>

-----------------------------------------------------------------------------
(* The controller *)

\* What a decoder at picture d makes of a coded picture.
Decodes(f, d) == Complete(f) \/ f.ref = d
Result(f, d)  == IF Decodes(f, d) THEN f.picture ELSE Wrong

\* Where it is then.  A decoder that a picture has passed by holds nothing that
\* a later one refers to; a datagram that was overtaken might still refer to it,
\* and is then taken for one that cannot be decoded.
Place(f, d, took) == IF took /\ Decodes(f, d) THEN f.id ELSE None

\* A picture that a decoder does not take, takes and gives nothing for, or gives.
NotTaken   == [took |-> FALSE, gives |-> None, given |-> FALSE]
NoPicture  == [NotTaken EXCEPT !.took = TRUE]
Gives(p)   == [took |-> TRUE, gives |-> p, given |-> TRUE]

\* mf_h264_decode::try_decode_annex_b_to_bgr.  Every "?" before ProcessInput
\* leaves the picture out; after it the decoder may keep it back, lose it in a
\* failed drain, or first give an older one that it had kept back: of two that
\* come together the first is shown.
MfDecode(f) == {NotTaken, NoPicture, Gives(Result(f, dec.mf)),
                [Gives(Wrong) EXCEPT !.given = FALSE]}

\* h264_soft_decode::decode_annex_b_to_bgr.
SoftDecode(f) == {NotTaken, NoPicture, Gives(Result(f, dec.soft))}

\* h264_decode::decode_annex_b_to_bgr: OpenH264 is asked when Media Foundation
\* gives nothing.  What both leave, and the picture in the window.
After(f, m, o) ==
  LET shown == IF m.gives # None THEN m ELSE o IN
  [dec |-> [mf |-> Place(f, dec.mf, m.took), soft |-> Place(f, dec.soft, o.took)],
   view |-> IF shown.gives # None THEN shown.gives ELSE view,
   given |-> shown.given]

Decoded(f) ==
  UNION {{After(f, m, o) : o \in IF m.gives # None THEN {NotTaken} ELSE SoftDecode(f)} :
           m \in MfDecode(f)}

\* image::load_from_memory may fail as well.
Shown(f) ==
  IF f.codec = "h264" THEN Decoded(f)
  ELSE {[dec |-> dec, view |-> f.picture, given |-> TRUE],
        [dec |-> dec, view |-> view, given |-> FALSE]}

\* apply_video_frame of the frame read from the link: the relay keeps the
\* order, a datagram may overtake another.
apply_video_frame(i) ==
  /\ UNCHANGED <<screen, grabVars, sending, linkVars>>
  /\ i \in 1..Len(wire[viewLink])
  /\ viewLink = "relay" => i = 1
  /\ \E s \in Shown(wire[viewLink][i]) :
       /\ dec' = s.dec /\ view' = s.view /\ given' = s.given
  /\ wire' = [wire EXCEPT ![viewLink] = RemoveAt(@, i)]

\* run_controller_direct: the relay session is dropped, and whatever of it was
\* not read; the direct link is asked for a keyframe.
run_controller_direct ==
  /\ viewLink = "relay" /\ viewLink' = "direct"
  /\ wire' = [wire EXCEPT !.relay = <<>>]
  /\ asked' = (asked \ {"relay"}) \cup {"direct"}
  /\ UNCHANGED <<screen, grabVars, sending, hostLink, viewVars>>

-----------------------------------------------------------------------------
(* The screen and the datagrams *)

ScreenChanges ==
  /\ screen' \in Picture \ {screen}
  /\ dxgi' = IF dxgi = "clean" THEN "dirty" ELSE dxgi
  /\ UNCHANGED <<prefer, last, enc, unsent, uncapped, sending, linkVars, wire, viewVars>>

\* A frame goes in several datagrams, and is never put together when one is lost.
LoseDatagram ==
  /\ UNCHANGED <<screen, grabVars, sending, hostLink, viewLink, viewVars>>
  /\ \/ \E i \in 1..Len(wire.direct) : wire' = [wire EXCEPT !.direct = RemoveAt(@, i)]
        /\ UNCHANGED asked
     \/ "direct" \in asked /\ asked' = asked \ {"direct"} /\ UNCHANGED wire

-----------------------------------------------------------------------------
\* run_host_relay up to its loop (ScreenGrabber::new; uncapped for a relay on
\* the intranet), and run_controller_relay up to its loop.
Init ==
  /\ screen \in Picture
  /\ \E g \in Grabber : prefer = (g = "dxgi") /\ dxgi = IF prefer THEN "dirty" ELSE "none"
  /\ last = NoHash /\ enc = None /\ unsent = FALSE
  /\ uncapped \in BOOLEAN
  /\ sending = TRUE
  /\ hostLink = "relay" /\ viewLink = "relay"
  /\ wire = [l \in Link |-> <<>>]
  /\ asked = {"relay"}
  /\ dec = [x \in Decoder |-> None]
  /\ view = None /\ given = TRUE

Show == \E i \in 1..MaxWire : apply_video_frame(i)

Next == \/ grab_jpeg_frame
        \/ set_bitrate_kbps
        \/ RefreshSending
        \/ request_keyframe
        \/ enable_peer_native_resolution
        \/ Show
        \/ run_controller_direct
        \/ ScreenChanges
        \/ LoseDatagram

Spec == Init /\ [][Next]_vars

\* The two loops go round and read what has come.  A duplication of a desktop
\* that does not change owes the host's loop nothing.
Fairness == /\ WF_vars(dxgi # "clean" /\ grab_jpeg_frame)
            /\ WF_vars(request_keyframe)
            /\ WF_vars(Show)

FairSpec == Spec /\ Fairness

-----------------------------------------------------------------------------
(* Properties *)

\* Every variable keeps its type.
TypeOK ==
  /\ screen \in Picture /\ prefer \in BOOLEAN
  /\ dxgi \in {"none", "dirty", "clean"}
  /\ last \in {NoHash} \cup {HashOf[p] : p \in Picture}
  /\ enc \in Encoder \cup {None} /\ unsent \in BOOLEAN
  /\ uncapped \in BOOLEAN /\ sending \in BOOLEAN
  /\ hostLink \in Link /\ viewLink \in Link /\ asked \subseteq Link
  /\ wire \in [Link -> Seq(Frame)] /\ \A l \in Link : Len(wire[l]) <= MaxWire
  /\ dec \in [Decoder -> PictureId \cup {None}]
  /\ view \in Picture \cup {None, Wrong} /\ given \in BOOLEAN

\* x is the last coded picture among the first n of s, or d when there is none.
H264(f) == f.codec = "h264"
LastCoded(s, d, n, x) ==
  \/ \E j \in 1..n : /\ H264(s[j]) /\ s[j].id = x
                     /\ \A k \in j+1..n : ~H264(s[k])
  \/ d = x /\ \A k \in 1..n : ~H264(s[k])

\* Each coded picture of s refers to the one before it, the first one to d, as
\* long as the encoder threw none away.
Chained(s, d) ==
  \A i \in 1..Len(s) :
    H264(s[i]) /\ s[i].ref \notin {None, Thrown} => LastCoded(s, d, i-1, s[i].ref)

\* A decoder that has missed nothing on the relay finds there what each picture
\* refers to: not an encoder replaced in mid-stream, not a picture that went out
\* as JPEG instead, not a suspension of relay video breaks the chain.  Only a
\* picture thrown away by Media Foundation's encoder does.
RelayIntact ==
  viewLink = "relay" =>
    \E d \in PictureId \cup {None} :
      Chained(wire["relay"], d) /\ \A x \in Decoder : dec[x] \in {d, None}

Obeys(e) == e = None \/ e.kind # "deaf"

\* A picture that is wrong in the window does not stay though nobody asks for
\* another: when no more datagrams are lost, pictures go on going out and one of
\* the two decoders gives each, a right picture replaces it, at the latest with
\* the next of every Period.
PictureGoesOut == \E l \in Link : Len(wire'[l]) > Len(wire[l])
DamageHeals ==
  []<><<PictureGoesOut>>_vars /\ <>[][~LoseDatagram]_vars /\ <>[]Obeys(enc) /\ <>[]given
    => []<>(view # Wrong)

\* Once the screen rests, the window over the relay shows it, as far as the
\* hash tells pictures apart, or one of two things went wrong with the last
\* picture: neither encoder gave anything to send, or the decoders gave nothing
\* for it, an older picture, or one decoded against the wrong reference.  Its
\* hash is known by then, and nothing repeats it.
Shows == view \in Picture /\ HashOf[view] = HashOf[screen]
NotGiven == ~given \/ view = Wrong
RestingScreenIsShown ==
  <>[][screen' = screen]_screen =>
    []<>(Shows \/ unsent \/ NotGiven \/ hostLink # "relay" \/ viewLink # "relay" \/ ~sending)

=============================================================================
