------------------------- MODULE ScreenStream_proofs -------------------------
(***************************************************************************)
(* That the references among the pictures on the relay are never broken,   *)
(* except by a picture that Media Foundation's encoder threw away, whatever*)
(* the screen shows, whichever encoders open and fail, whatever the two    *)
(* decoders refuse or keep back, and for any period and bounds.            *)
(*                                                                         *)
(* The invariant is about the relay's wire.  Chained: each coded picture   *)
(* under way refers to the coded picture before it, the first one to the   *)
(* last one read, which a decoder holds unless it missed it.  In step with *)
(* that, the encoder's last picture is the last one on the wire.           *)
(***************************************************************************)
EXTENDS ScreenStream, SequenceTheorems, TLAPS

\* What the encoder would refer to is the last coded picture on the wire.
InStep(e, s, d) ==
  e # None /\ e.at # None => LastCoded(s, d, Len(s), e.at)

\* d is the last coded picture read off the relay: no decoder holds another.
RelayChain ==
  viewLink = "relay" =>
    \E d \in PictureId \cup {None} :
      /\ Chained(wire["relay"], d)
      /\ \A x \in Decoder : dec[x] \in {d, None}
      /\ hostLink = "relay" => InStep(enc, wire["relay"], d)

SInv == TypeOK /\ RelayChain

-----------------------------------------------------------------------------
(* The wire *)

LEMMA Bounds ==
  /\ Period \in Nat /\ Period > 1
  /\ MaxWire \in Nat /\ MaxWire > 0
BY BoundAssumption

\* What RemoveAt leaves.
LEMMA Removed ==
  ASSUME NEW S, NEW s \in Seq(S), NEW i \in 1..Len(s)
  PROVE  /\ RemoveAt(s, i) \in Seq(S) /\ Len(RemoveAt(s, i)) = Len(s) - 1
         /\ i = 1 => \A j \in 1..Len(s)-1 : RemoveAt(s, i)[j] = s[j+1]
<1> DEFINE a == SubSeq(s, 1, i-1)
           b == SubSeq(s, i+1, Len(s))
<1>1. Len(s) \in Nat
  BY LenProperties
<1>2. a \in Seq(S) /\ Len(a) = i-1
  BY <1>1, SubSeqProperties
<1>3. b \in Seq(S) /\ Len(b) = Len(s)-i /\ \A j \in 1..Len(s)-i : b[j] = s[i+j]
  BY <1>1, SubSeqProperties
<1>4. RemoveAt(s, i) = a \o b
  BY DEF RemoveAt
<1> HIDE DEF a, b
<1>5. /\ a \o b \in Seq(S) /\ Len(a \o b) = Len(a) + Len(b)
      /\ \A j \in 1..Len(a)+Len(b) :
           (a \o b)[j] = IF j <= Len(a) THEN a[j] ELSE b[j - Len(a)]
  BY <1>2, <1>3, ConcatProperties
<1>6. Len(RemoveAt(s, i)) = Len(s) - 1
  BY <1>1, <1>2, <1>3, <1>4, <1>5
<1>7. ASSUME i = 1, NEW j \in 1..Len(s)-1 PROVE RemoveAt(s, i)[j] = s[j+1]
  <2>1. j \in 1..Len(a)+Len(b) /\ ~(j <= Len(a)) /\ j - Len(a) = j
        /\ j \in 1..Len(s)-i /\ i+j = j+1
    BY <1>1, <1>2, <1>3, <1>7
  <2>2. QED
    BY <1>3, <1>4, <1>5, <2>1
<1>8. QED
  BY <1>4, <1>5, <1>6, <1>7

\* A frame sent keeps the chain, when it refers to the last coded picture.
LEMMA SentLast ==
  ASSUME NEW s \in Seq(Frame), NEW f \in Frame, NEW d, NEW x,
         LastCoded(s, d, Len(s), x)
  PROVE  ~H264(f) => LastCoded(Append(s, f), d, Len(s)+1, x)
<1> DEFINE t == Append(s, f)
<1>1. /\ \A i \in 1..Len(s) : t[i] = s[i]
      /\ t[Len(s)+1] = f /\ Len(s) \in Nat
  BY AppendProperties, LenProperties
<1> HIDE DEF t
<1>2. SUFFICES ASSUME ~H264(f) PROVE LastCoded(t, d, Len(s)+1, x)
  BY DEF t
<1>3. ASSUME NEW j \in 1..Len(s), H264(s[j]), s[j].id = x,
             \A k \in j+1..Len(s) : ~H264(s[k])
      PROVE  LastCoded(t, d, Len(s)+1, x)
  <2>1. j \in 1..Len(s)+1 /\ H264(t[j]) /\ t[j].id = x
    BY <1>1, <1>3
  <2>2. \A k \in j+1..Len(s)+1 : ~H264(t[k])
    BY <1>1, <1>2, <1>3
  <2>3. QED
    BY <2>1, <2>2 DEF LastCoded
<1>4. ASSUME d = x, \A k \in 1..Len(s) : ~H264(s[k])
      PROVE  LastCoded(t, d, Len(s)+1, x)
  <2>1. \A k \in 1..Len(s)+1 : ~H264(t[k])
    BY <1>1, <1>2, <1>4
  <2>2. QED
    BY <1>4, <2>1 DEF LastCoded
<1>5. QED
  BY <1>3, <1>4 DEF LastCoded

LEMMA SentChain ==
  ASSUME NEW s \in Seq(Frame), NEW f \in Frame, NEW d,
         Chained(s, d),
         H264(f) /\ f.ref \notin {None, Thrown} => LastCoded(s, d, Len(s), f.ref)
  PROVE  /\ Chained(Append(s, f), d)
         /\ H264(f) => LastCoded(Append(s, f), d, Len(s)+1, f.id)
<1> DEFINE t == Append(s, f)
<1>1. /\ t \in Seq(Frame) /\ Len(t) = Len(s)+1
      /\ \A i \in 1..Len(s) : t[i] = s[i]
      /\ t[Len(s)+1] = f /\ Len(s) \in Nat
  BY AppendProperties, LenProperties
<1> HIDE DEF t
<1>2. ASSUME NEW n \in 0..Len(s), NEW x, LastCoded(s, d, n, x)
      PROVE  LastCoded(t, d, n, x)
  <2>1. \A k \in 1..n : t[k] = s[k]
    BY <1>1
  <2>2. ASSUME NEW j \in 1..n, H264(s[j]), s[j].id = x,
               \A k \in j+1..n : ~H264(s[k])
        PROVE  LastCoded(t, d, n, x)
    <3>1. H264(t[j]) /\ t[j].id = x /\ \A k \in j+1..n : ~H264(t[k])
      BY <2>1, <2>2
    <3>2. QED
      BY <3>1 DEF LastCoded
  <2>3. ASSUME d = x, \A k \in 1..n : ~H264(s[k])
        PROVE  LastCoded(t, d, n, x)
    <3>1. \A k \in 1..n : ~H264(t[k])
      BY <2>1, <2>3
    <3>2. QED
      BY <2>3, <3>1 DEF LastCoded
  <2>4. QED
    BY <1>2, <2>2, <2>3 DEF LastCoded
<1>3. ASSUME NEW i \in 1..Len(t), H264(t[i]), t[i].ref \notin {None, Thrown}
      PROVE  LastCoded(t, d, i-1, t[i].ref)
  <2>1. CASE i = Len(s)+1
    <3>1. i-1 = Len(s) /\ i-1 \in 0..Len(s) /\ t[i] = f
      BY <1>1, <2>1
    <3>2. QED
      BY <1>2, <1>3, <3>1
  <2>2. CASE i \in 1..Len(s)
    <3>1. i-1 \in 0..Len(s) /\ t[i] = s[i]
      BY <1>1, <2>2
    <3>2. LastCoded(s, d, i-1, s[i].ref)
      BY <1>3, <2>2, <3>1 DEF Chained
    <3>3. QED
      BY <1>2, <3>1, <3>2
  <2>3. QED
    BY <1>1, <2>1, <2>2
<1>4. ASSUME H264(f) PROVE LastCoded(t, d, Len(s)+1, f.id)
  <2>1. /\ Len(s)+1 \in 1..Len(s)+1 /\ H264(t[Len(s)+1]) /\ t[Len(s)+1].id = f.id
        /\ \A k \in (Len(s)+1)+1..Len(s)+1 : ~H264(t[k])
    BY <1>1, <1>4
  <2>2. QED
    BY <2>1 DEF LastCoded
<1>5. QED
  BY <1>3, <1>4 DEF Chained, t

\* A frame read: the decoder takes the place of the frame in the chain.
LEMMA ReadChain ==
  ASSUME NEW s \in Seq(Frame), s # <<>>, NEW t \in Seq(Frame),
         Len(t) = Len(s)-1, \A j \in 1..Len(s)-1 : t[j] = s[j+1],
         NEW d, NEW e, e = IF H264(s[1]) THEN s[1].id ELSE d,
         Chained(s, d)
  PROVE  /\ Chained(t, e)
         /\ \A x : LastCoded(s, d, Len(s), x) => LastCoded(t, e, Len(t), x)
         /\ H264(s[1]) /\ s[1].ref \notin {None, Thrown} => s[1].ref = d
<1>1. Len(s) \in Nat \ {0} /\ Len(t) \in Nat
  BY EmptySeq, LenProperties
<1>2. ASSUME NEW n \in 0..Len(t), NEW x, LastCoded(s, d, n+1, x)
      PROVE  LastCoded(t, e, n, x)
  <2>1. \A k \in 2..n+1 : k-1 \in 1..n /\ t[k-1] = s[k]
    BY <1>1
  <2>2. \A k \in 1..n : t[k] = s[k+1] /\ k+1 \in 2..n+1
    BY <1>1
  <2>3. ASSUME NEW j \in 1..n+1, H264(s[j]), s[j].id = x,
               \A k \in j+1..n+1 : ~H264(s[k])
        PROVE  LastCoded(t, e, n, x)
    <3>1. CASE j = 1
      <4>1. e = x /\ \A k \in 1..n : ~H264(t[k])
        BY <1>1, <2>2, <2>3, <3>1
      <4>2. QED
        BY <4>1 DEF LastCoded
    <3>2. CASE j # 1
      <4> DEFINE i == j-1
      <4>1. i \in 1..n /\ t[i] = s[j]
        BY <1>1, <2>1, <2>3, <3>2
      <4>2. \A k \in i+1..n : ~H264(t[k])
        <5>1. \A k \in i+1..n : k+1 \in j+1..n+1 /\ t[k] = s[k+1]
          BY <1>1, <2>2, <4>1
        <5>2. QED
          BY <2>3, <5>1
      <4> HIDE DEF i
      <4>3. QED
        BY <2>3, <4>1, <4>2 DEF LastCoded
    <3>3. QED
      BY <3>1, <3>2
  <2>4. ASSUME d = x, \A k \in 1..n+1 : ~H264(s[k])
        PROVE  LastCoded(t, e, n, x)
    <3>1. 1 \in 1..n+1 /\ \A k \in 1..n : k+1 \in 1..n+1
      BY <1>1
    <3>2. e = x /\ \A k \in 1..n : ~H264(t[k])
      BY <2>2, <2>4, <3>1
    <3>3. QED
      BY <3>2 DEF LastCoded
  <2>5. QED
    BY <1>2, <2>3, <2>4 DEF LastCoded
<1>3. ASSUME NEW i \in 1..Len(t), H264(t[i]), t[i].ref \notin {None, Thrown}
      PROVE  LastCoded(t, e, i-1, t[i].ref)
  <2>1. i+1 \in 1..Len(s) /\ t[i] = s[i+1] /\ (i+1)-1 = (i-1)+1 /\ i-1 \in 0..Len(t)
    BY <1>1
  <2>2. LastCoded(s, d, (i+1)-1, s[i+1].ref)
    BY <1>3, <2>1 DEF Chained
  <2>3. QED
    BY <1>2, <2>1, <2>2
<1>4. ASSUME NEW x, LastCoded(s, d, Len(s), x) PROVE LastCoded(t, e, Len(t), x)
  <2>1. Len(t) \in 0..Len(t) /\ Len(s) = Len(t)+1
    BY <1>1
  <2>2. QED
    BY <1>2, <1>4, <2>1
<1>5. ASSUME H264(s[1]), s[1].ref \notin {None, Thrown} PROVE s[1].ref = d
  <2>1. LastCoded(s, d, 1-1, s[1].ref)
    BY <1>1, <1>5 DEF Chained
  <2>2. QED
    BY <2>1 DEF LastCoded
<1>6. QED
  BY <1>3, <1>4, <1>5 DEF Chained

-----------------------------------------------------------------------------
(* The encoder *)

\* One result r of coding a picture with e: an encoder, and either no picture and
\* no new reference, or a picture that is complete or refers to e's last one.
Follows(r, e) ==
  /\ r.enc \in Encoder
  /\ r.id \in PictureId \cup {None} /\ r.ref \in PictureId \cup {None, Thrown}
  /\ r.id = None => r.enc.at \in {e.at, None}
  /\ r.id # None => r.enc.at = r.id /\ r.ref \in {e.at, None, Thrown}

LEMMA FreshType ==
  ASSUME NEW kind \in {"mf", "deaf", "soft"}
  PROVE  Fresh(kind) \in Encoder /\ Fresh(kind).at = None
BY Bounds DEF Fresh, Encoder

LEMMA AdvanceType ==
  ASSUME NEW e \in Encoder
  PROVE  advance(e) \in Encoder /\ advance(e).at = e.at
<1>1. (e.index + 1) % Period \in 0..Period-1
  BY Bounds DEF Encoder
<1>2. QED
  BY <1>1 DEF advance, Encoder

LEMMA CodedFollows ==
  ASSUME NEW e \in Encoder, NEW must \in BOOLEAN, NEW id \in PictureId,
         NEW r \in Coded(e, must, id)
  PROVE  Follows(r, e) /\ r.enc.at = r.id
<1>1. CASE r = Intra(e, id)
  BY <1>1 DEF Intra, Follows, Encoder
<1>2. CASE r = Inter(e, id) /\ e.at # None
  BY <1>2 DEF Inter, Follows, Encoder
<1>3. QED
  BY <1>1, <1>2 DEF Coded

LEMMA SoftFollows ==
  ASSUME NEW e \in Encoder, NEW id \in PictureId, NEW r \in SoftEncode(e, id)
  PROVE  Follows(r, e)
<1> DEFINE forced == should_force(e) \/ e.stuck
           e1 == [advance(e) EXCEPT !.stuck = forced]
<1>1. forced \in BOOLEAN
  BY DEF should_force, Encoder
<1> HIDE DEF forced
<1>2. e1 \in Encoder /\ e1.at = e.at
  BY <1>1, AdvanceType DEF Encoder
<1> HIDE DEF e1
<1>3. r \in Coded(e1, forced, id) \/ r = Nothing(e1)
  BY DEF SoftEncode, e1, forced
<1>4. CASE r \in Coded(e1, forced, id)
  <2>1. Follows(r, e1)
    BY <1>1, <1>2, <1>4, CodedFollows
  <2>2. QED
    BY <1>2, <2>1 DEF Follows
<1>5. CASE r = Nothing(e1)
  BY <1>2, <1>5 DEF Nothing, Follows
<1>6. QED
  BY <1>3, <1>4, <1>5

LEMMA EncodeFollows ==
  ASSUME NEW e \in Encoder, NEW id \in PictureId, NEW r \in encode_bgr(e, id)
  PROVE  Follows(r, e)
<1>1. CASE e.kind = "soft"
  BY <1>1, SoftFollows DEF encode_bgr
<1>2. CASE e.kind # "soft"
  <2>1. PICK c \in MfEncode(e, id) :
          r \in IF c.id # None THEN {c} ELSE SoftEncode(Fresh("soft"), id)
    BY <1>2 DEF encode_bgr
  <2>2. CASE c.id = None
    <3>1. Follows(r, Fresh("soft"))
      BY <2>1, <2>2, FreshType, SoftFollows
    <3>2. QED
      BY <3>1, FreshType DEF Follows
  <2>3. CASE c.id # None
    <3>1. r = c
      BY <2>1, <2>3
    <3> DEFINE must == should_force(e) /\ e.kind # "deaf"
               coded == Coded(advance(e), must, id)
    <3>2. must \in BOOLEAN
      BY DEF should_force
    <3> HIDE DEF must
    <3>3. \A x : Nothing(x).id = None
      BY DEF Nothing
    <3>4. \/ c \in coded
          \/ c \in AfterThrown(coded)
          \/ c = Nothing(advance(e))
          \/ \E b \in coded : c = Nothing(b.enc)
      BY DEF MfEncode, must
    <3>5. \A b \in coded : Follows(b, advance(e))
      BY <3>2, AdvanceType, CodedFollows
    <3> HIDE DEF coded
    <3>6. Follows(r, advance(e))
      <4>1. CASE c \in coded
        BY <3>1, <3>5, <4>1
      <4>2. CASE c \in AfterThrown(coded)
        <5>1. PICK b \in coded : b.ref # None /\ c = [b EXCEPT !.ref = Thrown]
          BY <4>2 DEF AfterThrown
        <5>2. c.enc = b.enc /\ c.id = b.id /\ c.ref \in {b.ref, Thrown}
          BY <5>1
        <5>3. QED
          BY <3>1, <3>5, <5>1, <5>2 DEF Follows
      <4>3. QED
        BY <2>3, <3>3, <3>4, <4>1, <4>2
    <3>7. QED
      BY <3>6, AdvanceType DEF Follows
  <2>4. QED
    BY <2>2, <2>3
<1>3. QED
  BY <1>1, <1>2

-----------------------------------------------------------------------------
(* The steps *)

\* A step that touches neither the pictures nor what they are coded from.
LEMMA Quiet ==
  ASSUME SInv, TypeOK',
         UNCHANGED dec,
         viewLink' = "relay" =>
           /\ viewLink = "relay" /\ wire'["relay"] = wire["relay"]
           /\ hostLink' = "relay" =>
                /\ hostLink = "relay"
                /\ \/ enc' = enc
                   \/ enc' = None
                   \/ enc # None /\ enc'.at = enc.at
  PROVE  SInv'
<1>1. CASE viewLink' = "relay"
  <2>1. viewLink = "relay" /\ wire'["relay"] = wire["relay"]
    BY <1>1
  <2>2. PICK d \in PictureId \cup {None} :
          /\ Chained(wire["relay"], d)
          /\ \A x \in Decoder : dec[x] \in {d, None}
          /\ hostLink = "relay" => InStep(enc, wire["relay"], d)
    BY <2>1 DEF SInv, RelayChain
  <2>3. ASSUME hostLink' = "relay" PROVE InStep(enc', wire'["relay"], d)
    BY <1>1, <2>1, <2>2, <2>3 DEF InStep
  <2>4. Chained(wire'["relay"], d) /\ \A x \in Decoder : dec'[x] \in {d, None}
    BY <2>1, <2>2
  <2>5. QED
    BY <2>3, <2>4 DEF SInv, RelayChain
<1>2. CASE viewLink' # "relay"
  BY <1>2 DEF SInv, RelayChain
<1>3. QED
  BY <1>1, <1>2

LEMMA Grab ==
  ASSUME SInv, grab_jpeg_frame
  PROVE  SInv'
<1>1. PICK g \in grab_bgr_scaled :
        /\ dxgi' = g.dxgi
        /\ IF g.picture = None \/ HashOf[g.picture] = last
           THEN UNCHANGED <<last, enc, unsent, wire>>
           ELSE last' = HashOf[g.picture] /\ Encode(g.picture)
  BY DEF grab_jpeg_frame
<1>2. g.dxgi \in {"none", "dirty", "clean"} /\ g.picture \in Picture \cup {None}
  BY DEF grab_bgr_scaled, ReadBy, SInv, TypeOK
<1>3. /\ UNCHANGED <<screen, prefer, uncapped, sending, hostLink, viewLink, asked,
                     dec, view, given>>
      /\ TypeOK
  BY DEF grab_jpeg_frame, linkVars, viewVars, SInv
<1>4. CASE UNCHANGED <<last, enc, unsent, wire>>
  <2>1. TypeOK'
    BY <1>1, <1>2, <1>3, <1>4 DEF TypeOK
  <2>2. QED
    BY <1>3, <1>4, <2>1, Quiet
<1>5. CASE g.picture # None /\ last' = HashOf[g.picture] /\ Encode(g.picture)
  <2> DEFINE p == g.picture
  <2>1. p \in Picture
    BY <1>2, <1>5
  <2>2. /\ Len(wire[hostLink]) < MaxWire
        /\ \E e \in IF enc = None THEN Opened ELSE {enc}, id \in NextId :
             \E r \in encode_bgr(e, id) :
               /\ enc' = r.enc
               /\ \/ Send(FrameOf(r, p)) /\ unsent' = FALSE
                  \/ r.id = None /\ unsent' = (hostLink = "relay") /\ UNCHANGED wire
    BY <1>5 DEF Encode
  <2>3. PICK e \in IF enc = None THEN Opened ELSE {enc}, id \in NextId :
             \E r \in encode_bgr(e, id) :
               /\ enc' = r.enc
               /\ \/ Send(FrameOf(r, p)) /\ unsent' = FALSE
                  \/ r.id = None /\ unsent' = (hostLink = "relay") /\ UNCHANGED wire
    BY <2>2
  <2>4. PICK r \in encode_bgr(e, id) :
               /\ enc' = r.enc
               /\ \/ Send(FrameOf(r, p)) /\ unsent' = FALSE
                  \/ r.id = None /\ unsent' = (hostLink = "relay") /\ UNCHANGED wire
    BY <2>3
  <2>5. e \in Encoder /\ (enc = None => e.at = None) /\ (enc # None => e = enc)
    <3>1. Opened \subseteq Encoder /\ \A x \in Opened : x.at = None
      BY FreshType, BackendAssumption DEF Opened
    <3>2. QED
      BY <1>3, <2>3, <3>1 DEF TypeOK
  <2>6. Follows(r, e)
    <3>1. id \in PictureId
      BY DEF NextId
    <3>2. QED
      BY <2>4, <2>5, <3>1, EncodeFollows
  <2> DEFINE f == FrameOf(r, p)
  <2>7. f \in Frame /\ (H264(f) <=> r.id # None) /\ f.id = r.id /\ f.ref = r.ref
    BY <2>1, <2>6 DEF FrameOf, Frame, Follows, H264
  <2>8. enc' = r.enc /\ unsent' \in BOOLEAN /\ (Send(f) \/ (r.id = None /\ wire' = wire))
    BY <2>4
  <2> HIDE DEF f, p
  <2>9. TypeOK'
    <3>1. wire' \in [Link -> Seq(Frame)] /\ \A l \in Link : Len(wire'[l]) <= MaxWire
      <4>1. CASE wire' = wire
        BY <1>3, <4>1 DEF TypeOK
      <4>2. CASE wire' = [wire EXCEPT ![hostLink] = Append(@, f)]
        <5>1. hostLink \in Link /\ wire[hostLink] \in Seq(Frame)
          BY <1>3 DEF TypeOK
        <5>2. /\ Append(wire[hostLink], f) \in Seq(Frame)
              /\ Len(Append(wire[hostLink], f)) = Len(wire[hostLink]) + 1
              /\ Len(wire[hostLink]) \in Nat
          BY <2>7, <5>1, AppendProperties, LenProperties
        <5>3. Len(Append(wire[hostLink], f)) <= MaxWire
          BY <2>2, <5>2, Bounds
        <5>4. QED
          BY <1>3, <4>2, <5>1, <5>2, <5>3 DEF TypeOK
      <4>3. QED
        BY <2>8, <4>1, <4>2 DEF Send
    <3>2. last' \in {NoHash} \cup {HashOf[q] : q \in Picture}
      BY <1>5, <2>1 DEF p
    <3>3. enc' \in Encoder
      BY <2>6, <2>8 DEF Follows
    <3>4. QED
      BY <1>1, <1>2, <1>3, <2>8, <3>1, <3>2, <3>3 DEF TypeOK
  <2>10. CASE viewLink = "relay" /\ hostLink = "relay"
    <3> DEFINE s == wire["relay"]
    <3>1. PICK d \in PictureId \cup {None} :
            Chained(s, d) /\ InStep(enc, s, d) /\ \A x \in Decoder : dec[x] \in {d, None}
      BY <2>10 DEF SInv, RelayChain
    <3>2. s \in Seq(Frame)
      BY <1>3 DEF TypeOK, Link
    <3>3. Send(f) => wire'["relay"] = Append(s, f)
      BY <1>3, <2>10 DEF Send, TypeOK, Link
    <3>4. wire' = wire => wire'["relay"] = s
      OBVIOUS
    <3> HIDE DEF s
    <3>5. e.at # None => LastCoded(s, d, Len(s), e.at)
      BY <2>5, <3>1 DEF InStep
    <3>6. CASE Send(f)
      <4>1. H264(f) /\ f.ref \notin {None, Thrown} => LastCoded(s, d, Len(s), f.ref)
        BY <2>6, <2>7, <3>5 DEF Follows
      <4>2. /\ Chained(Append(s, f), d)
            /\ H264(f) => LastCoded(Append(s, f), d, Len(s)+1, f.id)
        BY <2>7, <3>1, <3>2, <4>1, SentChain
      <4>3. Len(Append(s, f)) = Len(s)+1
        BY <2>7, <3>2, AppendProperties
      <4>4. InStep(enc', Append(s, f), d)
        <5>1. CASE H264(f)
          BY <2>6, <2>7, <2>8, <4>2, <4>3, <5>1 DEF InStep, Follows
        <5>2. CASE ~H264(f) /\ enc'.at # None
          <6>1. enc'.at = e.at /\ e.at # None
            BY <2>6, <2>7, <2>8, <5>2 DEF Follows
          <6>2. QED
            BY <2>7, <3>2, <3>5, <4>3, <5>2, <6>1, SentLast DEF InStep
        <5>3. QED
          BY <5>1, <5>2 DEF InStep
      <4>5. QED
        BY <1>3, <2>9, <3>1, <3>3, <3>6, <4>2, <4>4 DEF SInv, RelayChain
    <3>7. CASE r.id = None /\ wire' = wire
      <4>1. InStep(enc', s, d)
        BY <2>6, <2>8, <3>5, <3>7 DEF InStep, Follows
      <4>2. QED
        BY <1>3, <2>9, <3>1, <3>4, <3>7, <4>1 DEF SInv, RelayChain
    <3>8. QED
      BY <2>8, <3>6, <3>7
  <2>11. CASE ~(viewLink = "relay" /\ hostLink = "relay")
    <3>1. viewLink = "relay" => wire'["relay"] = wire["relay"]
      BY <1>3, <2>8, <2>11 DEF Send, TypeOK, Link
    <3>2. QED
      BY <1>3, <2>9, <2>11, <3>1, Quiet
  <2>12. QED
    BY <2>10, <2>11
<1>6. QED
  BY <1>1, <1>4, <1>5

LEMMA OutcomeTypes ==
  /\ NotTaken.gives = None /\ NotTaken.given = FALSE
  /\ NoPicture.gives = None /\ NoPicture.given = FALSE
  /\ \A p : Gives(p).gives = p /\ Gives(p).given = TRUE
  /\ LET late == [Gives(Wrong) EXCEPT !.given = FALSE]
     IN late.gives = Wrong /\ late.given = FALSE
<1>1. NotTaken.gives = None /\ NotTaken.given = FALSE
  BY DEF NotTaken
<1>2. NoPicture.gives = None /\ NoPicture.given = FALSE
  BY DEF NoPicture, NotTaken
<1>3. \A p : Gives(p).gives = p /\ Gives(p).given = TRUE
  BY DEF Gives
<1>4. LET late == [Gives(Wrong) EXCEPT !.given = FALSE]
      IN late.gives = Wrong /\ late.given = FALSE
  BY DEF Gives
<1>5. QED
  BY <1>1, <1>2, <1>3, <1>4

\* What reading frame f leaves, whatever the two decoders make of it: each is at
\* the last coded picture read, or nowhere.
LEMMA ShownPlace ==
  ASSUME TypeOK, NEW f \in Frame, NEW r \in Shown(f)
  PROVE  /\ r.dec \in [Decoder -> PictureId \cup {None}]
         /\ r.view \in Picture \cup {None, Wrong} /\ r.given \in BOOLEAN
         /\ \A x \in Decoder : r.dec[x] \in {IF H264(f) THEN f.id ELSE dec[x], None}
<1>1. CASE ~H264(f)
  <2>1. r.dec = dec /\ r.view \in {f.picture, view} /\ r.given \in BOOLEAN
    <3>1. \/ r = [dec |-> dec, view |-> f.picture, given |-> TRUE]
          \/ r = [dec |-> dec, view |-> view, given |-> FALSE]
      BY <1>1, Zenon DEF Shown, H264
    <3>2. CASE r = [dec |-> dec, view |-> f.picture, given |-> TRUE]
      BY <3>2
    <3>3. CASE r = [dec |-> dec, view |-> view, given |-> FALSE]
      BY <3>3
    <3>4. QED
      BY <3>1, <3>2, <3>3
  <2>2. QED
    BY <1>1, <2>1 DEF TypeOK, Frame
<1>2. CASE H264(f)
  <2>1. PICK m \in MfDecode(f), o \in {NotTaken} \cup SoftDecode(f) : r = After(f, m, o)
    BY <1>2 DEF Shown, Decoded, H264
  <2>2. \A d : Result(f, d) \in Picture \cup {Wrong}
    BY DEF Result, Frame
  <2>3. m.gives \in Picture \cup {None, Wrong} /\ m.given \in BOOLEAN
    <3>1. \/ m = NotTaken \/ m = NoPicture \/ m = Gives(Result(f, dec.mf))
          \/ m = [Gives(Wrong) EXCEPT !.given = FALSE]
      BY Zenon DEF MfDecode
    <3>2. QED
      BY <2>2, <3>1, OutcomeTypes
  <2>4. o.gives \in Picture \cup {None, Wrong} /\ o.given \in BOOLEAN
    <3>1. o = NotTaken \/ o = NoPicture \/ o = Gives(Result(f, dec.soft))
      BY Zenon DEF SoftDecode
    <3>2. QED
      BY <2>2, <3>1, OutcomeTypes
  <2>5. /\ r.dec = [mf |-> Place(f, dec.mf, m.took), soft |-> Place(f, dec.soft, o.took)]
        /\ r.view \in {m.gives, o.gives, view} /\ r.given \in {m.given, o.given}
    BY <2>1 DEF After
  <2>6. \A d, t : Place(f, d, t) \in {f.id, None}
    BY DEF Place
  <2>7. r.dec["mf"] \in {f.id, None} /\ r.dec["soft"] \in {f.id, None} /\ DOMAIN r.dec = Decoder
    BY <2>5, <2>6 DEF Decoder
  <2>8. f.id \in PictureId \cup {None}
    BY DEF Frame
  <2>9. r.dec \in [Decoder -> PictureId \cup {None}]
    <3>1. r.dec = [x \in Decoder |-> r.dec[x]]
      BY <2>5, <2>7 DEF Decoder
    <3>2. QED
      BY <2>7, <2>8, <3>1 DEF Decoder
  <2>10. QED
    BY <1>2, <2>3, <2>4, <2>5, <2>7, <2>9 DEF TypeOK, Decoder
<1>3. QED
  BY <1>1, <1>2

LEMMA Read ==
  ASSUME SInv, NEW i \in 1..MaxWire, apply_video_frame(i)
  PROVE  SInv'
<1> DEFINE s == wire[viewLink]
           t == RemoveAt(s, i)
<1>1. /\ UNCHANGED <<screen, prefer, dxgi, last, enc, unsent, uncapped, sending,
                     hostLink, viewLink, asked>>
      /\ TypeOK /\ i \in 1..Len(s) /\ viewLink \in Link /\ s \in Seq(Frame)
      /\ viewLink = "relay" => i = 1
      /\ wire' = [wire EXCEPT ![viewLink] = t]
      /\ Len(s) \in Nat
  BY LenProperties DEF apply_video_frame, grabVars, linkVars, SInv, TypeOK
<1>2. /\ t \in Seq(Frame) /\ Len(t) = Len(s) - 1
      /\ i = 1 => \A j \in 1..Len(s)-1 : t[j] = s[j+1]
      /\ s[i] \in Frame
  BY <1>1, Removed, ElementOfSeq
<1>3. /\ dec' \in [Decoder -> PictureId \cup {None}]
      /\ view' \in Picture \cup {None, Wrong} /\ given' \in BOOLEAN
      /\ \A x \in Decoder : dec'[x] \in {IF H264(s[i]) THEN s[i].id ELSE dec[x], None}
  <2>1. PICK r \in Shown(s[i]) : dec' = r.dec /\ view' = r.view /\ given' = r.given
    BY DEF apply_video_frame
  <2>2. QED
    BY <1>1, <1>2, <2>1, ShownPlace
<1>4. TypeOK'
  <2>1. Len(t) <= MaxWire
    BY <1>1, <1>2, Bounds DEF TypeOK
  <2>2. wire' \in [Link -> Seq(Frame)] /\ \A l \in Link : Len(wire'[l]) <= MaxWire
    <3> HIDE DEF t
    <3>1. QED
      BY <1>1, <1>2, <2>1 DEF TypeOK
  <2>3. QED
    BY <1>1, <1>3, <2>2 DEF TypeOK
<1>5. CASE viewLink = "relay"
  <2>1. i = 1 /\ s = wire["relay"] /\ wire'["relay"] = t /\ s # <<>>
    <3>1. i = 1 /\ s = wire["relay"] /\ wire'["relay"] = t
      BY <1>1, <1>5 DEF TypeOK, Link
    <3>2. QED
      BY <1>1, <3>1, EmptySeq
  <2>2. PICK d \in PictureId \cup {None} :
          /\ Chained(s, d)
          /\ \A x \in Decoder : dec[x] \in {d, None}
          /\ hostLink = "relay" => InStep(enc, s, d)
    BY <1>5, <2>1 DEF SInv, RelayChain
  <2> DEFINE e == IF H264(s[1]) THEN s[1].id ELSE d
  <2>3. e \in PictureId \cup {None}
    BY <1>2, <2>1 DEF Frame
  <2>4. \A x \in Decoder : dec'[x] \in {e, None}
    BY <1>3, <2>1, <2>2
  <2>5. Chained(t, e) /\ \A x : LastCoded(s, d, Len(s), x) => LastCoded(t, e, Len(t), x)
    <3> HIDE DEF s, t
    <3>1. e = IF H264(s[1]) THEN s[1].id ELSE d
      OBVIOUS
    <3> HIDE DEF e
    <3>2. /\ s \in Seq(Frame) /\ s # <<>> /\ t \in Seq(Frame)
          /\ Len(t) = Len(s)-1 /\ \A j \in 1..Len(s)-1 : t[j] = s[j+1]
          /\ Chained(s, d)
      BY <1>1, <1>2, <2>1, <2>2
    <3>3. QED
      BY <3>1, <3>2, ReadChain
  <2> HIDE DEF e
  <2>6. ASSUME hostLink = "relay" PROVE InStep(enc, t, e)
    BY <2>2, <2>5, <2>6 DEF InStep
  <2>7. QED
    BY <1>1, <1>4, <2>1, <2>3, <2>4, <2>5, <2>6 DEF SInv, RelayChain
<1>6. CASE viewLink # "relay"
  BY <1>1, <1>4, <1>6 DEF SInv, RelayChain
<1>7. QED
  BY <1>5, <1>6

LEMMA SettingsStep ==
  ASSUME SInv, set_bitrate_kbps \/ RefreshSending \/ request_keyframe
  PROVE  SInv'
<1>1. CASE set_bitrate_kbps
  <2>1. TypeOK'
    BY <1>1 DEF set_bitrate_kbps, SInv, TypeOK, linkVars, viewVars
  <2>2. QED
    BY <1>1, <2>1, Quiet DEF set_bitrate_kbps, linkVars, viewVars
<1>2. CASE RefreshSending
  <2>1. TypeOK'
    BY <1>2 DEF RefreshSending, SInv, TypeOK, grabVars, linkVars, viewVars
  <2>2. QED
    BY <1>2, <2>1, Quiet DEF RefreshSending, grabVars, linkVars, viewVars
<1>3. CASE request_keyframe
  <2>1. \/ enc' = None
        \/ enc # None /\ enc' \in Encoder /\ enc'.at = enc.at
    BY <1>3 DEF request_keyframe, request_now, SInv, TypeOK, Encoder
  <2>2. TypeOK'
    BY <1>3, <2>1 DEF request_keyframe, SInv, TypeOK, viewVars
  <2>3. QED
    BY <1>3, <2>1, <2>2, Quiet DEF request_keyframe, viewVars
<1>4. QED
  BY <1>1, <1>2, <1>3

LEMMA LinkStep ==
  ASSUME SInv,
         \/ enable_peer_native_resolution
         \/ run_controller_direct
         \/ ScreenChanges
         \/ LoseDatagram
  PROVE  SInv'
<1>1. CASE enable_peer_native_resolution
  <2>1. TypeOK'
    BY <1>1 DEF enable_peer_native_resolution, SInv, TypeOK, Link, viewVars
  <2>2. QED
    BY <1>1, <2>1, Quiet DEF enable_peer_native_resolution, viewVars
<1>2. CASE run_controller_direct
  <2>1. <<>> \in Seq(Frame) /\ Len(<<>>) <= MaxWire
    BY EmptySeq, Bounds
  <2>2. TypeOK'
    BY <1>2, <2>1 DEF run_controller_direct, SInv, TypeOK, Link, grabVars, viewVars
  <2>3. QED
    BY <1>2, <2>2, Quiet DEF run_controller_direct, viewVars
<1>3. CASE ScreenChanges
  <2>1. TypeOK'
    BY <1>3 DEF ScreenChanges, SInv, TypeOK, linkVars, viewVars
  <2>2. QED
    BY <1>3, <2>1, Quiet DEF ScreenChanges, linkVars, viewVars
<1>4. CASE LoseDatagram
  <2>1. /\ wire' \in [Link -> Seq(Frame)] /\ \A l \in Link : Len(wire'[l]) <= MaxWire
        /\ wire'["relay"] = wire["relay"]
        /\ asked' \subseteq asked
    <3>1. CASE wire' = wire
      BY <1>4, <3>1 DEF LoseDatagram, SInv, TypeOK
    <3>2. ASSUME NEW i \in 1..Len(wire["direct"]),
                 wire' = [wire EXCEPT !["direct"] = RemoveAt(@, i)],
                 UNCHANGED asked
          PROVE  /\ wire' \in [Link -> Seq(Frame)]
                 /\ \A l \in Link : Len(wire'[l]) <= MaxWire
                 /\ wire'["relay"] = wire["relay"]
                 /\ asked' \subseteq asked
      <4> DEFINE t == RemoveAt(wire["direct"], i)
      <4>1. /\ wire["direct"] \in Seq(Frame) /\ Len(wire["direct"]) \in Nat
            /\ Len(wire["direct"]) <= MaxWire
        BY LenProperties DEF SInv, TypeOK, Link
      <4>2. t \in Seq(Frame) /\ Len(t) = Len(wire["direct"]) - 1
        BY <4>1, Removed
      <4>3. Len(t) <= MaxWire
        BY <4>1, <4>2, Bounds
      <4>4. wire' = [wire EXCEPT !["direct"] = t]
        BY <3>2
      <4> HIDE DEF t
      <4>5. QED
        BY <3>2, <4>2, <4>3, <4>4 DEF SInv, TypeOK, Link
    <3>3. QED
      BY <1>4, <3>1, <3>2 DEF LoseDatagram
  <2>2. TypeOK'
    BY <1>4, <2>1 DEF LoseDatagram, SInv, TypeOK, grabVars, viewVars
  <2>3. QED
    BY <1>4, <2>1, <2>2, Quiet DEF LoseDatagram, grabVars, viewVars
<1>5. QED
  BY <1>1, <1>2, <1>3, <1>4

LEMMA StreamInit == Init => SInv
<1>1. SUFFICES ASSUME Init PROVE SInv
  OBVIOUS
<1>2. <<>> \in Seq(Frame) /\ Len(<<>>) = 0
  BY EmptySeq
<1>3. TypeOK
  <2>1. (dxgi = "dirty" \/ dxgi = "none") /\ prefer \in BOOLEAN
    BY <1>1 DEF Init
  <2>2. wire \in [Link -> Seq(Frame)] /\ \A l \in Link : Len(wire[l]) <= MaxWire
    BY <1>1, <1>2, Bounds DEF Init
  <2>3. QED
    BY <1>1, <2>1, <2>2, Bounds DEF Init, TypeOK, Link
<1>4. RelayChain
  <2>1. wire["relay"] = <<>> /\ enc = None /\ dec = [x \in Decoder |-> None]
    BY <1>1 DEF Init, Link
  <2>2. Chained(<<>>, None) /\ InStep(None, <<>>, None)
    BY <1>2 DEF Chained, InStep
  <2>3. QED
    BY <2>1, <2>2 DEF RelayChain
<1>5. QED
  BY <1>3, <1>4 DEF SInv

THEOREM StreamInvariant == Spec => []SInv
<1>1. SInv /\ [Next]_vars => SInv'
  <2>1. ASSUME SInv, UNCHANGED vars PROVE SInv'
    <3>1. TypeOK'
      BY <2>1 DEF vars, grabVars, linkVars, viewVars, SInv, TypeOK
    <3>2. QED
      BY <2>1, <3>1, Quiet DEF vars, grabVars, linkVars, viewVars
  <2>2. QED
    BY <2>1, Grab, Read, SettingsStep, LinkStep DEF Next, Show
<1>2. QED
  BY <1>1, StreamInit, PTL DEF Spec

\* Every variable of the picture's way keeps its type.
THEOREM TypeCorrect == Spec => []TypeOK
BY StreamInvariant, PTL DEF SInv

\* The references on the relay hold, however encoders are replaced, pictures go
\* out as JPEG and relay video is suspended: each coded picture refers to the one
\* before it there and the next one to what a decoder holds, if the decoder
\* missed nothing and the encoder threw nothing away.
THEOREM NeverGarbled == Spec => []RelayIntact
<1>1. SInv => RelayIntact
  BY DEF SInv, RelayChain, RelayIntact
<1>2. QED
  BY <1>1, StreamInvariant, PTL

\* What that means for a frame about to be read off the relay: a decoder that
\* holds a picture decodes the frame rightly, whichever of the two it is, unless
\* the picture before the frame was thrown away by the encoder.
NextDecodes ==
  viewLink = "relay" /\ wire["relay"] # <<>> /\ H264(wire["relay"][1])
    => \A x \in Decoder :
         dec[x] # None /\ wire["relay"][1].ref # Thrown => Decodes(wire["relay"][1], dec[x])

THEOREM HeldDecodesNext == Spec => []NextDecodes
<1>1. SInv => NextDecodes
  <2>1. SUFFICES ASSUME SInv, viewLink = "relay", wire["relay"] # <<>>, H264(wire["relay"][1]),
                        NEW x \in Decoder, dec[x] # None, wire["relay"][1].ref # Thrown,
                        ~Complete(wire["relay"][1])
                 PROVE  wire["relay"][1].ref = dec[x]
    BY DEF NextDecodes, Decodes
  <2>2. PICK d \in PictureId \cup {None} :
          Chained(wire["relay"], d) /\ \A y \in Decoder : dec[y] \in {d, None}
    BY <2>1 DEF SInv, RelayChain
  <2>3. 1 \in 1..Len(wire["relay"])
    <3>1. wire["relay"] \in Seq(Frame)
      BY <2>1 DEF SInv, TypeOK, Link
    <3>2. QED
      BY <2>1, <3>1, EmptySeq, LenProperties
  <2>4. LastCoded(wire["relay"], d, 1-1, wire["relay"][1].ref)
    BY <2>1, <2>2, <2>3 DEF Chained, Complete
  <2>5. d = wire["relay"][1].ref
    BY <2>4 DEF LastCoded
  <2>6. QED
    BY <2>1, <2>2, <2>5
<1>2. QED
  BY <1>1, StreamInvariant, PTL

=============================================================================
