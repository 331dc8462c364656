----------------------- MODULE ControllerWindow_proofs -----------------------
(***************************************************************************)
(* That every press which reaches the shared machine is accounted for, for *)
(* any buttons, keys and bounds, and that a click lands where the user saw *)
(* it, for any sizes of window, monitor, screen and picture.               *)
(*                                                                         *)
(* ReleasesAccounted speaks of what is pressed already.  Followed extends  *)
(* it to the presses under way: behind each one comes a release, or the    *)
(* user still holds it, or the release is excused.                         *)
(*                                                                         *)
(* LandsWherePointed needs no more than the types: it is arithmetic, taken *)
(* one axis at a time and one rounded division after the other.            *)
(***************************************************************************)
EXTENDS ControllerWindow, SequenceTheorems, TLAPS

Up(c) == [kind |-> "up", c |-> c]

Follows(s, also) ==
  \A j \in 1..Len(s) :
    s[j].kind = "down" =>
      s[j].c \in also \/ \E k \in j+1..Len(s) : s[k] = Up(s[j].c)

Known == held \cup excuse

Followed == Follows(queue, Known) /\ Follows(wire, Known \cup UpsIn(queue))

WInv == TypeOK /\ Followed /\ ReleasesAccounted

LEMMA Bounds ==
  /\ MaxQueue \in Nat /\ MaxQueue > 0
  /\ MaxWire \in Nat /\ MaxWire > 0
  /\ MaxPoll \in Nat /\ MaxPoll > 0
BY BoundAssumption

-----------------------------------------------------------------------------
(* Sequences of events *)

\* What RemoveAt leaves, and where.
LEMMA Removed ==
  ASSUME NEW S, NEW s \in Seq(S), NEW i \in 1..Len(s)
  PROVE  /\ RemoveAt(s, i) \in Seq(S) /\ Len(RemoveAt(s, i)) = Len(s) - 1
         /\ \A j \in 1..i-1 : RemoveAt(s, i)[j] = s[j]
         /\ \A j \in i+1..Len(s) : RemoveAt(s, i)[j-1] = s[j]
<1> DEFINE a == SubSeq(s, 1, i-1)
           b == SubSeq(s, i+1, Len(s))
<1>1. Len(s) \in Nat
  BY LenProperties
<1>2. a \in Seq(S) /\ Len(a) = i-1 /\ \A j \in 1..i-1 : a[j] = s[j]
  BY <1>1, SubSeqProperties
<1>3. b \in Seq(S) /\ Len(b) = Len(s)-i /\ \A j \in 1..Len(s)-i : b[j] = s[i+j]
  BY <1>1, SubSeqProperties
<1>4. RemoveAt(s, i) = a \o b
  BY DEF RemoveAt
<1> HIDE DEF a, b
<1>5. /\ a \o b \in Seq(S) /\ Len(a \o b) = Len(a) + Len(b)
      /\ \A j \in 1..Len(a)+Len(b) :
           (a \o b)[j] = IF j <= Len(a) THEN a[j] ELSE b[j - Len(a)]
  BY <1>2, <1>3, ConcatProperties
<1>6. Len(RemoveAt(s, i)) = Len(s) - 1
  BY <1>1, <1>2, <1>3, <1>4, <1>5
<1>7. ASSUME NEW j \in 1..i-1 PROVE RemoveAt(s, i)[j] = s[j]
  BY <1>1, <1>2, <1>3, <1>4, <1>5
<1>8. ASSUME NEW j \in i+1..Len(s) PROVE RemoveAt(s, i)[j-1] = s[j]
  <2>1. j-1 \in 1..Len(a)+Len(b) /\ ~(j-1 <= Len(a)) /\ (j-1)-Len(a) = j-i
        /\ j-i \in 1..Len(s)-i /\ i + (j-i) = j
    BY <1>1, <1>2, <1>3
  <2>2. QED
    BY <1>3, <1>4, <1>5, <2>1
<1>9. QED
  BY <1>4, <1>5, <1>6, <1>7, <1>8

\* One more event at the end.
LEMMA Appended ==
  ASSUME NEW s \in Seq(Event), NEW e \in Event
  PROVE  /\ UpsIn(Append(s, e)) = UpsIn(s) \cup (IF e.kind = "up" THEN {e.c} ELSE {})
         /\ \A X, Y : Follows(s, X) /\ X \subseteq Y \cup (IF e.kind = "up" THEN {e.c} ELSE {})
                        /\ (e.kind = "down" => e.c \in Y)
                      => Follows(Append(s, e), Y)
<1>1. /\ Append(s, e) \in Seq(Event) /\ Len(Append(s, e)) = Len(s)+1
      /\ \A i \in 1..Len(s) : Append(s, e)[i] = s[i]
      /\ Append(s, e)[Len(s)+1] = e /\ Len(s) \in Nat
  BY AppendProperties, LenProperties
<1>2. e \in [kind: {"down", "up"}, c: Control]
  BY DEF Event
<1>3. \A c \in Control : e = Up(c) <=> e.kind = "up" /\ e.c = c
  BY <1>2 DEF Up
<1>4. ASSUME NEW c \in Control
      PROVE  c \in UpsIn(Append(s, e)) <=> c \in UpsIn(s) \/ e = Up(c)
  <2>1. (\E i \in 1..Len(s)+1 : Append(s, e)[i] = Up(c))
          <=> (\E i \in 1..Len(s) : s[i] = Up(c)) \/ e = Up(c)
    BY <1>1
  <2>2. QED
    BY <1>1, <2>1 DEF UpsIn, Up
<1>5. UpsIn(Append(s, e)) = UpsIn(s) \cup (IF e.kind = "up" THEN {e.c} ELSE {})
  <2>1. UpsIn(Append(s, e)) \subseteq Control /\ UpsIn(s) \subseteq Control
    BY DEF UpsIn
  <2>2. QED
    BY <1>2, <1>3, <1>4, <2>1
<1>6. ASSUME NEW X, NEW Y, Follows(s, X),
             X \subseteq Y \cup (IF e.kind = "up" THEN {e.c} ELSE {}),
             e.kind = "down" => e.c \in Y
      PROVE  Follows(Append(s, e), Y)
  <2> DEFINE t == Append(s, e)
  <2>1. SUFFICES ASSUME NEW j \in 1..Len(s)+1, t[j].kind = "down"
                 PROVE  t[j].c \in Y \/ \E k \in j+1..Len(s)+1 : t[k] = Up(t[j].c)
    BY <1>1 DEF Follows
  <2>2. CASE j = Len(s)+1
    BY <1>1, <1>6, <2>1, <2>2
  <2>3. CASE j \in 1..Len(s)
    <3>1. t[j] = s[j] /\ s[j] \in Event
      BY <1>1, <2>3, ElementOfSeq
    <3>2. s[j].c \in X \/ \E k \in j+1..Len(s) : s[k] = Up(s[j].c)
      BY <1>6, <2>1, <2>3, <3>1 DEF Follows
    <3>3. ASSUME NEW k \in j+1..Len(s), s[k] = Up(s[j].c)
          PROVE  k \in j+1..Len(s)+1 /\ t[k] = Up(t[j].c)
      BY <1>1, <2>3, <3>1, <3>3
    <3>4. CASE s[j].c \in X /\ s[j].c \notin Y
      <4>1. e = Up(s[j].c)
        BY <1>3, <1>6, <3>1, <3>4 DEF Event
      <4>2. QED
        BY <1>1, <2>3, <3>1, <4>1
    <3>5. QED
      BY <3>1, <3>2, <3>3, <3>4
  <2>4. QED
    BY <1>1, <2>2, <2>3
<1>7. QED
  BY <1>5, <1>6

\* One event less at the front.
LEMMA HeadGone ==
  ASSUME NEW s \in Seq(Event), s # <<>>
  PROVE  /\ Head(s) \in Event /\ Tail(s) \in Seq(Event)
         /\ UpsIn(s) = UpsIn(Tail(s)) \cup (IF Head(s).kind = "up" THEN {Head(s).c} ELSE {})
         /\ \A X : Follows(s, X) =>
              /\ Follows(Tail(s), X)
              /\ Head(s).kind = "down" => Head(s).c \in X \cup UpsIn(Tail(s))
<1> DEFINE t == Tail(s)
<1>1. /\ Head(s) \in Event /\ t \in Seq(Event) /\ Len(t) = Len(s)-1
      /\ \A i \in 1..Len(t) : t[i] = s[i+1]
      /\ Len(s) \in Nat \ {0} /\ Head(s) = s[1]
  BY HeadTailProperties, EmptySeq
<1> HIDE DEF t
<1>2. ASSUME NEW k \in 2..Len(s) PROVE k-1 \in 1..Len(t) /\ t[k-1] = s[k]
  BY <1>1
<1>3. ASSUME NEW c
      PROVE  (\E i \in 1..Len(s) : s[i] = Up(c))
               <=> (\E i \in 1..Len(t) : t[i] = Up(c)) \/ Head(s) = Up(c)
  <2>1. ASSUME NEW i \in 1..Len(s), s[i] = Up(c), i # 1
        PROVE  \E k \in 1..Len(t) : t[k] = Up(c)
    BY <1>1, <1>2, <2>1
  <2>2. ASSUME NEW i \in 1..Len(t), t[i] = Up(c)
        PROVE  \E k \in 1..Len(s) : s[k] = Up(c)
    BY <1>1, <2>2
  <2>3. QED
    BY <1>1, <2>1, <2>2
<1>4. \A c \in Control : Head(s) = Up(c) <=> Head(s).kind = "up" /\ Head(s).c = c
  BY <1>1 DEF Up, Event
<1>5. UpsIn(s) = UpsIn(t) \cup (IF Head(s).kind = "up" THEN {Head(s).c} ELSE {})
  <2>1. \A c \in Control : c \in UpsIn(s) <=> c \in UpsIn(t) \/ Head(s) = Up(c)
    BY <1>3 DEF UpsIn, Up
  <2>2. UpsIn(s) \subseteq Control /\ UpsIn(t) \subseteq Control /\ Head(s).c \in Control
    BY <1>1 DEF UpsIn, Event
  <2>3. QED
    BY <1>4, <2>1, <2>2
<1>6. ASSUME NEW X, Follows(s, X) PROVE Follows(t, X)
  <2>1. SUFFICES ASSUME NEW j \in 1..Len(t), t[j].kind = "down"
                 PROVE  t[j].c \in X \/ \E k \in j+1..Len(t) : t[k] = Up(t[j].c)
    BY DEF Follows
  <2>2. j+1 \in 1..Len(s) /\ s[j+1] = t[j]
    BY <1>1
  <2>3. t[j].c \in X \/ \E k \in (j+1)+1..Len(s) : s[k] = Up(t[j].c)
    BY <1>6, <2>1, <2>2 DEF Follows
  <2>4. ASSUME NEW k \in (j+1)+1..Len(s), s[k] = Up(t[j].c)
        PROVE  k-1 \in j+1..Len(t) /\ t[k-1] = Up(t[j].c)
    BY <1>1, <1>2, <2>4
  <2>5. QED
    BY <2>3, <2>4
<1>7. ASSUME NEW X, Follows(s, X), Head(s).kind = "down"
      PROVE  Head(s).c \in X \cup UpsIn(t)
  <2>1. Head(s).c \in X \/ \E k \in 1+1..Len(s) : s[k] = Up(Head(s).c)
    BY <1>1, <1>7 DEF Follows
  <2>2. ASSUME NEW k \in 2..Len(s), s[k] = Up(Head(s).c)
        PROVE  Head(s).c \in UpsIn(t)
    BY <1>1, <1>2, <2>2 DEF UpsIn, Up, Event
  <2>3. QED
    BY <2>1, <2>2
<1>8. QED
  BY <1>1, <1>5, <1>6, <1>7 DEF t

\* One event less anywhere.  A release that goes excuses the presses before it.
LEMMA OneGone ==
  ASSUME NEW s \in Seq(Event), NEW i \in 1..Len(s)
  PROVE  /\ s[i] \in Event /\ RemoveAt(s, i) \in Seq(Event)
         /\ Len(RemoveAt(s, i)) = Len(s) - 1
         /\ UpsIn(s) = UpsIn(RemoveAt(s, i)) \cup UpsIn(<<s[i]>>)
         /\ UpsIn(<<s[i]>>) = IF s[i].kind = "up" THEN {s[i].c} ELSE {}
         /\ \A X : Follows(s, X) => Follows(RemoveAt(s, i), X \cup UpsIn(<<s[i]>>))
         /\ \A X : /\ Follows(s, X)
                   /\ \A j \in 1..i-1 : s[j] # [kind |-> "down", c |-> s[i].c]
                   => Follows(RemoveAt(s, i), X)
         /\ \A X : Follows(s, X) /\ s[i].kind = "down"
                   => s[i].c \in X \cup UpsIn(RemoveAt(s, i))
<1> DEFINE t == RemoveAt(s, i)
<1>1. /\ t \in Seq(Event) /\ Len(t) = Len(s)-1 /\ Len(s) \in Nat
      /\ \A j \in 1..i-1 : t[j] = s[j]
      /\ \A j \in i+1..Len(s) : t[j-1] = s[j]
      /\ s[i] \in Event
  BY Removed, LenProperties, ElementOfSeq
<1> HIDE DEF t
<1>2. \A c \in Control : s[i] = Up(c) <=> s[i].kind = "up" /\ s[i].c = c
  BY <1>1 DEF Up, Event
<1>3. UpsIn(<<s[i]>>) = IF s[i].kind = "up" THEN {s[i].c} ELSE {}
  <2>1. \A c \in Control : c \in UpsIn(<<s[i]>>) <=> s[i] = Up(c)
    BY DEF UpsIn, Up
  <2>2. UpsIn(<<s[i]>>) \subseteq Control /\ s[i].c \in Control
    BY <1>1 DEF UpsIn, Event
  <2>3. QED
    BY <1>2, <2>1, <2>2
<1>4. ASSUME NEW j \in 1..Len(t)
      PROVE  \E k \in 1..Len(s) : /\ k # i /\ t[j] = s[k]
                                  /\ (j < i => k = j) /\ (j >= i => k = j+1)
  <2>1. CASE j < i
    BY <1>1, <2>1
  <2>2. CASE j >= i
    <3>1. j+1 \in i+1..Len(s) /\ (j+1)-1 = j
      BY <1>1, <2>2
    <3>2. t[j] = s[j+1]
      BY <1>1, <3>1
    <3>3. QED
      BY <1>1, <2>2, <3>1, <3>2
  <2>3. QED
    BY <1>1, <2>1, <2>2
<1>5. ASSUME NEW k \in 1..Len(s), k # i
      PROVE  \E j \in 1..Len(t) : /\ t[j] = s[k]
                                  /\ (k < i => j = k) /\ (k > i => j = k-1)
  <2>1. CASE k < i
    BY <1>1, <2>1
  <2>2. CASE k > i
    <3>1. /\ k-1 \in 1..Len(t) /\ t[k-1] = s[k]
          /\ (k < i => k-1 = k) /\ (k > i => k-1 = k-1)
      BY <1>1, <2>2
    <3> DEFINE j == k-1
    <3>2. /\ j \in 1..Len(t) /\ t[j] = s[k]
          /\ (k < i => j = k) /\ (k > i => j = k-1)
      BY <3>1
    <3> HIDE DEF j
    <3>3. QED
      BY <3>2, Zenon
  <2>3. k < i \/ k > i
    BY <1>1, <1>5
  <2>4. QED
    BY <2>1, <2>2, <2>3, Zenon
<1>6. UpsIn(s) = UpsIn(t) \cup UpsIn(<<s[i]>>)
  <2>1. ASSUME NEW c \in Control
        PROVE  (\E k \in 1..Len(s) : s[k] = Up(c))
                 <=> (\E j \in 1..Len(t) : t[j] = Up(c)) \/ s[i] = Up(c)
    BY <1>4, <1>5
  <2>2. \A c \in Control : c \in UpsIn(<<s[i]>>) <=> s[i] = Up(c)
    BY DEF UpsIn, Up
  <2>3. \A c \in Control : c \in UpsIn(s) <=> c \in UpsIn(t) \/ c \in UpsIn(<<s[i]>>)
    BY <2>1, <2>2 DEF UpsIn, Up
  <2>4. UpsIn(s) \subseteq Control /\ UpsIn(t) \subseteq Control
        /\ UpsIn(<<s[i]>>) \subseteq Control
    BY DEF UpsIn
  <2>5. QED
    BY <2>3, <2>4
\* A press that is left, whose release is not the one that goes, keeps it.
<1>7. ASSUME NEW X, Follows(s, X), NEW j \in 1..Len(t), t[j].kind = "down",
             ~(s[i] = Up(t[j].c) /\ j < i)
      PROVE  t[j].c \in X \/ \E m \in j+1..Len(t) : t[m] = Up(t[j].c)
  <2>1. PICK k \in 1..Len(s) : /\ k # i /\ t[j] = s[k]
                               /\ (j < i => k = j) /\ (j >= i => k = j+1)
    BY <1>4
  <2>2. CASE t[j].c \in X
    BY <2>2
  <2>3. ASSUME NEW m \in k+1..Len(s), s[m] = Up(t[j].c)
        PROVE  \E n \in j+1..Len(t) : t[n] = Up(t[j].c)
    <3>1. m # i
      BY <1>1, <1>7, <2>1, <2>3
    <3>2. m \in 1..Len(s)
      BY <1>1, <2>1, <2>3
    <3>3. PICK n \in 1..Len(t) : /\ t[n] = s[m]
                                 /\ (m < i => n = m) /\ (m > i => n = m-1)
      BY <1>5, <3>1, <3>2
    <3>4. n \in j+1..Len(t)
      BY <1>1, <2>1, <2>3, <3>1, <3>3
    <3>5. QED
      BY <2>3, <3>3, <3>4
  <2>4. t[j].c \in X \/ \E m \in k+1..Len(s) : s[m] = Up(t[j].c)
    BY <1>7, <2>1 DEF Follows
  <2>5. QED
    BY <2>2, <2>3, <2>4
<1>8. ASSUME NEW X, Follows(s, X) PROVE Follows(t, X \cup UpsIn(<<s[i]>>))
  <2>1. ASSUME NEW j \in 1..Len(t), t[j].kind = "down", s[i] = Up(t[j].c)
        PROVE  t[j].c \in UpsIn(<<s[i]>>)
    <3>1. s[i].kind = "up" /\ s[i].c = t[j].c
      BY <2>1 DEF Up
    <3>2. QED
      BY <1>3, <3>1
  <2>2. QED
    BY <1>7, <1>8, <2>1 DEF Follows
<1>9. ASSUME NEW X, Follows(s, X),
             \A j \in 1..i-1 : s[j] # [kind |-> "down", c |-> s[i].c]
      PROVE  Follows(t, X)
  <2>1. ASSUME NEW j \in 1..Len(t), t[j].kind = "down", s[i] = Up(t[j].c), j < i
        PROVE  FALSE
    <3>1. t[j] = s[j] /\ j \in 1..i-1 /\ t[j] \in Event
      BY <1>1, <2>1, ElementOfSeq
    <3>2. s[i].c = t[j].c
      BY <2>1 DEF Up
    <3>3. s[j] = [kind |-> "down", c |-> s[i].c]
      BY <2>1, <3>1, <3>2 DEF Event
    <3>4. QED
      BY <1>9, <3>1, <3>3
  <2>2. QED
    BY <1>7, <1>9, <2>1 DEF Follows
<1>10. ASSUME NEW X, Follows(s, X), s[i].kind = "down"
       PROVE  s[i].c \in X \cup UpsIn(t)
  <2>1. s[i].c \in X \/ \E k \in i+1..Len(s) : s[k] = Up(s[i].c)
    BY <1>10 DEF Follows
  <2>2. ASSUME NEW k \in i+1..Len(s), s[k] = Up(s[i].c)
        PROVE  s[i].c \in UpsIn(t)
    <3>1. k-1 \in 1..Len(t) /\ t[k-1] = Up(s[i].c) /\ s[i].c \in Control
      BY <1>1, <2>2 DEF Event
    <3>2. QED
      BY <3>1 DEF UpsIn, Up
  <2>3. QED
    BY <2>1, <2>2
<1>11. QED
  BY <1>1, <1>3, <1>6, <1>8, <1>9, <1>10 DEF t

-----------------------------------------------------------------------------
(* The steps *)

\* A copy of an event, right behind it: the same releases, and what is behind
\* a press is behind its copy.
LEMMA Repeated ==
  ASSUME NEW s \in Seq(Event), NEW i \in 1..Len(s)
  PROVE  LET t == SubSeq(s, 1, i) \o SubSeq(s, i, Len(s)) IN
         /\ t \in Seq(Event) /\ Len(t) = Len(s) + 1
         /\ UpsIn(t) = UpsIn(s)
         /\ \A X : Follows(s, X) => Follows(t, X)
<1> DEFINE a == SubSeq(s, 1, i)
           b == SubSeq(s, i, Len(s))
           t == a \o b
<1>1. Len(s) \in Nat /\ i \in Nat /\ 1 <= i /\ i <= Len(s)
  BY LenProperties
<1>2. a \in Seq(Event) /\ Len(a) = i /\ \A j \in 1..i : a[j] = s[j]
  BY <1>1, SubSeqProperties
<1>3. /\ b \in Seq(Event) /\ Len(b) = Len(s)-i+1
      /\ \A j \in 1..Len(s)-i+1 : b[j] = s[i+j-1]
  BY <1>1, SubSeqProperties
<1> HIDE DEF a, b
<1>4. /\ t \in Seq(Event) /\ Len(t) = Len(a) + Len(b)
      /\ \A j \in 1..Len(a)+Len(b) :
           t[j] = IF j <= Len(a) THEN a[j] ELSE b[j - Len(a)]
  BY <1>2, <1>3, ConcatProperties
<1> HIDE DEF t
<1>5. Len(t) = Len(s) + 1
  BY <1>1, <1>2, <1>3, <1>4
<1>6. ASSUME NEW j \in 1..i PROVE t[j] = s[j]
  BY <1>1, <1>2, <1>3, <1>4
<1>7. ASSUME NEW j \in i+1..Len(s)+1 PROVE t[j] = s[j-1]
  <2>1. /\ j \in 1..Len(a)+Len(b) /\ ~(j <= Len(a)) /\ j - Len(a) \in 1..Len(s)-i+1
        /\ i + (j - Len(a)) - 1 = j - 1
    BY <1>1, <1>2, <1>3
  <2>2. b[j - Len(a)] = s[i + (j - Len(a)) - 1]
    BY <1>3, <2>1
  <2>3. QED
    BY <1>4, <2>1, <2>2
<1>8. ASSUME NEW c \in Control
      PROVE  (\E j \in 1..Len(t) : t[j] = Up(c)) <=> (\E j \in 1..Len(s) : s[j] = Up(c))
  <2>1. ASSUME NEW j \in 1..Len(t), t[j] = Up(c) PROVE \E k \in 1..Len(s) : s[k] = Up(c)
    <3>1. CASE j <= i
      <4>1. j \in 1..i /\ j \in 1..Len(s)
        BY <1>1, <1>5, <3>1
      <4>2. QED
        BY <1>6, <2>1, <4>1
    <3>2. CASE j > i
      <4>1. j \in i+1..Len(s)+1 /\ j-1 \in 1..Len(s)
        BY <1>1, <1>5, <3>2
      <4>2. QED
        BY <1>7, <2>1, <4>1
    <3>3. QED
      BY <1>1, <1>5, <3>1, <3>2
  <2>2. ASSUME NEW j \in 1..Len(s), s[j] = Up(c) PROVE \E k \in 1..Len(t) : t[k] = Up(c)
    <3>1. j+1 \in 1..Len(t) /\ j \in 1..Len(t)
      BY <1>1, <1>5
    <3>2. CASE j <= i
      BY <1>1, <1>6, <2>2, <3>1, <3>2
    <3>3. CASE j > i
      <4>1. j+1 \in i+1..Len(s)+1 /\ (j+1)-1 = j
        BY <1>1, <3>3
      <4>2. t[j+1] = s[(j+1)-1]
        BY <1>7, <4>1
      <4>3. QED
        BY <2>2, <3>1, <4>1, <4>2
    <3>4. QED
      BY <1>1, <3>2, <3>3
  <2>3. QED
    BY <2>1, <2>2
<1>9. UpsIn(t) = UpsIn(s)
  BY <1>8 DEF UpsIn, Up
<1>10. ASSUME NEW X, Follows(s, X) PROVE Follows(t, X)
  <2>1. SUFFICES ASSUME NEW j \in 1..Len(t), t[j].kind = "down"
                 PROVE  t[j].c \in X \/ \E k \in j+1..Len(t) : t[k] = Up(t[j].c)
    BY DEF Follows
  <2>2. PICK m \in 1..Len(s) : t[j] = s[m] /\ j <= m+1
    <3>1. CASE j <= i
      <4>1. j \in 1..i /\ j \in 1..Len(s) /\ j <= j+1
        BY <1>1, <1>5, <3>1
      <4>2. QED
        BY <1>6, <4>1
    <3>2. CASE j > i
      <4>1. j \in i+1..Len(s)+1 /\ j-1 \in 1..Len(s) /\ j <= (j-1)+1
        BY <1>1, <1>5, <3>2
      <4>2. QED
        BY <1>7, <4>1
    <3>3. QED
      BY <1>1, <1>5, <3>1, <3>2
  <2>3. s[m] \in Event
    BY <2>2, ElementOfSeq
  <2>4. s[m].c \in X \/ \E k \in m+1..Len(s) : s[k] = Up(s[m].c)
    BY <1>10, <2>1, <2>2 DEF Follows
  <2>5. ASSUME NEW k \in m+1..Len(s), s[k] = Up(s[m].c)
        PROVE  \E n \in j+1..Len(t) : t[n] = Up(t[j].c)
    <3>1. CASE k > i
      <4>1. k+1 \in i+1..Len(s)+1 /\ (k+1)-1 = k /\ k+1 \in j+1..Len(t)
        BY <1>1, <1>5, <2>2, <3>1
      <4>2. t[k+1] = s[(k+1)-1]
        BY <1>7, <4>1
      <4>3. QED
        BY <2>2, <2>5, <4>1, <4>2
    <3>2. CASE k <= i /\ j <= m
      <4>1. k \in 1..i /\ k \in j+1..Len(t)
        BY <1>1, <1>5, <2>2, <3>2
      <4>2. QED
        BY <1>6, <2>2, <2>5, <4>1
    <3>3. CASE k <= i /\ j = m+1
      \* A press before the event copied is where it was.
      <4>1. j \in 1..i /\ k \in j..Len(t)
        BY <1>1, <1>5, <2>2, <3>3
      <4>2. t[j] = s[j] /\ t[k] = s[k]
        BY <1>1, <1>6, <3>3, <4>1
      <4>3. k # j
        BY <2>1, <2>5, <4>2 DEF Up
      <4>4. k \in j+1..Len(t)
        BY <1>1, <1>5, <4>1, <4>3
      <4>5. QED
        BY <2>2, <2>5, <4>2, <4>4
    <3>4. QED
      BY <1>1, <2>2, <3>1, <3>2, <3>3
  <2>6. QED
    BY <2>2, <2>4, <2>5
<1>11. QED
  BY <1>4, <1>5, <1>9, <1>10 DEF t, a, b

LEMMA EventTypes ==
  ASSUME NEW c \in Control
  PROVE  [kind |-> "down", c |-> c] \in Event /\ Up(c) \in Event
BY DEF Event, Up

LEMMA Widen ==
  ASSUME NEW s, NEW X, NEW Y, X \subseteq Y, Follows(s, X)
  PROVE  Follows(s, Y)
BY DEF Follows

LEMMA NoneLeft ==
  ASSUME NEW X
  PROVE  /\ Follows(<<>>, X) /\ UpsIn(<<>>) = {}
         /\ <<>> \in Seq(Event) /\ Len(<<>>) = 0
<1>1. <<>> \in Seq(Event) /\ Len(<<>>) = 0
  BY EmptySeq
<1>2. QED
  BY <1>1 DEF Follows, UpsIn

\* The two halves of WInv that are about input.
Input(q, w, h, e, p) ==
  /\ q \in Seq(Event) /\ Len(q) <= MaxQueue
  /\ w \in Seq(Event) /\ Len(w) <= MaxWire
  /\ h \subseteq Control /\ e \subseteq Control /\ p \subseteq Control
  /\ Follows(q, h \cup e) /\ Follows(w, h \cup e \cup UpsIn(q))
  /\ p \subseteq h \cup UpsIn(q) \cup UpsIn(w) \cup e

\* The other variables' types.
Rest ==
  /\ window \in [fullscreen: BOOLEAN, toolbar: BOOLEAN, hide: BOOLEAN]
  /\ meter \in [view_only: ViewOnly, ways_open: BOOLEAN]
  /\ direct \in BOOLEAN /\ tx \in BOOLEAN
  /\ picture \in FrameSize \cup {Unpainted}
  /\ thread \in [pc: {"none", "awaiting", "connecting", "relay", "direct", "stopping",
                      "over"}, polls: 0..MaxPoll-1]

LEMMA Halves ==
  /\ WInv <=> Input(queue, wire, held, excuse, pressed) /\ Rest
  /\ WInv' <=> Input(queue', wire', held', excuse', pressed') /\ Rest'
BY DEF WInv, Input, Rest, TypeOK, Followed, Known, ReleasesAccounted, UpsIn, Follows, Up

\* queue_input, with what the user holds changed as the caller changes it.
LEMMA QueueDown ==
  ASSUME WInv, NEW c \in Control, held' = held \cup {c}, UNCHANGED <<wire, pressed>>,
         \/ queue_input("down", c)
         \/ UNCHANGED <<queue, excuse>>
  PROVE  Input(queue', wire', held', excuse', pressed')
<1>1. Input(queue, wire, held, excuse, pressed)
  BY Halves
<1>2. held' \cup excuse' = held \cup excuse \cup {c} /\ excuse' = excuse
  BY DEF queue_input
<1>3. CASE queue' = queue
  <2>1. Follows(queue, held' \cup excuse')
        /\ Follows(wire, held' \cup excuse' \cup UpsIn(queue))
    BY <1>1, <1>2, Widen DEF Input
  <2>2. QED
    BY <1>1, <1>2, <1>3, <2>1 DEF Input
<1>4. CASE queue' = Append(queue, [kind |-> "down", c |-> c]) /\ Len(queue) < MaxQueue
  <2> DEFINE e == [kind |-> "down", c |-> c]
  <2>1. e \in Event /\ e.kind = "down" /\ e.c = c
    BY EventTypes
  <2>2. queue' \in Seq(Event) /\ Len(queue') <= MaxQueue
    <3>1. queue' \in Seq(Event) /\ Len(queue') = Len(queue) + 1 /\ Len(queue) \in Nat
      BY <1>1, <1>4, <2>1, AppendProperties, LenProperties DEF Input
    <3>2. QED
      BY <1>4, <3>1, Bounds
  <2> HIDE DEF e
  <2>3. queue' = Append(queue, e)
    BY <1>4 DEF e
  <2>4. UpsIn(queue') = UpsIn(queue)
    BY <1>1, <2>1, <2>3, Appended DEF Input
  <2>5. Follows(queue', held' \cup excuse')
    <3>1. held \cup excuse \subseteq held' \cup excuse' /\ e.c \in held' \cup excuse'
      BY <1>2, <2>1
    <3>2. QED
      BY <1>1, <2>1, <2>3, <3>1, Appended DEF Input
  <2>6. Follows(wire, held' \cup excuse' \cup UpsIn(queue))
    BY <1>1, <1>2, Widen DEF Input
  <2>7. QED
    BY <1>1, <1>2, <2>2, <2>4, <2>5, <2>6 DEF Input
<1>5. QED
  BY <1>3, <1>4 DEF queue_input

LEMMA QueueUp ==
  ASSUME WInv, NEW c \in Control, held' = held \ {c}, UNCHANGED <<wire, pressed>>,
         \/ queue_input("up", c)
         \/ excuse' = excuse \cup {c} /\ queue' = queue
  PROVE  Input(queue', wire', held', excuse', pressed')
<1>1. Input(queue, wire, held, excuse, pressed)
  BY Halves
<1>2. CASE excuse' = excuse \cup {c} /\ queue' = queue
  <2>1. held \cup excuse \subseteq held' \cup excuse'
    BY <1>2
  <2>2. Follows(queue, held' \cup excuse')
        /\ Follows(wire, held' \cup excuse' \cup UpsIn(queue))
    BY <1>1, <2>1, Widen DEF Input
  <2>3. QED
    BY <1>1, <1>2, <2>1, <2>2 DEF Input
<1>3. CASE /\ queue' = Append(queue, [kind |-> "up", c |-> c]) /\ Len(queue) < MaxQueue
           /\ excuse' = excuse \ {c}
  <2> DEFINE e == [kind |-> "up", c |-> c]
  <2>1. e \in Event /\ e.kind = "up" /\ e.c = c
    BY EventTypes DEF Up
  <2>2. queue' \in Seq(Event) /\ Len(queue') <= MaxQueue
    <3>1. queue' \in Seq(Event) /\ Len(queue') = Len(queue) + 1 /\ Len(queue) \in Nat
      BY <1>1, <1>3, <2>1, AppendProperties, LenProperties DEF Input
    <3>2. QED
      BY <1>3, <3>1, Bounds
  <2> HIDE DEF e
  <2>3. queue' = Append(queue, e)
    BY <1>3 DEF e
  <2>4. UpsIn(queue') = UpsIn(queue) \cup {c}
    BY <1>1, <2>1, <2>3, Appended DEF Input
  <2>5. held \cup excuse \subseteq held' \cup excuse' \cup {c}
    BY <1>3
  <2>6. Follows(queue', held' \cup excuse')
    BY <1>1, <2>1, <2>3, <2>5, Appended DEF Input
  <2>7. Follows(wire, held' \cup excuse' \cup UpsIn(queue'))
    BY <1>1, <2>4, <2>5, Widen DEF Input
  <2>8. QED
    BY <1>1, <1>3, <2>2, <2>4, <2>5, <2>6, <2>7 DEF Input
<1>4. QED
  BY <1>2, <1>3 DEF queue_input

LEMMA UserStep ==
  ASSUME WInv, User
  PROVE  WInv'
<1>0. Rest
  BY Halves
<1>1. ASSUME NEW c \in Button, ButtonDown(c) PROVE WInv'
  <2>1. Input(queue', wire', held', excuse', pressed')
    BY <1>1, QueueDown
    DEF ButtonDown, queue_pointer, Swallow, Control
  <2>2. QED
    BY <1>0, <1>1, <2>1, Halves DEF ButtonDown, winVars, linkVars, Rest
<1>2. ASSUME NEW c \in Button, ButtonUp(c) PROVE WInv'
  <2>1. /\ held' = held \ {c} /\ UNCHANGED <<wire, pressed>> /\ c \in Control
        /\ \/ queue_input("up", c)
           \/ excuse' = excuse \cup {c} /\ queue' = queue
    BY <1>2 DEF ButtonUp, queue_pointer, Swallow, Control
  <2>2. Input(queue', wire', held', excuse', pressed')
    BY <2>1, QueueUp
  <2>3. UNCHANGED <<picture, direct, tx, thread>>
    BY <1>2 DEF ButtonUp, linkVars
  <2>4. window' \in [fullscreen: BOOLEAN, toolbar: BOOLEAN, hide: BOOLEAN]
    BY <1>0, <1>2
    DEF ButtonUp, Rest, winVars, toggle_fullscreen, enter_fullscreen, exit_fullscreen
  <2>5. meter' \in [view_only: ViewOnly, ways_open: BOOLEAN]
    <3>1. \/ meter' = meter
          \/ meter' = [meter EXCEPT !.ways_open = IF meter.view_only = "resource"
                                                  THEN ~@ ELSE @]
      BY <1>2 DEF ButtonUp, winVars
    <3>2. (IF meter.view_only = "resource" THEN ~meter.ways_open
           ELSE meter.ways_open) \in BOOLEAN
      BY <1>0 DEF Rest
    <3>3. QED
      BY <1>0, <3>1, <3>2 DEF Rest
  <2>6. QED
    BY <1>0, <2>2, <2>3, <2>4, <2>5, Halves DEF Rest
<1>3. ASSUME NEW k \in Key, KeyDown(k) PROVE WInv'
  <2>1. Input(queue', wire', held', excuse', pressed')
    BY <1>3, QueueDown DEF KeyDown, Control
  <2>2. QED
    BY <1>0, <1>3, <2>1, Halves DEF KeyDown, linkVars, Rest, exit_fullscreen
<1>4. ASSUME NEW k \in Key, KeyUp(k) PROVE WInv'
  <2>1. Input(queue', wire', held', excuse', pressed')
    BY <1>4, QueueUp DEF KeyUp, Control
  <2>2. QED
    BY <1>0, <1>4, <2>1, Halves DEF KeyUp, winVars, linkVars, Rest
<1>5. ASSUME NEW c \in Control, ReleasedElsewhere(c) PROVE WInv'
  <2>1. Input(queue', wire', held', excuse', pressed')
    BY <1>5, QueueUp DEF ReleasedElsewhere
  <2>2. QED
    BY <1>0, <1>5, <2>1, Halves DEF ReleasedElsewhere, winVars, linkVars, Rest
<1>6. ASSUME reveal_toolbar PROVE WInv'
  <2>1. (window.hide \/ window.fullscreen) \in BOOLEAN
    BY <1>0 DEF Rest
  <2>2. window' \in [fullscreen: BOOLEAN, toolbar: BOOLEAN, hide: BOOLEAN]
    BY <1>0, <1>6, <2>1 DEF reveal_toolbar, Rest
  <2>3. QED
    BY <1>0, <1>6, <2>2, Halves DEF reveal_toolbar, linkVars, Rest
<1>7. ASSUME NEW k \in Key, SysKeyDown(k) PROVE WInv'
  <2>1. Input(queue', wire', held', excuse', pressed')
    BY <1>7, QueueDown DEF SysKeyDown, Control
  <2>2. QED
    BY <1>0, <1>7, <2>1, Halves DEF SysKeyDown, winVars, linkVars, Rest
<1>8. ASSUME NEW k \in Key, SysKeyUp(k) PROVE WInv'
  <2>1. Input(queue', wire', held', excuse', pressed')
    BY <1>8, QueueUp DEF SysKeyUp, Swallow, Control
  <2>2. QED
    BY <1>0, <1>8, <2>1, Halves DEF SysKeyUp, winVars, linkVars, Rest
<1>9. QED
  BY <1>1, <1>2, <1>3, <1>4, <1>5, <1>6, <1>7, <1>8 DEF User

\* What is queued or under way goes, and its releases are excused.
LEMMA Dropped ==
  ASSUME WInv, UNCHANGED <<held, pressed>>,
         \/ /\ wire' = <<>> /\ queue' = queue
            /\ excuse' = excuse \cup UpsIn(wire)
         \/ /\ wire' = <<>> /\ queue' = <<>>
            /\ excuse' = excuse \cup UpsIn(wire) \cup UpsIn(queue)
         \/ /\ wire' = wire /\ queue' = <<>>
            /\ excuse' = excuse \cup UpsIn(queue)
  PROVE  Input(queue', wire', held', excuse', pressed')
<1>1. Input(queue, wire, held, excuse, pressed)
  BY Halves
<1>2. UpsIn(wire) \subseteq Control /\ UpsIn(queue) \subseteq Control
  BY DEF UpsIn
<1>3. held \cup excuse \subseteq held' \cup excuse'
  OBVIOUS
<1>4. Follows(queue', held' \cup excuse')
  BY <1>1, <1>3, Widen, NoneLeft DEF Input
<1>5. held \cup excuse \cup UpsIn(queue) \subseteq held' \cup excuse' \cup UpsIn(queue')
  OBVIOUS
<1>6. Follows(wire', held' \cup excuse' \cup UpsIn(queue'))
  BY <1>1, <1>5, Widen, NoneLeft DEF Input
<1>7. /\ queue' \in Seq(Event) /\ Len(queue') <= MaxQueue
      /\ wire' \in Seq(Event) /\ Len(wire') <= MaxWire
  <2>1. <<>> \in Seq(Event) /\ Len(<<>>) <= MaxQueue /\ Len(<<>>) <= MaxWire
    BY NoneLeft, Bounds
  <2>2. (queue' = queue \/ queue' = <<>>) /\ (wire' = wire \/ wire' = <<>>)
    OBVIOUS
  <2>3. QED
    BY <1>1, <2>1, <2>2, Zenon DEF Input
<1>8. QED
  BY <1>1, <1>2, <1>4, <1>6, <1>7 DEF Input

LEMMA Sent ==
  ASSUME WInv, queue # <<>>, Len(wire) < MaxWire,
         wire' = Append(wire, Head(queue)), queue' = Tail(queue),
         UNCHANGED <<held, excuse, pressed>>
  PROVE  Input(queue', wire', held', excuse', pressed')
<1> DEFINE e == Head(queue)
           K == held \cup excuse
<1>1. Input(queue, wire, held, excuse, pressed)
  BY Halves
<1>2. /\ e \in Event /\ queue' \in Seq(Event) /\ Follows(queue', K)
      /\ UpsIn(queue) = UpsIn(queue') \cup (IF e.kind = "up" THEN {e.c} ELSE {})
      /\ e.kind = "down" => e.c \in K \cup UpsIn(queue')
  BY <1>1, HeadGone DEF Input
<1>3. Len(queue') <= MaxQueue
  <2>1. Len(queue') = Len(queue) - 1 /\ Len(queue) \in Nat
    BY <1>1, HeadTailProperties, LenProperties DEF Input
  <2>2. QED
    BY <1>1, <2>1, Bounds DEF Input
<1>4. wire' \in Seq(Event) /\ Len(wire') <= MaxWire
  <2>1. wire' \in Seq(Event) /\ Len(wire') = Len(wire) + 1 /\ Len(wire) \in Nat
    BY <1>1, <1>2, AppendProperties, LenProperties DEF Input
  <2>2. QED
    BY <2>1, Bounds
<1> HIDE DEF e
<1>5. wire' = Append(wire, e)
  BY DEF e
<1>6. UpsIn(wire') = UpsIn(wire) \cup (IF e.kind = "up" THEN {e.c} ELSE {})
  BY <1>1, <1>2, <1>5, Appended DEF Input
<1>7. Follows(wire', K \cup UpsIn(queue'))
  <2>1. K \cup UpsIn(queue)
          \subseteq (K \cup UpsIn(queue')) \cup (IF e.kind = "up" THEN {e.c} ELSE {})
    BY <1>2
  <2>2. wire \in Seq(Event) /\ Follows(wire, K \cup UpsIn(queue))
    BY <1>1 DEF Input
  <2> HIDE DEF K
  <2>3. QED
    BY <1>2, <1>5, <2>1, <2>2, Appended
<1>8. QED
  BY <1>1, <1>2, <1>3, <1>4, <1>6, <1>7 DEF Input

LEMMA SessionStep ==
  ASSUME WInv, Session
  PROVE  WInv'
<1>0. Rest /\ Input(queue, wire, held, excuse, pressed)
  BY Halves
<1>1. CASE start_remote_if_configured \/ AwaitConsent \/ Connect \/ apply_video_frame
  <2>1. UNCHANGED <<queue, wire, held, excuse, pressed>>
    BY <1>1
    DEF start_remote_if_configured, AwaitConsent, Connect, apply_video_frame
  <2>2. UNCHANGED <<window, meter>> /\ direct' \in BOOLEAN /\ tx' \in BOOLEAN
    BY <1>0, <1>1
    DEF start_remote_if_configured, AwaitConsent, Connect, apply_video_frame, Rest,
        winVars, linkVars
  <2>3. picture' \in FrameSize \cup {Unpainted}
    BY <1>0, <1>1
    DEF start_remote_if_configured, AwaitConsent, Connect, apply_video_frame, Rest
  <2>4. thread' \in [pc: {"none", "awaiting", "connecting", "relay", "direct",
                          "stopping", "over"}, polls: 0..MaxPoll-1]
    <3>1. CASE start_remote_if_configured
      BY <1>0, <3>1 DEF start_remote_if_configured, Rest
    <3>2. CASE AwaitConsent
      BY <1>0, <3>2, Bounds DEF AwaitConsent, Rest
    <3>3. CASE Connect
      BY <1>0, <3>3 DEF Connect, Rest
    <3>4. CASE apply_video_frame
      BY <1>0, <3>4 DEF apply_video_frame, linkVars, Rest
    <3>5. QED
      BY <1>1, <3>1, <3>2, <3>3, <3>4
  <2>5. Rest'
    BY <1>0, <2>2, <2>3, <2>4 DEF Rest
  <2>6. QED
    BY <1>0, <2>1, <2>5, Halves
<1>2. CASE run_controller_direct \/ LinkEnds \/ Stopped
  <2>1. Input(queue', wire', held', excuse', pressed')
    BY <1>2, Dropped DEF run_controller_direct, LinkEnds, Stopped
  <2>2. Rest'
    BY <1>0, <1>2 DEF run_controller_direct, LinkEnds, Stopped, Rest, winVars
  <2>3. QED
    BY <2>1, <2>2, Halves
<1>3. CASE SendInput
  BY <1>0, <1>3, Sent, Halves DEF SendInput, Rest, winVars
<1>4. QED
  BY <1>1, <1>2, <1>3 DEF Session

\* What is under way arrives or is lost.
LEMMA Arrives ==
  ASSUME WInv, NEW i \in 1..MaxWire, apply_input(i) \/ LoseDatagram(i)
  PROVE  WInv'
<1> DEFINE e == wire[i]
           K == held \cup excuse \cup UpsIn(queue)
<1>0. Rest /\ Input(queue, wire, held, excuse, pressed)
  BY Halves
<1>1. i \in 1..Len(wire) /\ wire \in Seq(Event) /\ Len(wire) \in Nat
  BY <1>0, LenProperties DEF apply_input, LoseDatagram, Input
<1>2. /\ e \in Event /\ wire' \in Seq(Event) /\ Len(wire') = Len(wire) - 1
      /\ UpsIn(wire) = UpsIn(wire') \cup UpsIn(<<e>>)
      /\ UpsIn(<<e>>) = IF e.kind = "up" THEN {e.c} ELSE {}
      /\ Follows(wire', K \cup UpsIn(<<e>>))
      /\ (\A j \in 1..i-1 : wire[j] # [kind |-> "down", c |-> e.c]) => Follows(wire', K)
      /\ e.kind = "down" => e.c \in K \cup UpsIn(wire')
  <2>1. wire' = RemoveAt(wire, i)
    BY DEF apply_input, LoseDatagram
  <2>2. Follows(wire, K)
    BY <1>0 DEF Input
  <2> HIDE DEF K
  <2>3. QED
    BY <1>1, <2>1, <2>2, OneGone
<1>3. e.c \in Control /\ e.kind \in {"down", "up"}
  BY <1>2 DEF Event
<1>4. Len(wire') <= MaxWire
  BY <1>0, <1>1, <1>2, Bounds DEF Input
<1>5. UNCHANGED <<held, queue, window, meter, direct, tx, thread, picture>>
  BY DEF apply_input, LoseDatagram, winVars, linkVars
<1> HIDE DEF e
<1>6. excuse \subseteq excuse' /\ excuse' \subseteq excuse \cup UpsIn(<<e>>)
  BY <1>2 DEF apply_input, LoseDatagram, e
<1>7. Follows(queue, held \cup excuse')
  BY <1>0, <1>6, Widen DEF Input
<1>8. CASE excuse' = excuse \cup UpsIn(<<e>>)
  <2>1. Follows(wire', held \cup excuse' \cup UpsIn(queue))
    <3>1. K \cup UpsIn(<<e>>) \subseteq held \cup excuse' \cup UpsIn(queue)
      BY <1>8
    <3>2. QED
      BY <1>2, <3>1, Widen
  <2>2. pressed' \subseteq pressed \cup (IF e.kind = "down" THEN {e.c} ELSE {})
    BY DEF apply_input, LoseDatagram, e
  <2>3. pressed' \subseteq held \cup UpsIn(queue) \cup UpsIn(wire') \cup excuse'
    BY <1>0, <1>2, <1>8, <2>2 DEF Input
  <2>4. Input(queue', wire', held', excuse', pressed')
    BY <1>0, <1>2, <1>3, <1>4, <1>5, <1>7, <1>8, <2>1, <2>2, <2>3 DEF Input
  <2>5. QED
    BY <1>0, <1>5, <2>4, Halves DEF Rest
<1>9. CASE excuse' # excuse \cup UpsIn(<<e>>)
  <2>1. /\ e.kind = "up" /\ pressed' = pressed \ {e.c} /\ excuse' = excuse
        /\ \A j \in 1..i-1 : wire[j] # [kind |-> "down", c |-> e.c]
    BY <1>2, <1>3, <1>9 DEF apply_input, LoseDatagram, e
  <2>2. Follows(wire', held \cup excuse' \cup UpsIn(queue))
    BY <1>2, <2>1
  <2>3. pressed' \subseteq held \cup UpsIn(queue) \cup UpsIn(wire') \cup excuse'
    BY <1>0, <1>2, <2>1 DEF Input
  <2>4. Input(queue', wire', held', excuse', pressed')
    BY <1>0, <1>2, <1>4, <1>5, <1>7, <2>1, <2>2, <2>3 DEF Input
  <2>5. QED
    BY <1>0, <1>5, <2>4, Halves DEF Rest
<1>10. QED
  BY <1>8, <1>9

\* A copy is under way: no press is less accounted for, no release is lost.
LEMMA Copied ==
  ASSUME WInv, NEW i \in 1..MaxWire, RepeatDatagram(i)
  PROVE  WInv'
<1>0. Rest /\ Input(queue, wire, held, excuse, pressed)
  BY Halves
<1>1. wire \in Seq(Event) /\ i \in 1..Len(wire) /\ Len(wire) \in Nat
  BY <1>0, LenProperties DEF RepeatDatagram, Input
<1>2. /\ wire' \in Seq(Event) /\ Len(wire') = Len(wire) + 1
      /\ UpsIn(wire') = UpsIn(wire)
      /\ \A X : Follows(wire, X) => Follows(wire', X)
  BY <1>1, Repeated DEF RepeatDatagram
<1>3. Len(wire') <= MaxWire
  BY <1>1, <1>2, Bounds DEF RepeatDatagram
<1>4. UNCHANGED <<window, meter, direct, tx, thread, picture, held, queue, excuse, pressed>>
  BY DEF RepeatDatagram, winVars, linkVars
<1>5. Input(queue', wire', held', excuse', pressed')
  BY <1>0, <1>2, <1>3, <1>4 DEF Input
<1>6. QED
  BY <1>0, <1>4, <1>5, Halves DEF Rest

LEMMA WindowInit == Init => WInv
<1>1. SUFFICES ASSUME Init PROVE WInv
  OBVIOUS
<1>2. Rest
  <2>1. 0 \in 0..MaxPoll-1
    BY Bounds
  <2>2. QED
    BY <1>1, <2>1 DEF Init, Rest, ViewOnly
<1>3. Input(queue, wire, held, excuse, pressed)
  <2>1. Len(<<>>) <= MaxQueue /\ Len(<<>>) <= MaxWire /\ <<>> \in Seq(Event)
    BY NoneLeft, Bounds
  <2>2. Follows(<<>>, {}) /\ UpsIn(<<>>) = {}
    BY NoneLeft
  <2>3. QED
    BY <1>1, <2>1, <2>2 DEF Init, Input
<1>4. QED
  BY <1>2, <1>3, Halves

THEOREM WindowInvariant == Spec => []WInv
<1>1. WInv /\ [Next]_vars => WInv'
  <2>1. ASSUME WInv, hide_toolbar_if_fullscreen PROVE WInv'
    <3>1. (window.toolbar /\ ~window.fullscreen) \in BOOLEAN
      OBVIOUS
    <3>2. QED
      BY <2>1, <3>1, Halves DEF hide_toolbar_if_fullscreen, linkVars, Rest
  <2>2. ASSUME WInv, poll_meter PROVE WInv'
    <3>1. PICK v \in ViewOnly :
            meter' = [view_only |-> v, ways_open |-> meter.ways_open /\ v = "resource"]
      BY <2>2 DEF poll_meter, viewOnly, ViewOnly
    <3>2. (meter.ways_open /\ v = "resource") \in BOOLEAN
      OBVIOUS
    <3>3. QED
      BY <2>2, <3>1, <3>2, Halves DEF poll_meter, linkVars, Rest
  <2>3. ASSUME WInv, UNCHANGED vars PROVE WInv'
    BY <2>3, Halves DEF vars, winVars, linkVars, Rest
  <2>4. QED
    BY <2>1, <2>2, <2>3, UserStep, SessionStep, Arrives, Copied DEF Next
<1>2. QED
  BY <1>1, WindowInit, PTL DEF Spec

\* Every variable of the controlling program keeps its type.
THEOREM TypeCorrect == Spec => []TypeOK
BY WindowInvariant, PTL DEF WInv

\* Nothing stays pressed on the shared machine without a listed reason: the
\* hand-over from the relay to the direct link loses nothing of the channel.
THEOREM PressesAccounted == Spec => []ReleasesAccounted
BY WindowInvariant, PTL DEF WInv

-----------------------------------------------------------------------------
(* Where a click lands.  Along one axis, x is the point within the drawn    *)
(* rectangle of width w, q the pixel of a picture p wide, b the pixel of    *)
(* the screen s wide that it stands for, a that in Windows' coordinates,    *)
(* and t the pixel the pointer comes to stand on.                           *)

\* Integer division, as the solvers can use it.
LEMMA Quotient ==
  ASSUME NEW n \in Nat, NEW d \in Nat \ {0}
  PROVE  /\ n \div d \in Nat
         /\ d * (n \div d) <= n
         /\ n < d * (n \div d) + d
  OBVIOUS

\* Both sides times a natural number.
LEMMA Times ==
  ASSUME NEW m \in Int, NEW n \in Int, NEW k \in Nat, m <= n
  PROVE  m * k <= n * k /\ k * m <= k * n
  OBVIOUS

\* A quotient is less than what it is less than when multiplied out.
LEMMA Below ==
  ASSUME NEW n \in Nat, NEW d \in Nat \ {0}, NEW k \in Int, n < d * k
  PROVE  n \div d < k
<1> DEFINE e == n \div d
<1>1. e \in Nat /\ d * e <= n
  BY Quotient
<1> HIDE DEF e
<1>2. SUFFICES ASSUME k <= e PROVE FALSE
  BY <1>1 DEF e
<1>3. d * k <= d * e
  BY <1>1, <1>2
<1>4. d * e \in Int /\ d * k \in Int
  BY <1>1
<1>5. QED
  BY <1>1, <1>3, <1>4

\* A coordinate from one scale to another, as all of this code's are.
Scaled(x, from, to) == (x * to) \div from

LEMMA ScaledIs ==
  ASSUME NEW x \in Nat, NEW w \in Nat \ {0}, NEW p \in Nat
  PROVE  /\ Scaled(x, w, p) \in Nat
         /\ w * Scaled(x, w, p) <= x * p
         /\ x * p < w * Scaled(x, w, p) + w
<1>1. x * p \in Nat
  OBVIOUS
<1>2. QED
  BY <1>1, Quotient DEF Scaled

\* The picture's pixel is one of the picture, and the screen's one of the screen.
LEMMA PixelBelow ==
  ASSUME NEW x \in Nat, NEW w \in Nat \ {0}, NEW p \in Nat \ {0}, x < w
  PROVE  /\ Scaled(x, w, p) \in 0 .. p - 1
         /\ Smaller(Scaled(x, w, p), p - 1) = Scaled(x, w, p)
<1>1. x * p \in Nat
  OBVIOUS
<1>2. x * p < w * p
  OBVIOUS
<1>3. Scaled(x, w, p) < p
  BY <1>1, <1>2, Below DEF Scaled
<1>4. Scaled(x, w, p) \in Nat
  BY ScaledIs
<1>5. QED
  BY <1>3, <1>4 DEF Smaller

\* The pixel of a screen s wide on which Windows puts the pointer that was sent
\* to pixel b.
Shown(b, s) == Scaled(Scaled(b, Larger(s - 1, 1), 65535), 65536, s)

\* It is that pixel, or the one before it: the two roundings lose less than a
\* pixel of any screen that Windows' coordinates can tell apart.
LEMMA PointerOnPixel ==
  ASSUME NEW s \in Nat \ {0}, s <= 65536, NEW b \in 0 .. s - 1
  PROVE  Shown(b, s) \in 0 .. s - 1 /\ Shown(b, s) \in {b - 1, b}
<1> DEFINE d == Larger(s - 1, 1)
           a == Scaled(b, d, 65535)
           t == Scaled(a, 65536, s)
<1>1. /\ s \in Nat /\ b \in Nat /\ d \in Nat \ {0} /\ b * 65535 \in Nat
      /\ s = 1 => b = 0
      /\ s # 1 => d = s - 1
  BY DEF Larger
<1>2. a \in Nat /\ d * a <= b * 65535 /\ b * 65535 < d * a + d
  <2> DEFINE c == 65535
  <2>1. c \in Nat /\ b \in Nat /\ d \in Nat \ {0}
    BY <1>1
  <2> HIDE DEF c, d
  <2>2. /\ Scaled(b, d, c) \in Nat
        /\ d * Scaled(b, d, c) <= b * c
        /\ b * c < d * Scaled(b, d, c) + d
    BY <2>1, ScaledIs
  <2>3. QED
    BY <2>2 DEF c
<1> HIDE DEF d, a
<1>3. a * s \in Nat
  BY <1>1, <1>2
<1>4. t \in Nat /\ 65536 * t <= a * s /\ a * s < 65536 * t + 65536
  BY <1>1, <1>2, ScaledIs
<1> HIDE DEF t
<1>5. CASE s = 1
  <2>1. a = 0
    <3>1. b = 0 /\ d = 1
      BY <1>1, <1>5 DEF d, Larger
    <3>2. 1 * a <= 0 * 65535
      BY <1>2, <3>1
    <3>3. QED
      BY <1>2, <3>2
  <2>2. t = 0
    BY <1>4, <1>5, <2>1
  <2>3. QED
    BY <1>1, <1>5, <2>1, <2>2 DEF d, a, t, Shown
<1>6. CASE s # 1
  <2>1. d = s - 1 /\ s >= 2
    BY <1>1, <1>6
  <2>2. t <= b
    <3> SUFFICES ASSUME t >= b + 1 PROVE FALSE
      BY <1>1, <1>4
    <3>1. 65536 * (b + 1) <= a * s
      BY <1>1, <1>3, <1>4
    <3>2. (65536 * (b + 1)) * (s - 1) <= (a * s) * (s - 1)
      <4> DEFINE m == 65536 * (b + 1)
                 n == a * s
                 k == s - 1
      <4>1. m \in Int /\ n \in Int /\ k \in Nat /\ m <= n
        BY <1>1, <1>3, <2>1, <3>1
      <4> HIDE DEF m, n, k
      <4>2. m * k <= n * k
        BY <4>1, Times
      <4>3. QED
        BY <4>2 DEF m, n, k
    <3>3. (a * s) * (s - 1) <= (b * 65535) * s
      <4>1. (s - 1) * a <= b * 65535
        BY <1>2, <2>1
      <4>2. ((s - 1) * a) * s <= (b * 65535) * s
        BY <1>1, <1>2, <2>1, <4>1
      <4>3. ((s - 1) * a) * s = (a * s) * (s - 1)
        BY <1>1, <1>2
      <4>4. QED
        BY <4>2, <4>3
    <3>4. (65536 * (b + 1)) * (s - 1) = 65536 * (b * s) + 65536 * (s - 1 - b)
      BY <1>1
    <3>5. (b * 65535) * s = 65535 * (b * s)
      BY <1>1
    <3>6. b * s \in Nat /\ s - 1 - b \in Nat
      BY <1>1
    <3> DEFINE bs == b * s
    <3>7. 65536 * bs + 65536 * (s - 1 - b) <= 65535 * bs
      <4>1. (65536 * (b + 1)) * (s - 1) <= (b * 65535) * s
        <5>1. (65536 * (b + 1)) * (s - 1) \in Int /\ (a * s) * (s - 1) \in Int
              /\ (b * 65535) * s \in Int
          BY <1>1, <1>2
        <5>2. QED
          BY <3>2, <3>3, <5>1
      <4>2. QED
        BY <3>4, <3>5, <4>1
    <3> HIDE DEF bs
    <3>8. bs = 0 /\ s - 1 - b = 0
      <4>1. bs \in Nat
        BY <3>6 DEF bs
      <4>2. QED
        BY <3>6, <3>7, <4>1
    <3>9. b # 0 /\ b * s # 0
      BY <1>1, <2>1, <3>8
    <3>10. QED
      BY <3>8, <3>9 DEF bs
  <2>3. t >= b - 1
    <3> SUFFICES ASSUME t <= b - 2 PROVE FALSE
      BY <1>1, <1>4
    <3>1. a * s < 65536 * (b - 1)
      BY <1>1, <1>3, <1>4
    <3>2. b * 65535 < (s - 1) * a + (s - 1)
      BY <1>2, <2>1
    <3>3. (b * 65535) * s < ((s - 1) * a + (s - 1)) * s
      BY <1>1, <1>2, <2>1, <3>2
    <3>4. ((s - 1) * a + (s - 1)) * s = (s - 1) * (a * s) + (s - 1) * s
      BY <1>1, <1>2
    <3>5. (s - 1) * (a * s) <= (s - 1) * (65536 * (b - 1))
      <4> DEFINE m == a * s
                 n == 65536 * (b - 1)
                 k == s - 1
      <4>1. m \in Int /\ n \in Int /\ k \in Nat /\ m <= n
        BY <1>1, <1>3, <2>1, <3>1
      <4> HIDE DEF m, n, k
      <4>2. k * m <= k * n
        BY <4>1, Times
      <4>3. QED
        BY <4>2 DEF m, n, k
    <3>6. (b * 65535) * s < (s - 1) * (65536 * (b - 1)) + (s - 1) * s
      <4>1. /\ (b * 65535) * s \in Int /\ (s - 1) * (a * s) \in Int
            /\ (s - 1) * (65536 * (b - 1)) \in Int /\ (s - 1) * s \in Int
        BY <1>1, <1>2
      <4>2. QED
        BY <3>3, <3>4, <3>5, <4>1
    <3> DEFINE m == (b * 65535) * s
               n == (s - 1) * (65536 * (b - 1)) + (s - 1) * s
               e == (s - 65536) * (b + s - 1)
    <3>7. n - m = e
      BY <1>1
    <3>8. e <= 0
      BY <1>1
    <3>9. m \in Int /\ n \in Int
      BY <1>1
    <3>10. m < n
      BY <3>6
    <3> HIDE DEF m, n, e
    <3>11. n - m <= 0
      BY <3>7, <3>8, <3>9
    <3>12. QED
      BY <3>9, <3>10, <3>11
  <2>4. t \in 0 .. s - 1 /\ t \in {b - 1, b}
    BY <1>1, <1>4, <2>2, <2>3
  <2>5. QED
    BY <1>2, <2>4 DEF a, d, t, Shown
<1>7. QED
  BY <1>5, <1>6

\* One axis of the way of a click: x of w pixels drawn becomes q of p in the
\* frame, and the pointer stands at t of the s on the screen.
LandsAxis(x, w, p, s) ==
  LET q == Smaller(Scaled(x, w, p), p - 1)
      t == Scaled(ToAbsolute(q, p, s), 65536, s)
  IN /\ q \in 0 .. p - 1
     /\ t \in 0 .. s - 1
     /\ Apart(x, w, t, s) <= s \div p + 2

\* One truncation costs a pixel of the frame, the two of Windows' coordinates
\* two of the screen.
LEMMA LandsOnAxis ==
  ASSUME NEW x \in Nat, NEW w \in Nat \ {0}, x < w,
         NEW p \in Nat \ {0}, NEW s \in Nat \ {0}, s <= 65536
  PROVE  LandsAxis(x, w, p, s)
<1> DEFINE q == Scaled(x, w, p)
           b == Scaled(q, p, s)
           t == Shown(b, s)
           k == s \div p
<1>1. q \in 0 .. p - 1 /\ Smaller(q, p - 1) = q
  BY PixelBelow
<1>2. Scaled(ToAbsolute(q, p, s), 65536, s) = t
  BY <1>1 DEF ToAbsolute, Scaled, Shown
<1>3. w * q <= x * p /\ x * p < w * q + w
  BY ScaledIs
<1> HIDE DEF q
<1>4. b \in 0 .. s - 1 /\ p * b <= q * s /\ q * s < p * b + p
  <2>1. q \in Nat /\ q < p /\ s \in Nat \ {0} /\ q * s \in Nat
    BY <1>1
  <2>2. b \in 0 .. s - 1
    BY <2>1, PixelBelow
  <2>3. p * b <= q * s /\ q * s < p * b + p
    BY <2>1, ScaledIs
  <2>4. QED
    BY <2>2, <2>3
<1> HIDE DEF b
<1>5. t \in 0 .. s - 1 /\ t \in {b - 1, b}
  BY <1>4, PointerOnPixel
<1> HIDE DEF t
<1>6. k \in Nat /\ s < p * k + p
  BY Quotient
<1> HIDE DEF k
<1>7. q \in Nat /\ b \in Nat /\ t \in Nat /\ s \in Nat \ {0}
  BY <1>1, <1>4, <1>5
<1> DEFINE xs == x * s
           tw == t * w
           wp == w * p
\* t/s is no further right than x/w ...
<1>8. tw <= xs
  <2> SUFFICES ASSUME xs < tw PROVE FALSE
    BY <1>7
  <2>1. (p * b) * w <= (q * s) * w
    <3> DEFINE m == p * b
               n == q * s
    <3>1. m \in Int /\ n \in Int /\ m <= n
      BY <1>4, <1>7
    <3> HIDE DEF m, n
    <3>2. m * w <= n * w
      BY <3>1, Times
    <3>3. QED
      BY <3>2 DEF m, n
  <2>2. (w * q) * s <= (x * p) * s
    <3> DEFINE m == w * q
               n == x * p
    <3>1. m \in Int /\ n \in Int /\ m <= n
      BY <1>3, <1>7
    <3> HIDE DEF m, n
    <3>2. m * s <= n * s
      BY <1>7, <3>1, Times
    <3>3. QED
      BY <3>2 DEF m, n
  <2>3. (p * b) * w = b * wp /\ (q * s) * w = (w * q) * s /\ (x * p) * s = p * xs
    BY <1>7
  <2>4. b * wp <= p * xs
    <3>1. (p * b) * w \in Int /\ (q * s) * w \in Int /\ (x * p) * s \in Int
      BY <1>7
    <3>2. QED
      BY <2>1, <2>2, <2>3, <3>1
  <2>5. t * wp <= b * wp
    <3>1. wp \in Nat /\ t \in Int /\ b \in Int /\ t <= b
      BY <1>5, <1>7
    <3> HIDE DEF wp
    <3>2. QED
      BY <3>1, Times
  <2>6. t * wp = p * tw
    BY <1>7
  <2>7. p * xs < p * tw
    <3>1. xs \in Int /\ tw \in Int
      BY <1>7
    <3> HIDE DEF xs, tw
    <3>2. QED
      BY <3>1
  <2>8. p * xs \in Int /\ p * tw \in Int /\ b * wp \in Int /\ t * wp \in Int
    BY <1>7
  <2>9. QED
    BY <2>4, <2>5, <2>6, <2>7, <2>8
\* ... and the distance is less than a pixel of the picture and three of the
\* screen, before it is rounded down.
<1>9. xs - tw < w * (k + 3)
  <2> SUFFICES ASSUME w * (k + 3) <= xs - tw PROVE FALSE
    BY <1>6, <1>7
  <2>1. (x * p) * s < (w * q + w) * s
    <3> DEFINE m == x * p
               n == w * q + w
    <3>1. m \in Int /\ n \in Int /\ m + 1 <= n
      BY <1>3, <1>7
    <3> HIDE DEF m, n
    <3>2. (m + 1) * s <= n * s
      BY <1>7, <3>1, Times
    <3>3. m * s < (m + 1) * s
      BY <1>7, <3>1
    <3>4. m * s < n * s
      <4>1. m * s \in Int /\ (m + 1) * s \in Int /\ n * s \in Int
        BY <1>7, <3>1
      <4>2. QED
        BY <3>2, <3>3, <4>1
    <3>5. QED
      BY <3>4 DEF m, n
  <2>2. (w * q + w) * s = w * (q * s + s)
    BY <1>7
  <2>3. w * (q * s + s) <= w * (p * (b + k + 2))
    <3> DEFINE m == q * s + s
               n == p * (b + k + 2)
    <3>1. m \in Int /\ n \in Int /\ m <= n
      BY <1>4, <1>6, <1>7
    <3> HIDE DEF m, n
    <3>2. w * m <= w * n
      BY <3>1, Times
    <3>3. QED
      BY <3>2 DEF m, n
  <2>4. w * (p * (b + k + 2)) = p * (w * (b + k + 2))
    BY <1>6, <1>7
  <2>5. (x * p) * s = p * xs
    BY <1>7
  <2>6. p * xs < p * (w * (b + k + 2))
    <3>1. /\ (x * p) * s \in Int /\ w * (q * s + s) \in Int
          /\ w * (p * (b + k + 2)) \in Int
      BY <1>6, <1>7
    <3>2. QED
      BY <2>1, <2>2, <2>3, <2>4, <2>5, <3>1
  <2>7. xs < w * (b + k + 2)
    <3> DEFINE m == w * (b + k + 2)
    <3>1. xs \in Int /\ m \in Int /\ p * xs < p * m
      BY <1>6, <1>7, <2>6
    <3> HIDE DEF xs, m
    <3>2. SUFFICES ASSUME m <= xs PROVE FALSE
      BY <3>1 DEF m
    <3>3. p * m <= p * xs
      BY <3>1, <3>2, Times
    <3>4. p * m \in Int /\ p * xs \in Int
      BY <3>1
    <3>5. QED
      BY <3>1, <3>3, <3>4
  <2>8. w * (b + k + 2) <= w * (t + k + 3)
    <3> DEFINE m == b + k + 2
               n == t + k + 3
    <3>1. m \in Int /\ n \in Int /\ m <= n
      BY <1>5, <1>6, <1>7
    <3> HIDE DEF m, n
    <3>2. w * m <= w * n
      BY <3>1, Times
    <3>3. QED
      BY <3>2 DEF m, n
  <2>9. w * (t + k + 3) = tw + w * (k + 3)
    BY <1>6, <1>7
  <2>10. /\ xs \in Int /\ tw \in Int /\ w * (k + 3) \in Int
         /\ w * (b + k + 2) \in Int
    BY <1>6, <1>7
  <2>11. QED
    BY <2>7, <2>8, <2>9, <2>10
<1>10. Apart(x, w, t, s) <= k + 2
  <2> DEFINE d == xs - tw
  <2>1. d \in Nat /\ Apart(x, w, t, s) = d \div w
    BY <1>7, <1>8 DEF Apart
  <2>2. d < w * (k + 3)
    BY <1>9
  <2> HIDE DEF d
  <2>3. k + 3 \in Int
    BY <1>6
  <2>4. d \div w < k + 3
    BY <2>1, <2>2, <2>3, Below
  <2>5. d \div w \in Nat
    BY <2>1, Quotient
  <2>6. QED
    BY <1>6, <2>1, <2>4, <2>5
<1>11. QED
  BY <1>1, <1>2, <1>5, <1>10 DEF LandsAxis, q, k

\* Where the picture is drawn has whole coordinates, whatever the window.
LEMMA RectType ==
  ASSUME NEW win, NEW size \in Size
  PROVE  LET r == PictureRect(win, size) IN
         r.left \in Int /\ r.top \in Int /\ r.width \in Int /\ r.height \in Int
<1> DEFINE c == ClientOf(win)
           band == picture_band(c[2], win.toolbar)
           ch == Larger(band[2] - band[1], 0)
           box == letterbox(c[1], ch, size[1], size[2])
<1>1. c[1] \in Nat /\ c[2] \in Nat
  BY SizeAssumption DEF ClientOf, Size
<1> HIDE DEF c
<1>2. band[1] \in Int /\ band[2] \in Int
  BY <1>1 DEF picture_band, FACT_HEIGHT, TOOLBAR_HEIGHT, Larger
<1> HIDE DEF band
<1>3. ch \in Nat
  BY <1>2 DEF Larger
<1> HIDE DEF ch
<1>4. size[1] \in Nat \ {0} /\ size[2] \in Nat \ {0}
  BY DEF Size
<1>5. /\ DOMAIN box = {"left", "top", "width", "height"}
      /\ box.left \in Int /\ box.top \in Int
      /\ box.width \in Int /\ box.height \in Int
  <2> DEFINE w == (ch * size[1]) \div size[2]
             h == (c[1] * size[2]) \div size[1]
  <2>1. w \in Int /\ h \in Int
    <3>1. ch * size[1] \in Nat /\ c[1] * size[2] \in Nat
      BY <1>1, <1>3, <1>4
    <3>2. QED
      BY <1>4, <3>1, Quotient
  <2>2. box = IF c[1] <= 0 \/ ch <= 0 \/ size[1] <= 0 \/ size[2] <= 0
              THEN Rect(0, 0, 0, 0)
              ELSE IF w <= c[1] THEN Rect((c[1] - w) \div 2, 0, w, ch)
                   ELSE Rect(0, (ch - h) \div 2, c[1], h)
    BY DEF letterbox
  <2> HIDE DEF w, h, box
  <2>3. (c[1] - w) \div 2 \in Int /\ (ch - h) \div 2 \in Int
    BY <1>1, <1>3, <2>1
  <2>4. QED
    BY <1>1, <1>3, <2>1, <2>2, <2>3 DEF Rect
<1>6. PictureRect(win, size) = [box EXCEPT !.top = @ + band[1]]
  BY DEF PictureRect, c, band, ch
<1> HIDE DEF box
<1>7. QED
  BY <1>2, <1>5, <1>6

\* The frames that come are 16 pixels wide and high at least.
LEMMA FrameSizes ==
  ASSUME NEW size \in FrameSize
  PROVE  size \in Size
<1>1. PICK max \in MaxWidth : size \in Captured(max)
  BY DEF FrameSize
<1>2. max \in Nat \ {0} /\ Screen[1] \in Nat \ {0} /\ Screen[2] \in Nat \ {0}
  BY SizeAssumption DEF Size
<1>3. ASSUME NEW v \in Nat PROVE align_h264_dimension(v) \in Nat \ {0}
  <2> DEFINE u == (v \div 16) * 16
  <2>1. u \in Nat
    BY <1>3
  <2> HIDE DEF u
  <2>2. Larger(u, 16) \in Nat \ {0}
    BY <2>1 DEF Larger
  <2>3. QED
    BY <2>2 DEF align_h264_dimension, u
<1> DEFINE fit == Smaller(Screen[1], max)
<1>4. fit \in Nat
  BY <1>2 DEF Smaller
<1>5. PICK w \in {fit, align_h264_dimension(fit)} :
        size = <<align_h264_dimension(fit),
                 align_h264_dimension((Screen[2] * w) \div Screen[1])>>
  BY <1>1 DEF Captured
<1> HIDE DEF fit
<1>6. w \in Nat
  BY <1>3, <1>4, <1>5
<1>7. (Screen[2] * w) \div Screen[1] \in Nat
  BY <1>2, <1>6, Quotient
<1>8. QED
  BY <1>3, <1>4, <1>5, <1>7 DEF Size

\* The assumption on the screen, by its sides.
LEMMA ScreenSides ==
  /\ Screen[1] \in Nat \ {0} /\ Screen[1] <= 65536
  /\ Screen[2] \in Nat \ {0} /\ Screen[2] <= 65536
<1>1. Screen[1] \in Nat \ {0} /\ Screen[2] \in Nat \ {0}
  BY SizeAssumption DEF Size
<1>2. Screen[1] <= 32768 /\ Screen[2] <= 32768
  BY ScreenAssumption
<1>3. QED
  BY <1>1, <1>2

\* For every window, monitor, screen and rate, a point clicked in the picture
\* stands for a point of the frame, and the pointer lands within a pixel of the
\* picture and two of the screen of what the user saw there.
THEOREM ClicksLand == Spec => []LandsWherePointed
<1>1. TypeOK => LandsWherePointed
  <2> SUFFICES ASSUME TypeOK, NEW y \in Spot, picture # Unpainted,
                      InPicture(window, picture, y)
               PROVE  LET q == client_to_picture(window, picture, y)
                          r == PictureRect(window, picture)
                          s == ToScreen(move_pointer(q, picture))
                      IN /\ q[1] \in 0..picture[1]-1 /\ q[2] \in 0..picture[2]-1
                         /\ s[1] \in 0..Screen[1]-1 /\ s[2] \in 0..Screen[2]-1
                         /\ Apart(y[1] - r.left, r.width, s[1], Screen[1])
                              <= Screen[1] \div picture[1] + 2
                         /\ Apart(y[2] - r.top, r.height, s[2], Screen[2])
                              <= Screen[2] \div picture[2] + 2
    BY DEF LandsWherePointed
  <2> DEFINE r == PictureRect(window, picture)
             x1 == y[1] - r.left
             x2 == y[2] - r.top
  <2>1. picture \in Size
    BY FrameSizes DEF TypeOK
  <2>2. r.left \in Int /\ r.top \in Int /\ r.width \in Int /\ r.height \in Int
    BY <2>1, RectType
  <2>3. y[1] \in Int /\ y[2] \in Int
    <3> DEFINE c == ClientOf(window)
    <3>1. c[1] \in Nat /\ c[2] \in Nat
      BY SizeAssumption DEF ClientOf, Size
    <3> HIDE DEF c
    <3>2. c[1] \div 2 \in Int /\ c[2] \div 2 \in Int
      BY <3>1
    <3>3. y \in {Middle(fullscreen_button(c)), Middle(ways_button),
                 Middle(restore_button), <<c[1] \div 2, c[2] \div 2>>, <<0, 0>>,
                 <<c[1] - 1, c[2] - 60>>}
      BY DEF Spot, c
    <3>4. QED
      BY <3>1, <3>2, <3>3
      DEF Middle, fullscreen_button, ways_button, restore_button, Rect,
          TOOLBAR_HEIGHT
  <2>4. /\ x1 \in Nat /\ x1 < r.width /\ r.width \in Nat \ {0}
        /\ x2 \in Nat /\ x2 < r.height /\ r.height \in Nat \ {0}
    BY <2>2, <2>3 DEF InPicture, hit_frame
  <2> HIDE DEF x1, x2
  <2>5. /\ picture[1] \in Nat \ {0} /\ picture[2] \in Nat \ {0}
        /\ Screen[1] \in Nat \ {0} /\ Screen[2] \in Nat \ {0}
        /\ Screen[1] <= 65536 /\ Screen[2] <= 65536
    BY <2>1, ScreenSides DEF Size
  <2> DEFINE q1 == Smaller(Scaled(x1, r.width, picture[1]), picture[1] - 1)
             q2 == Smaller(Scaled(x2, r.height, picture[2]), picture[2] - 1)
             t1 == Scaled(ToAbsolute(q1, picture[1], Screen[1]), 65536, Screen[1])
             t2 == Scaled(ToAbsolute(q2, picture[2], Screen[2]), 65536, Screen[2])
  <2>6. client_to_picture(window, picture, y) = <<q1, q2>>
    BY DEF client_to_picture, Scaled, x1, x2
  <2>7. ToScreen(move_pointer(<<q1, q2>>, picture)) = <<t1, t2>>
    <3> HIDE DEF q1, q2
    <3> QED BY DEF ToScreen, move_pointer, Scaled
  <2> HIDE DEF r
  <2>8. LandsAxis(x1, r.width, picture[1], Screen[1])
    <3> DEFINE w == r.width
               p == picture[1]
               z == Screen[1]
    <3>1. /\ x1 \in Nat /\ x1 < w /\ w \in Nat \ {0}
          /\ p \in Nat \ {0} /\ z \in Nat \ {0} /\ z <= 65536
      BY <2>4, <2>5
    <3> HIDE DEF w, p, z
    <3>2. LandsAxis(x1, w, p, z)
      BY <3>1, LandsOnAxis
    <3>3. QED
      BY <3>2 DEF w, p, z
  <2>9. LandsAxis(x2, r.height, picture[2], Screen[2])
    <3> DEFINE w == r.height
               p == picture[2]
               z == Screen[2]
    <3>1. /\ x2 \in Nat /\ x2 < w /\ w \in Nat \ {0}
          /\ p \in Nat \ {0} /\ z \in Nat \ {0} /\ z <= 65536
      BY <2>4, <2>5
    <3> HIDE DEF w, p, z
    <3>2. LandsAxis(x2, w, p, z)
      BY <3>1, LandsOnAxis
    <3>3. QED
      BY <3>2 DEF w, p, z
  <2>10. /\ q1 \in 0 .. picture[1] - 1 /\ t1 \in 0 .. Screen[1] - 1
         /\ Apart(x1, r.width, t1, Screen[1]) <= Screen[1] \div picture[1] + 2
    BY <2>8 DEF LandsAxis
  <2>11. /\ q2 \in 0 .. picture[2] - 1 /\ t2 \in 0 .. Screen[2] - 1
         /\ Apart(x2, r.height, t2, Screen[2]) <= Screen[2] \div picture[2] + 2
    BY <2>9 DEF LandsAxis
  <2> HIDE DEF q1, q2, t1, t2
  <2> DEFINE q == client_to_picture(window, picture, y)
             s == ToScreen(move_pointer(q, picture))
  <2>12. q[1] = q1 /\ q[2] = q2
    BY <2>6
  <2>13. s = <<t1, t2>>
    BY <2>6, <2>7, Zenon
  <2>14. s[1] = t1 /\ s[2] = t2
    <3> HIDE DEF s
    <3> QED BY <2>13
  <2> HIDE DEF q, s
  <2>15. /\ q[1] \in 0 .. picture[1] - 1 /\ q[2] \in 0 .. picture[2] - 1
         /\ s[1] \in 0 .. Screen[1] - 1 /\ s[2] \in 0 .. Screen[2] - 1
         /\ Apart(x1, r.width, s[1], Screen[1]) <= Screen[1] \div picture[1] + 2
         /\ Apart(x2, r.height, s[2], Screen[2]) <= Screen[2] \div picture[2] + 2
    BY <2>10, <2>11, <2>12, <2>14, Zenon
  <2>16. QED
    BY <2>15, Zenon DEF q, s, r, x1, x2
<1>2. QED
  BY <1>1, TypeCorrect, PTL

=============================================================================
