--------------------------- MODULE MeteredSession ---------------------------
(***************************************************************************)
(* What a metered session promises the account that pays for it, whatever  *)
(* transactions, locks, tickets and retries bring it about: it opens once, *)
(* it is charged only while it is active, each report of bytes counts once *)
(* and charges no more than it says, only such a report can leave it dry,  *)
(* and when it is over it stays over.                                      *)
(***************************************************************************)
EXTENDS Integers

CONSTANTS Session, NoSession, HeartbeatId, MaxBytes

VARIABLES
  life,       \* where each session is on its way
  report,     \* the reports that count: for which session, how many bytes
  paid        \* the bytes each session was charged

metered == <<life, report, paid>>

Unused == [sess |-> NoSession, bytes |-> 0]

Init ==
  /\ life = [s \in Session |-> "absent"]
  /\ report = [i \in HeartbeatId |-> Unused]
  /\ paid = [s \in Session |-> 0]

\* A session the account's own machines open needs no consent.
Open(s) ==
  /\ life[s] = "absent"
  /\ \E first \in {"waiting", "active"} : life' = [life EXCEPT ![s] = first]
  /\ UNCHANGED <<report, paid>>

Consent(s) ==
  /\ life[s] = "waiting"
  /\ life' = [life EXCEPT ![s] = "active"]
  /\ UNCHANGED <<report, paid>>

\* A report that has not counted yet charges what it says, or what is left to
\* charge; the account may have run dry.
Meter(s) ==
  /\ life[s] = "active"
  /\ \E i \in HeartbeatId :
       /\ report[i] = Unused /\ report'[i] # Unused
       /\ \E n \in 0 .. MaxBytes :
            /\ report' = [report EXCEPT ![i] = [sess |-> s, bytes |-> n]]
            /\ \E m \in 0 .. n : paid' = [paid EXCEPT ![s] = @ + m]
  /\ life' \in {life, [life EXCEPT ![s] = "dry"]}

\* Rejected by the host's owner, or stopped, all of a host's at once.
End(S) ==
  /\ \A s \in S : life[s] \in {"waiting", "active", "dry"}
  /\ life' = [s \in Session |-> IF s \in S THEN "over" ELSE life[s]]
  /\ UNCHANGED <<report, paid>>

Next == \/ \E s \in Session : Open(s) \/ Consent(s) \/ Meter(s)
        \/ \E S \in (SUBSET Session) \ {{}} : End(S)

Spec == Init /\ [][Next]_metered

=============================================================================
