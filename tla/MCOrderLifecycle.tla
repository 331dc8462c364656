-------------------------- MODULE MCOrderLifecycle --------------------------
(* Instances of OrderLifecycle for TLC: every order is the first account's,  *)
(* reminders go to the app and to one channel more.                          *)
EXTENDS OrderLifecycle, TLC

CONSTANT a1

OwnedByFirst == [o \in Order |-> a1]
AppAndOne    == <<"app", "wechat">>

\* Connections are alike, and so are orders, where all of them are monthly and
\* the first account's.
Alike == Permutations(Connection) \cup Permutations(Order)

=============================================================================
