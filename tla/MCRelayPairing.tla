--------------------------- MODULE MCRelayPairing ---------------------------
(* Instances of RelayPairing for TLC.                                       *)
EXTENDS RelayPairing

=============================================================================
