--------------------------- MODULE MCHostDesktop ---------------------------
(* HostDesktop on a small instance. *)
EXTENDS HostDesktop
=============================================================================
