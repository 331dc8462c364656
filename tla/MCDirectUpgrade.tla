-------------------------- MODULE MCDirectUpgrade --------------------------
(* DirectUpgrade with two paths between the ends, each able to work alone. *)
EXTENDS DirectUpgrade
=============================================================================
