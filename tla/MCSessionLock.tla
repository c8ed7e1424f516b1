--------------------------- MODULE MCSessionLock ---------------------------
(* One watch process and one command at a time. *)
EXTENDS SessionLock
CONSTANTS w, c1
=============================================================================
