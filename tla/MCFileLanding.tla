--------------------------- MODULE MCFileLanding ---------------------------
(* Instances of FileLanding for TLC. *)
EXTENDS FileLanding
CONSTANTS t1, t2
=============================================================================
