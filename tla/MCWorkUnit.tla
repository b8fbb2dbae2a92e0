------------------------------ MODULE MCWorkUnit ------------------------------
(* Small instances of WorkUnit for TLC. *)
EXTENDS WorkUnit
=============================================================================
