--------------------------- MODULE MCIcebergCommit ---------------------------
(* Small instances of IcebergCommit for TLC. *)
EXTENDS IcebergCommit

Symm == Permutations(Writer)
=============================================================================
