---------------------------- MODULE MCReadControls ----------------------------
(* Small instances of ReadControls for TLC. *)
EXTENDS ReadControls, TLC

Symm == Permutations(Reader)
=============================================================================
