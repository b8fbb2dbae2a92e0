---------------------------- MODULE MCRangeCache ----------------------------
(* A small instance of RangeCache for TLC. *)
EXTENDS RangeCache

(* Within a window, across two, and past the end of the file.               *)
Requests == {[start |-> 0, end |-> 1], [start |-> 1, end |-> 3], [start |-> 4, end |-> 6]}

Symm == Permutations(Slice) \cup Permutations(Buffer)
=============================================================================
