-------------------------- MODULE MCTaskCheckpoint --------------------------
(* Small instances of TaskCheckpoint for TLC. *)
EXTENDS TaskCheckpoint, TLC

CONSTANTS j1

OneJob == [t \in Task |-> j1]

Symm == Permutations(Worker) \cup Permutations(Key)
=============================================================================
