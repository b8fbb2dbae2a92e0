---------------------------- MODULE OrderedReduce ----------------------------
(***************************************************************************)
(* What a fan-in promises its caller: the partial results reach reduce one *)
(* by one, in the order of the inputs, and the call ends, with all of them *)
(* reduced or with a failure.                                              *)
(***************************************************************************)
EXTENDS Integers, Sequences

CONSTANT NInputs

VARIABLES reduced, outcome

vars == <<reduced, outcome>>

Init == reduced = <<>> /\ outcome = "pending"

ReduceNext ==
  /\ outcome = "pending" /\ Len(reduced) < NInputs
  /\ reduced' = Append(reduced, Len(reduced) + 1)
  /\ UNCHANGED outcome

Resolve ==
  /\ outcome = "pending" /\ Len(reduced) = NInputs
  /\ outcome' = "resolved"
  /\ UNCHANGED reduced

Reject ==
  /\ outcome = "pending"
  /\ outcome' = "rejected"
  /\ UNCHANGED reduced

Next == ReduceNext \/ Resolve \/ Reject

(* The call ends. *)
Spec == Init /\ [][Next]_vars /\ WF_vars(Next)
=============================================================================
