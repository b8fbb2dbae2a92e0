---------------------------- MODULE MCObjectCache ----------------------------
(* Small instances of ObjectCache for TLC. *)
EXTENDS ObjectCache

(* A rewritten object is too large to be cached whole. *)
Sizes ==
  [k \in Kind |-> CASE k = "object" -> [v \in Version |-> IF v = 0 THEN 2 ELSE 4]
                    [] k = "range" -> [v \in Version |-> 1]
                    [] k = "head" -> [v \in Version |-> 0]]

(* The priorities of the balanced policy. *)
Balanced == [k \in Kind |-> CASE k = "object" -> 2 [] k = "range" -> 3 [] k = "head" -> 4]

Symm == Permutations(Client) \cup Permutations(Path)
=============================================================================
