-------------------------- MODULE PredicateScanProofs --------------------------
(***************************************************************************)
(* For every predicate, column and path within the bounds of PredicateScan: *)
(* what is skipped has no row that matches, and what is scanned is exact.    *)
(* For every table and limits of TaskAggregates: what is planned, split and  *)
(* joined has every row that matches once.                                  *)
(*                                                                         *)
(* The argument has three parts.  Leaf by leaf, each reading is compared with *)
(* the evaluator: order and instants are arithmetic, the minimum of an IN    *)
(* list and the extremes of a column come from induction over their places.  *)
(* Node by node, the relation is carried to the root: a reading satisfies    *)
(* the equations of its recursion because operands come before their node.   *)
(* And along the loops of the planner, units hold the groups taken so far.   *)
(***************************************************************************)
EXTENDS PredicateScan, TaskAggregates, SumsAndFolds

(* Induction over the nodes of a predicate, or the rows of a column.        *)
LEMMA UpTo ==
  ASSUME NEW n \in Nat, NEW S, \A i \in 1..n : 1..(i - 1) \subseteq S => i \in S
  PROVE  1..n \subseteq S
<1> DEFINE Rest == {i \in 1..n : i \notin S}
<1>1. Rest \subseteq Nat
  OBVIOUS
<1>2. ASSUME Rest # {} PROVE FALSE
  <2>1. PICK i \in Rest : \A j \in Rest : i <= j
    <3> HIDE DEF Rest
    <3> QED BY <1>1, <1>2, LeastNatural
  <2>2. 1..(i - 1) \subseteq S
    BY <2>1
  <2> QED BY <2>1, <2>2
<1> QED BY <1>2

-----------------------------------------------------------------------------
(* What a reading may say, and what it says of one node.                    *)
Logics == {"sql", "path", "may", "must"}
Values(logic) ==
  CASE logic = "sql" -> {"true", "false", "null", "error"}
    [] logic = "path" -> {"true", "false", "unknown", "error"}
    [] OTHER -> BOOLEAN

Step(logic, e, leaf, f, i) == IF IsLeaf(e[i]) THEN leaf[i] ELSE Combined(logic, e[i], f)

(* A node has a value of its logic when its operands have.                  *)
LEMMA CombinedType ==
  ASSUME NEW logic \in Logics, NEW node, NEW i \in Nat, ~IsLeaf(node), IsInnerNode(node, i),
         NEW f, \A j \in 1..(i - 1) : f[j] \in Values(logic)
  PROVE  Combined(logic, node, f) \in Values(logic)
<1>1. node.kind \in {"not", "and", "or"}
  BY DEF IsLeaf
<1>2. \A j \in DOMAIN node.operands : f[node.operands[j]] \in Values(logic)
  BY DEF IsInnerNode
<1>3. node.kind = "not" => 1 \in DOMAIN node.operands
  BY DEF IsInnerNode, IsList
<1>4. CASE logic = "sql"
  BY <1>1, <1>2, <1>3, <1>4 DEF Combined, Composite, Values, SqlNot, SqlAnd, SqlOr
<1>5. CASE logic = "path"
  BY <1>1, <1>2, <1>3, <1>5 DEF Combined, PartitionComposite, Values, SqlNot, PathAnd, PathOr
<1>6. CASE logic = "may"
  BY <1>1, <1>2, <1>3, <1>6 DEF Combined, MayComposite, Values
<1>7. CASE logic = "must"
  BY <1>1, <1>2, <1>3, <1>7 DEF Combined, MayComposite, Values
<1> QED BY <1>4, <1>5, <1>6, <1>7 DEF Logics

(* The value of a node depends on the nodes before it alone.                *)
LEMMA CombinedLocal ==
  ASSUME NEW logic \in Logics, NEW node, NEW i \in Nat, ~IsLeaf(node), IsInnerNode(node, i),
         NEW f, NEW g, \A j \in 1..(i - 1) : f[j] = g[j]
  PROVE  Combined(logic, node, f) = Combined(logic, node, g)
<1>1. node.kind \in {"not", "and", "or"}
  BY DEF IsLeaf
<1>2. \A j \in DOMAIN node.operands : f[node.operands[j]] = g[node.operands[j]]
  BY DEF IsInnerNode
<1>3. node.kind = "not" => f[node.operands[1]] = g[node.operands[1]]
  BY <1>2 DEF IsInnerNode, IsList
<1>4. {f[node.operands[j]] : j \in DOMAIN node.operands} = {g[node.operands[j]] : j \in DOMAIN node.operands}
  BY <1>2
<1>5. Composite(node, f) = Composite(node, g)
  BY <1>1, <1>3, <1>4 DEF Composite
<1>6. PartitionComposite(node, f) = PartitionComposite(node, g)
  BY <1>1, <1>3, <1>4 DEF PartitionComposite
<1>7. MayComposite(node, f) = MayComposite(node, g)
  BY <1>1, <1>2 DEF MayComposite
<1> QED BY <1>5, <1>6, <1>7 DEF Logics, Combined

(* The same two facts, of leaves and inner nodes.                           *)
LEMMA StepType ==
  ASSUME NEW logic \in Logics, NEW e, IsPredicate(e), NEW leaf, \A i \in LeafNodes(e) : leaf[i] \in Values(logic),
         NEW i \in DOMAIN e, NEW f, \A j \in 1..(i - 1) : f[j] \in Values(logic)
  PROVE  Step(logic, e, leaf, f, i) \in Values(logic)
<1>1. i \in Nat
  BY DEF IsPredicate, IsList
<1>2. CASE IsLeaf(e[i])
  BY <1>2 DEF LeafNodes, Step
<1>3. CASE ~IsLeaf(e[i])
  BY <1>1, <1>3, CombinedType DEF IsPredicate, Step
<1> QED BY <1>2, <1>3

(* What a node says rests on the nodes before it alone.                     *)
LEMMA StepLocal ==
  ASSUME NEW logic \in Logics, NEW e, IsPredicate(e), NEW leaf, NEW i \in DOMAIN e,
         NEW f, NEW g, \A j \in 1..(i - 1) : f[j] = g[j]
  PROVE  Step(logic, e, leaf, f, i) = Step(logic, e, leaf, g, i)
<1>1. i \in Nat
  BY DEF IsPredicate, IsList
<1>2. CASE IsLeaf(e[i])
  BY <1>2 DEF Step
<1>3. CASE ~IsLeaf(e[i])
  BY <1>1, <1>3, CombinedLocal DEF IsPredicate, Step
<1> QED BY <1>2, <1>3

(* f is the reading of the first n nodes.                                   *)
Follows(logic, e, leaf, f, n) ==
  \A i \in 1..n : f[i] = Step(logic, e, leaf, f, i) /\ f[i] \in Values(logic)

(* A reading of the nodes before a node extends to the node.                *)
LEMMA FollowsOneMore ==
  ASSUME NEW logic \in Logics, NEW e, IsPredicate(e), NEW leaf, \A i \in LeafNodes(e) : leaf[i] \in Values(logic),
         NEW n \in 1..Len(e), NEW f, Follows(logic, e, leaf, f, n - 1)
  PROVE  \E g : Follows(logic, e, leaf, g, n)
<1> DEFINE g == [i \in 1..n |-> IF i < n THEN f[i] ELSE Step(logic, e, leaf, f, n)]
<1>1. Len(e) \in Nat /\ DOMAIN e = 1..Len(e)
  BY DEF IsPredicate, IsList
<1>2. \A j \in 1..(n - 1) : g[j] = f[j]
  BY <1>1
<1>3. \A i \in 1..(n - 1) : g[i] = Step(logic, e, leaf, g, i) /\ g[i] \in Values(logic)
  <2> TAKE i \in 1..(n - 1)
  <2>1. i \in DOMAIN e /\ \A j \in 1..(i - 1) : f[j] = g[j]
    BY <1>1, <1>2
  <2>2. Step(logic, e, leaf, f, i) = Step(logic, e, leaf, g, i)
    BY <2>1, StepLocal
  <2> QED BY <1>2, <2>2 DEF Follows
<1>4. g[n] = Step(logic, e, leaf, g, n) /\ g[n] \in Values(logic)
  <2>1. n \in DOMAIN e /\ \A j \in 1..(n - 1) : f[j] = g[j]
    BY <1>1, <1>2
  <2>2. Step(logic, e, leaf, f, n) = Step(logic, e, leaf, g, n)
    BY <2>1, StepLocal
  <2>3. \A j \in 1..(n - 1) : f[j] \in Values(logic)
    BY DEF Follows
  <2>4. Step(logic, e, leaf, f, n) \in Values(logic)
    BY <2>1, <2>3, StepType
  <2>5. g[n] = Step(logic, e, leaf, f, n)
    BY <1>1
  <2> QED BY <2>2, <2>4, <2>5
<1>5. Follows(logic, e, leaf, g, n)
  <2> SUFFICES ASSUME NEW i \in 1..n PROVE g[i] = Step(logic, e, leaf, g, i) /\ g[i] \in Values(logic)
    BY DEF Follows
  <2>1. i = n \/ i \in 1..(n - 1)
    BY <1>1
  <2> QED BY <1>3, <1>4, <2>1
<1> QED BY <1>5

(* So some function is the reading of all of them.                          *)
LEMMA SomeFollows ==
  ASSUME NEW logic \in Logics, NEW e, IsPredicate(e), NEW leaf, \A i \in LeafNodes(e) : leaf[i] \in Values(logic)
  PROVE  \E f : Follows(logic, e, leaf, f, Len(e))
<1> DEFINE Done == {n \in Nat : \E f : Follows(logic, e, leaf, f, n)}
<1>1. Len(e) \in Nat /\ Len(e) > 0
  BY DEF IsPredicate, IsList
<1>2. 0 \in Done
  BY DEF Follows
<1>3. \A n \in 1..Len(e) : n - 1 \in Done => n \in Done
  BY <1>1, FollowsOneMore
<1>4. \A n \in 1..Len(e) : 1..(n - 1) \subseteq Done => n \in Done
  <2> HIDE DEF Done
  <2> QED BY <1>1, <1>2, <1>3
<1>5. 1..Len(e) \subseteq Done
  <2> HIDE DEF Done
  <2> QED BY <1>1, <1>4, UpTo
<1> QED BY <1>1, <1>5

(* A reading gives every node the value that its operands and the leaves call for. *)
THEOREM ReadingIsItsRecursion ==
  ASSUME NEW logic \in Logics, NEW e, IsPredicate(e), NEW leaf, \A i \in LeafNodes(e) : leaf[i] \in Values(logic)
  PROVE  \E f : Follows(logic, e, leaf, f, Len(e)) /\ Reading(logic, e, leaf) = f[Len(e)]
<1> DEFINE Equation(f) == f = [i \in DOMAIN e |-> IF IsLeaf(e[i]) THEN leaf[i] ELSE Combined(logic, e[i], f)]
           value == CHOOSE f : Equation(f)
<1>1. Len(e) \in Nat /\ DOMAIN e = 1..Len(e)
  BY DEF IsPredicate, IsList
<1>2. Reading(logic, e, leaf) = value[Len(e)]
  BY DEF Reading
<1>3. \E f : Equation(f)
  <2>1. PICK f : Follows(logic, e, leaf, f, Len(e))
    BY SomeFollows
  <2> DEFINE g == [i \in DOMAIN e |-> f[i]]
  <2>2. \A i \in DOMAIN e : g[i] = Step(logic, e, leaf, g, i)
    <3> TAKE i \in DOMAIN e
    <3>1. \A j \in 1..(i - 1) : f[j] = g[j]
      BY <1>1
    <3>2. Step(logic, e, leaf, f, i) = Step(logic, e, leaf, g, i)
      BY <3>1, StepLocal
    <3> QED BY <1>1, <2>1, <3>2 DEF Follows
  <2>3. g = [i \in DOMAIN e |-> Step(logic, e, leaf, g, i)]
    BY <2>2
  <2>4. Equation(g)
    BY <2>3 DEF Step
  <2> QED BY <2>4
<1>4. Equation(value)
  BY <1>3
<1>5. \A i \in DOMAIN e : value[i] = Step(logic, e, leaf, value, i)
  BY <1>4 DEF Step
<1>6. \A i \in DOMAIN e : value[i] \in Values(logic)
  <2> DEFINE Typed == {i \in Nat : value[i] \in Values(logic)}
  <2> HIDE DEF value
  <2>1. \A i \in 1..Len(e) : 1..(i - 1) \subseteq Typed => i \in Typed
    <3> SUFFICES ASSUME NEW i \in 1..Len(e), \A j \in 1..(i - 1) : value[j] \in Values(logic)
                 PROVE  value[i] \in Values(logic)
      BY <1>1
    <3> QED BY <1>1, <1>5, StepType
  <2>2. 1..Len(e) \subseteq Typed
    <3> HIDE DEF Typed
    <3> QED BY <1>1, <2>1, UpTo
  <2> QED BY <1>1, <2>2
<1> HIDE DEF value
<1>7. Follows(logic, e, leaf, value, Len(e))
  BY <1>1, <1>5, <1>6 DEF Follows
<1> QED BY <1>2, <1>7

-----------------------------------------------------------------------------
(* Two readings of one predicate, related leaf by leaf, are related as wholes: *)
(* a predicate that is true of a row may match, if its leaves that are true   *)
(* may (rowGroupMayMatch, fileMayMatch).                                    *)
THEOREM MayFollows ==
  ASSUME NEW e, IsPredicate(e), NEW says, NEW may,
         \A i \in LeafNodes(e) : says[i] \in Values("sql") /\ may[i] \in BOOLEAN,
         \A i \in LeafNodes(e) : says[i] = "true" => may[i]
  PROVE  Reading("sql", e, says) = "true" => Reading("may", e, may)
<1>1. Len(e) \in Nat /\ Len(e) > 0 /\ DOMAIN e = 1..Len(e)
  BY DEF IsPredicate, IsList
<1>2. PICK v : Follows("sql", e, says, v, Len(e)) /\ Reading("sql", e, says) = v[Len(e)]
  BY ReadingIsItsRecursion DEF Logics
<1>3. PICK w : Follows("may", e, may, w, Len(e)) /\ Reading("may", e, may) = w[Len(e)]
  BY ReadingIsItsRecursion DEF Logics, Values
<1> DEFINE Good == {i \in Nat : v[i] = "true" => w[i]}
<1>4. \A i \in 1..Len(e) : 1..(i - 1) \subseteq Good => i \in Good
  <2> SUFFICES ASSUME NEW i \in 1..Len(e), \A j \in 1..(i - 1) : v[j] = "true" => w[j]
               PROVE  v[i] = "true" => w[i]
    BY <1>1
  <2>1. v[i] = Step("sql", e, says, v, i) /\ w[i] = Step("may", e, may, w, i)
    BY <1>2, <1>3 DEF Follows
  <2>2. CASE IsLeaf(e[i])
    BY <1>1, <2>1, <2>2 DEF Step, LeafNodes
  <2>3. CASE ~IsLeaf(e[i])
    <3>1. e[i].kind \in {"not", "and", "or"} /\ IsInnerNode(e[i], i)
      BY <1>1, <2>3 DEF IsLeaf, IsPredicate
    <3>2. \A j \in DOMAIN e[i].operands :
            /\ v[e[i].operands[j]] = "true" => w[e[i].operands[j]]
            /\ v[e[i].operands[j]] \in Values("sql")
      BY <1>1, <1>2, <3>1 DEF IsInnerNode, Follows
    <3>3. v[i] = Composite(e[i], v) /\ w[i] = MayComposite(e[i], w)
      BY <2>1, <2>3 DEF Step, Combined
    <3> QED BY <3>1, <3>2, <3>3 DEF Composite, MayComposite, SqlAnd, SqlOr, Values
  <2> QED BY <2>2, <2>3
<1>5. Len(e) \in Good
  <2>1. 1..Len(e) \subseteq Good
    <3> HIDE DEF Good
    <3> QED BY <1>1, <1>4, UpTo
  <2> QED BY <1>1, <2>1
<1> QED BY <1>2, <1>3, <1>5

(* A predicate that must match is true of a row, or cannot be evaluated, if    *)
(* that is so of its leaves (rowGroupMustMatch).                            *)
THEOREM MustDecides ==
  ASSUME NEW e, IsPredicate(e), NEW says, NEW must,
         \A i \in LeafNodes(e) : says[i] \in Values("sql") /\ must[i] \in BOOLEAN,
         \A i \in LeafNodes(e) : must[i] => says[i] \in {"true", "error"}
  PROVE  Reading("must", e, must) => Reading("sql", e, says) \in {"true", "error"}
<1>1. Len(e) \in Nat /\ Len(e) > 0 /\ DOMAIN e = 1..Len(e)
  BY DEF IsPredicate, IsList
<1>2. PICK v : Follows("sql", e, says, v, Len(e)) /\ Reading("sql", e, says) = v[Len(e)]
  BY ReadingIsItsRecursion DEF Logics
<1>3. PICK w : Follows("must", e, must, w, Len(e)) /\ Reading("must", e, must) = w[Len(e)]
  BY ReadingIsItsRecursion DEF Logics, Values
<1> DEFINE Good == {i \in Nat : w[i] => v[i] \in {"true", "error"}}
<1>4. \A i \in 1..Len(e) : 1..(i - 1) \subseteq Good => i \in Good
  <2> SUFFICES ASSUME NEW i \in 1..Len(e), \A j \in 1..(i - 1) : w[j] => v[j] \in {"true", "error"}
               PROVE  w[i] => v[i] \in {"true", "error"}
    BY <1>1
  <2>1. v[i] = Step("sql", e, says, v, i) /\ w[i] = Step("must", e, must, w, i)
    BY <1>2, <1>3 DEF Follows
  <2>2. CASE IsLeaf(e[i])
    BY <1>1, <2>1, <2>2 DEF Step, LeafNodes
  <2>3. CASE ~IsLeaf(e[i])
    <3>1. e[i].kind \in {"not", "and", "or"} /\ IsInnerNode(e[i], i)
      BY <1>1, <2>3 DEF IsLeaf, IsPredicate
    <3>2. \A j \in DOMAIN e[i].operands :
            /\ w[e[i].operands[j]] => v[e[i].operands[j]] \in {"true", "error"}
            /\ v[e[i].operands[j]] \in Values("sql")
      BY <1>1, <1>2, <3>1 DEF IsInnerNode, Follows
    <3>3. v[i] = Composite(e[i], v) /\ w[i] = (e[i].kind # "not" /\ MayComposite(e[i], w))
      BY <2>1, <2>3 DEF Step, Combined
    <3>4. CASE e[i].kind = "not"
      BY <3>3, <3>4
    <3>5. CASE e[i].kind = "and"
      <4> DEFINE ts == {v[e[i].operands[j]] : j \in DOMAIN e[i].operands}
      <4>1. v[i] = SqlAnd(ts) /\ (w[i] => \A j \in DOMAIN e[i].operands : w[e[i].operands[j]])
        BY <3>3, <3>5 DEF Composite, MayComposite
      <4>2. w[i] => ts \subseteq {"true", "error"}
        BY <3>2, <4>1
      <4> HIDE DEF ts
      <4> QED BY <4>1, <4>2 DEF SqlAnd
    <3>6. CASE e[i].kind = "or"
      <4> DEFINE ts == {v[e[i].operands[j]] : j \in DOMAIN e[i].operands}
      <4>1. v[i] = SqlOr(ts) /\ (w[i] => \E j \in DOMAIN e[i].operands : w[e[i].operands[j]])
        BY <3>3, <3>6 DEF Composite, MayComposite
      <4>2. w[i] => "true" \in ts \/ "error" \in ts
        BY <3>2, <4>1
      <4> HIDE DEF ts
      <4>3. "true" \in ts \/ "error" \in ts => SqlOr(ts) \in {"true", "error"}
        BY DEF SqlOr
      <4> QED BY <4>1, <4>2, <4>3
    <3> QED BY <3>1, <3>4, <3>5, <3>6
  <2> QED BY <2>2, <2>3
<1>5. Len(e) \in Good
  <2>1. 1..Len(e) \subseteq Good
    <3> HIDE DEF Good
    <3> QED BY <1>1, <1>4, UpTo
  <2> QED BY <1>1, <2>1
<1> QED BY <1>2, <1>3, <1>5

(* What the path says of a row: never the opposite.                         *)
PathAgrees(p, t) == (p = "false" => t # "true") /\ (p = "true" => t # "false")

(* partitionEval never says the opposite of the evaluator, if it does not of a *)
(* leaf: negation is sound because what is unknown stays unknown.            *)
THEOREM PathFollows ==
  ASSUME NEW e, IsPredicate(e), NEW says, NEW says_p,
         \A i \in LeafNodes(e) : says[i] \in Values("sql") /\ says_p[i] \in Values("path"),
         \A i \in LeafNodes(e) : PathAgrees(says_p[i], says[i])
  PROVE  PathAgrees(Reading("path", e, says_p), Reading("sql", e, says))
<1>1. Len(e) \in Nat /\ Len(e) > 0 /\ DOMAIN e = 1..Len(e)
  BY DEF IsPredicate, IsList
<1>2. PICK v : Follows("sql", e, says, v, Len(e)) /\ Reading("sql", e, says) = v[Len(e)]
  BY ReadingIsItsRecursion DEF Logics
<1>3. PICK w : Follows("path", e, says_p, w, Len(e)) /\ Reading("path", e, says_p) = w[Len(e)]
  BY ReadingIsItsRecursion DEF Logics
<1> DEFINE Good == {i \in Nat : PathAgrees(w[i], v[i])}
<1>4. \A i \in 1..Len(e) : 1..(i - 1) \subseteq Good => i \in Good
  <2> SUFFICES ASSUME NEW i \in 1..Len(e), \A j \in 1..(i - 1) : PathAgrees(w[j], v[j])
               PROVE  PathAgrees(w[i], v[i])
    BY <1>1
  <2>1. v[i] = Step("sql", e, says, v, i) /\ w[i] = Step("path", e, says_p, w, i)
    BY <1>2, <1>3 DEF Follows
  <2>2. CASE IsLeaf(e[i])
    BY <1>1, <2>1, <2>2 DEF Step, LeafNodes
  <2>3. CASE ~IsLeaf(e[i])
    <3>1. e[i].kind \in {"not", "and", "or"} /\ IsInnerNode(e[i], i)
      BY <1>1, <2>3 DEF IsLeaf, IsPredicate
    <3>2. \A j \in DOMAIN e[i].operands :
            /\ PathAgrees(w[e[i].operands[j]], v[e[i].operands[j]])
            /\ v[e[i].operands[j]] \in Values("sql") /\ w[e[i].operands[j]] \in Values("path")
      BY <1>1, <1>2, <1>3, <3>1 DEF IsInnerNode, Follows
    <3>3. v[i] = Composite(e[i], v) /\ w[i] = PartitionComposite(e[i], w)
      BY <2>1, <2>3 DEF Step, Combined
    <3>4. e[i].kind = "not" => 1 \in DOMAIN e[i].operands
      <4>1. DOMAIN e[i].operands = 1..Len(e[i].operands)
        BY <3>1 DEF IsInnerNode, IsList
      <4>2. e[i].kind = "not" => Len(e[i].operands) = 1
        BY <3>1 DEF IsInnerNode
      <4>3. 1 \in 1..1
        OBVIOUS
      <4> QED BY <4>1, <4>2, <4>3, Zenon
    <3>5. CASE e[i].kind = "not"
      BY <3>2, <3>3, <3>4, <3>5 DEF Composite, PartitionComposite, SqlNot, PathAgrees, Values
    <3>6. CASE e[i].kind = "and"
      BY <3>2, <3>3, <3>6 DEF Composite, PartitionComposite, SqlAnd, PathAnd, PathAgrees, Values
    <3>7. CASE e[i].kind = "or"
      BY <3>2, <3>3, <3>7 DEF Composite, PartitionComposite, SqlOr, PathOr, PathAgrees, Values
    <3> QED BY <3>1, <3>5, <3>6, <3>7
  <2> QED BY <2>2, <2>3
<1>5. Len(e) \in Good
  <2>1. 1..Len(e) \subseteq Good
    <3> HIDE DEF Good
    <3> QED BY <1>1, <1>4, UpTo
  <2> QED BY <1>1, <2>1
<1> QED BY <1>2, <1>3, <1>5

-----------------------------------------------------------------------------
(* Leaves have one of SQL's values.                                         *)
LEMMA CompareType == \A op, x, y : Compare(op, x, y) \in Values("sql")
BY DEF Compare, Truth, Values

(* A leaf is true, false, null or an error.                                 *)
LEMMA LeafType ==
  ASSUME NEW node, IsLeafNode(node), NEW x
  PROVE  Leaf(node, x) \in Values("sql")
<1>1. CASE node.kind = "compare"
  BY <1>1, CompareType DEF Leaf, CompareNode
<1>2. CASE node.kind = "in"
  <2>1. InList(x, node.values) \in Values("sql")
    <3>1. \A y : Compare("eq", x, y) \in Values("sql")
      BY CompareType
    <3> QED BY <3>1 DEF InList, Values
  <2> QED BY <1>2, <2>1 DEF Leaf, Negate, SqlNot, Values, IsLeafNode
<1>3. CASE node.kind = "between"
  BY <1>3 DEF Leaf, SqlAnd, Values
<1>4. CASE node.kind = "null-check"
  BY <1>4 DEF Leaf, Negate, SqlNot, Truth, Values, IsLeafNode
<1>5. CASE node.kind = "like"
  BY <1>5 DEF Leaf, Truth, Values
<1> QED BY <1>1, <1>2, <1>3, <1>4, <1>5 DEF IsLeafNode

(* A flipped operator is the comparison read from the other side.           *)
LEMMA FlipReads ==
  ASSUME NEW op \in Ops, NEW x \in Int, NEW y \in Int
  PROVE  Flip(op) \in Ops /\ (Holds(Flip(op), x, y) <=> Holds(op, y, x))
BY DEF Ops, Flip, Holds

(* The flipped operator compares the same two values.                       *)
LEMMA FlipCompares ==
  ASSUME NEW op \in Ops, NEW x, NEW y, IsScalar(x), IsScalar(y)
  PROVE  Compare(Flip(op), x, y) = Compare(op, y, x)
<1>1. x.at \in Int /\ x.instant \in Int /\ y.at \in Int /\ y.instant \in Int
  BY DEF IsScalar
<1> QED BY <1>1, FlipReads DEF Compare, Truth

(* A literal and a range: what holds of a value may hold of the range, and    *)
(* what must hold of the range holds of the value.                          *)
LEMMA RangeMay ==
  ASSUME NEW op \in Ops, NEW min \in Int, NEW max \in Int, NEW x \in Int, NEW y \in Int,
         min <= x, x <= max, Holds(op, x, y)
  PROVE  MayHold(op, min, max, y)
<1>1. CASE op = "eq"
  BY <1>1 DEF Holds, MayHold
<1>2. CASE op = "ne"
  BY <1>2 DEF Holds, MayHold
<1>3. CASE op = "lt"
  BY <1>3 DEF Holds, MayHold
<1>4. CASE op = "lte"
  BY <1>4 DEF Holds, MayHold
<1>5. CASE op = "gt"
  BY <1>5 DEF Holds, MayHold
<1>6. CASE op = "gte"
  BY <1>6 DEF Holds, MayHold
<1> QED BY <1>1, <1>2, <1>3, <1>4, <1>5, <1>6 DEF Ops

(* The same the other way: what must hold of the range.                     *)
LEMMA RangeMust ==
  ASSUME NEW op \in Ops, NEW min \in Int, NEW max \in Int, NEW x \in Int, NEW y \in Int,
         min <= x, x <= max, MustHold(op, min, max, y)
  PROVE  Holds(op, x, y)
<1>1. CASE op = "eq"
  BY <1>1 DEF Holds, MustHold
<1>2. CASE op = "ne"
  BY <1>2 DEF Holds, MustHold
<1>3. CASE op = "lt"
  BY <1>3 DEF Holds, MustHold
<1>4. CASE op = "lte"
  BY <1>4 DEF Holds, MustHold
<1>5. CASE op = "gt"
  BY <1>5 DEF Holds, MustHold
<1>6. CASE op = "gte"
  BY <1>6 DEF Holds, MustHold
<1> QED BY <1>1, <1>2, <1>3, <1>4, <1>5, <1>6 DEF Ops

(* A value with a place in the order of its column, between the known ends.  *)
IsCell(x) == IsScalar(x) /\ IsStatsValue(x) /\ (HasInstant(x) => x.type = "timestamp")
Encloses(known, x) ==
  /\ known.known /\ IsCell(known.min) /\ IsCell(known.max) /\ IsCell(x)
  /\ known.min.type = x.type /\ known.max.type = x.type
  /\ known.min.at <= x.at /\ x.at <= known.max.at

(* The evaluator's comparison of a value and a literal is that of places.     *)
LEMMA PlacesCompare ==
  ASSUME NEW op \in Ops, NEW x, NEW y, IsCell(x), IsScalar(y), ~IsNaN(y)
  PROVE  /\ Compare(op, x, y) = "true" => IsStatsValue(y) /\ SameType(x, y) /\ Holds(op, PlaceOf(x, y), PlaceOf(y, x))
         /\ IsStatsValue(y) /\ SameType(x, y) /\ Holds(op, PlaceOf(x, y), PlaceOf(y, x)) => Compare(op, x, y) = "true"
<1>1. x # Null /\ ~IsNaN(x)
  BY DEF IsCell, IsStatsValue
<1>2. CASE "timestamp" \in {x.type, y.type}
  BY <1>1, <1>2 DEF Compare, IsStatsValue, SameType, PlaceOf, Truth
<1>3. CASE "timestamp" \notin {x.type, y.type}
  <2>1. ~HasInstant(x)
    BY <1>3 DEF IsCell
  <2> QED BY <1>1, <1>3, <2>1 DEF Compare, IsStatsValue, SameType, PlaceOf, Truth
<1> QED BY <1>2, <1>3

(* A value that is enclosed has its place between those of the ends, whatever *)
(* the literal is that decides on which line they are.                      *)
LEMMA EnclosedPlaces ==
  ASSUME NEW known, NEW x, NEW y, Encloses(known, x), IsScalar(y)
  PROVE  /\ SameType(x, y) => SameType(known.min, y) /\ SameType(known.max, y)
         /\ SameType(known.min, y) => SameType(x, y)
         /\ PlaceOf(known.min, y) \in Int /\ PlaceOf(known.max, y) \in Int /\ PlaceOf(x, y) \in Int /\ PlaceOf(y, x) \in Int
         /\ PlaceOf(known.min, y) <= PlaceOf(x, y) /\ PlaceOf(x, y) <= PlaceOf(known.max, y)
         /\ PlaceOf(y, known.min) = PlaceOf(y, x) /\ PlaceOf(y, known.max) = PlaceOf(y, x)
<1>1. /\ IsScalar(known.min) /\ IsScalar(known.max) /\ IsScalar(x)
      /\ known.min.type = x.type /\ known.max.type = x.type
      /\ known.min.at <= x.at /\ x.at <= known.max.at
  BY DEF Encloses, IsCell
<1>2. /\ known.min.at \in Int /\ known.max.at \in Int /\ x.at \in Int /\ y.at \in Int
      /\ known.min.instant \in Int /\ known.max.instant \in Int /\ x.instant \in Int /\ y.instant \in Int
  BY <1>1 DEF IsScalar
<1>3. CASE x.type = "timestamp"
  <2>1. /\ HasInstant(known.min) /\ HasInstant(known.max) /\ HasInstant(x)
        /\ known.min.at = known.min.instant /\ known.max.at = known.max.instant /\ x.at = x.instant
    BY <1>1, <1>3 DEF IsScalar
  <2> QED BY <1>1, <1>2, <1>3, <2>1 DEF SameType, PlaceOf
<1>4. CASE x.type # "timestamp"
  <2>1. ~HasInstant(known.min) /\ ~HasInstant(known.max) /\ ~HasInstant(x)
    BY <1>1, <1>4 DEF Encloses, IsCell
  <2> QED BY <1>1, <1>2, <1>4, <2>1 DEF SameType, PlaceOf
<1> QED BY <1>3, <1>4

(* A comparison with the column on either side, read from the left.          *)
LEMMA StraightCompare ==
  ASSUME NEW node, IsLeafNode(node), node.kind = "compare", NEW x, IsScalar(x)
  PROVE  /\ Straight(node) \in Ops
         /\ Leaf(node, x) = Compare(Straight(node), x, node.value)
<1>1. node.op \in Ops /\ node.flipped \in BOOLEAN /\ IsScalar(node.value)
  BY DEF IsLeafNode, IsLiteral
<1>2. Leaf(node, x) = CompareNode(node, x)
  BY DEF Leaf
<1>3. CASE node.flipped
  <2>1. Flip(node.op) \in Ops
    BY <1>1 DEF Ops, Flip
  <2>2. Compare(Flip(node.op), x, node.value) = Compare(node.op, node.value, x)
    BY <1>1, FlipCompares
  <2> QED BY <1>2, <1>3, <2>1, <2>2 DEF CompareNode, Straight
<1>4. CASE ~node.flipped
  BY <1>1, <1>2, <1>4 DEF CompareNode, Straight
<1> QED BY <1>3, <1>4

(* BETWEEN is two comparisons, IN finds an equal value, and null matches no   *)
(* leaf but a null check.                                                   *)
LEMMA BetweenCompares ==
  ASSUME NEW node, node.kind = "between", NEW x
  PROVE  Leaf(node, x) = "true" <=>
           Compare("gte", x, node.low) = "true" /\ Compare("lte", x, node.high) = "true"
<1>1. Leaf(node, x) = SqlAnd({Compare("gte", x, node.low), Compare("lte", x, node.high)})
  BY DEF Leaf
<1>2. /\ Compare("gte", x, node.low) \in {"true", "false", "null", "error"}
      /\ Compare("lte", x, node.high) \in {"true", "false", "null", "error"}
  BY CompareType DEF Values
<1> QED BY <1>1, <1>2 DEF SqlAnd

(* A list that holds of a value has an equal value in it.                   *)
LEMMA InFinds ==
  ASSUME NEW node, IsLeafNode(node), node.kind = "in", ~node.negated, NEW x, Leaf(node, x) = "true"
  PROVE  \E i \in DOMAIN node.values : Compare("eq", x, node.values[i]) = "true"
<1> DEFINE first == {i \in DOMAIN node.values : Compare("eq", x, node.values[i]) \in {"true", "error"}}
<1>1. InList(x, node.values) = "true"
  BY DEF Leaf, Negate
<1>2. first # {} /\ Compare("eq", x, node.values[CHOOSE i \in first : \A j \in first : i <= j]) = "true"
  BY <1>1 DEF InList
<1>3. first \subseteq Nat
  BY DEF IsLeafNode, IsList
<1>4. \E i \in first : \A j \in first : i <= j
  <2> HIDE DEF first
  <2> QED BY <1>2, <1>3, LeastNatural
<1>5. (CHOOSE i \in first : \A j \in first : i <= j) \in first
  <2> HIDE DEF first
  <2> QED BY <1>4
<1> QED BY <1>2, <1>5

(* Nothing but a null check is true of null.                                *)
LEMMA NullIsNoMatch ==
  ASSUME NEW node, IsLeafNode(node), Leaf(node, Null) = "true"
  PROVE  node.kind = "null-check"
<1>1. \A op, y : Compare(op, Null, y) = "null" /\ Compare(op, y, Null) = "null"
  BY DEF Compare
<1>2. CASE node.kind = "compare"
  BY <1>1, <1>2 DEF Leaf, CompareNode
<1>3. CASE node.kind = "in"
  BY <1>1, <1>3 DEF Leaf, Negate, InList, SqlNot
<1>4. CASE node.kind = "between"
  BY <1>1, <1>4, BetweenCompares
<1>5. CASE node.kind = "like"
  BY <1>5 DEF Leaf
<1> QED BY <1>2, <1>3, <1>4, <1>5 DEF IsLeafNode

-----------------------------------------------------------------------------
(* Row groups: an IN list with a value of the column has a least value above   *)
(* the minimum of its class, and that one is not above the maximum.          *)
LEMMA InMaySound ==
  ASSUME NEW node, IsLeafNode(node), node.kind = "in", NEW known, NEW x, Encloses(known, x), Leaf(node, x) = "true"
  PROVE  InMayMatch(node, known)
<1>1. SUFFICES ASSUME ~node.negated, \A i \in DOMAIN node.values : IsStatsValue(node.values[i])
               PROVE  InMayMatch(node, known)
  BY DEF InMayMatch, IsLeafNode
<1>2. PICK k \in DOMAIN node.values : Compare("eq", x, node.values[k]) = "true"
  BY <1>1, InFinds
<1> DEFINE y == node.values[k]
           alike == {node.values[i] : i \in {j \in DOMAIN node.values : ListType(node.values[j]) = ListType(known.min)}}
           above == {z \in alike : PlaceOf(z, known.min) >= PlaceOf(known.min, z)}
           At(z) == IF HasInstant(known.min) THEN z.instant ELSE z.at
<1>3. /\ IsScalar(known.min) /\ IsScalar(known.max) /\ IsScalar(x) /\ IsScalar(y) /\ ~IsNaN(y) /\ y # Null
      /\ IsCell(known.min) /\ IsCell(known.max) /\ IsCell(x)
      /\ known.min.type = x.type /\ known.max.type = x.type
      /\ known.min.at <= x.at /\ x.at <= known.max.at
  BY <1>1 DEF Encloses, IsCell, IsLeafNode, IsLiteral, IsStatsValue
<1>4. /\ HasInstant(known.min) <=> x.type = "timestamp"
      /\ HasInstant(known.max) <=> x.type = "timestamp"
      /\ HasInstant(x) <=> x.type = "timestamp"
  BY <1>3 DEF IsCell, IsScalar
<1>5. "eq" \in Ops
  BY DEF Ops
<1>6. SameType(x, y) /\ Holds("eq", PlaceOf(x, y), PlaceOf(y, x))
  BY <1>2, <1>3, <1>5, PlacesCompare
<1>7. PlaceOf(x, y) = PlaceOf(y, x)
  <2>1. PlaceOf(x, y) \in Int /\ PlaceOf(y, x) \in Int
    BY <1>3 DEF PlaceOf, IsScalar
  <2> QED BY <1>6, <2>1 DEF Holds
<1>8. ListType(y) = ListType(known.min)
  <2>1. CASE x.type = "timestamp"
    BY <1>4, <1>6, <2>1 DEF SameType, ListType
  <2>2. CASE x.type # "timestamp"
    <3>1. y.type # "timestamp" /\ y.type = x.type
      BY <1>4, <1>6, <2>2 DEF SameType
    <3>2. y.at = x.at
      BY <1>4, <1>7, <2>2 DEF PlaceOf
    <3>3. ~HasInstant(y)
      BY <1>3, <1>4, <2>2, <3>1, <3>2 DEF IsScalar
    <3> QED BY <1>3, <1>4, <2>2, <3>1, <3>3 DEF ListType
  <2> QED BY <2>1, <2>2
<1>9. y \in alike
  BY <1>8
<1>10. \A z \in alike : At(z) \in Int /\ PlaceOf(z, known.min) = At(z) /\ PlaceOf(known.min, z) = At(known.min)
                        /\ PlaceOf(z, known.max) = At(z) /\ PlaceOf(known.max, z) = At(known.max)
                        /\ \A u \in alike : PlaceOf(z, u) = At(z)
  <2> SUFFICES ASSUME NEW z \in alike, NEW u \in alike
               PROVE  /\ At(z) \in Int /\ PlaceOf(z, known.min) = At(z) /\ PlaceOf(known.min, z) = At(known.min)
                      /\ PlaceOf(z, known.max) = At(z) /\ PlaceOf(known.max, z) = At(known.max)
                      /\ PlaceOf(z, u) = At(z)
    OBVIOUS
  <2>1. IsScalar(z) /\ IsScalar(u) /\ ListType(z) = ListType(known.min) /\ ListType(u) = ListType(known.min)
    BY DEF IsLeafNode, IsLiteral
  <2>2. z.at \in Int /\ z.instant \in Int
    BY <2>1 DEF IsScalar
  <2>3. CASE x.type = "timestamp"
    <3>1. HasInstant(z) /\ HasInstant(u)
      BY <1>4, <2>1, <2>3 DEF ListType, IsScalar
    <3> QED BY <1>4, <2>2, <2>3, <3>1 DEF PlaceOf
  <2>4. CASE x.type # "timestamp"
    <3>1. ~HasInstant(z) /\ ~HasInstant(u)
      BY <1>3, <1>4, <2>1, <2>4 DEF ListType
    <3> QED BY <1>4, <2>2, <2>4, <3>1 DEF PlaceOf
  <2> QED BY <2>3, <2>4
<1>11. At(known.min) \in Int /\ At(known.max) \in Int /\ At(known.min) <= At(y) /\ At(y) <= At(known.max)
  <2>1. /\ PlaceOf(known.min, y) \in Int /\ PlaceOf(known.max, y) \in Int
        /\ PlaceOf(known.min, y) <= PlaceOf(x, y) /\ PlaceOf(x, y) <= PlaceOf(known.max, y)
        /\ PlaceOf(y, known.min) = PlaceOf(y, x)
    BY <1>3, EnclosedPlaces
  <2> QED BY <1>7, <1>9, <1>10, <2>1
<1> HIDE DEF At, alike
<1>12. y \in above
  BY <1>9, <1>10, <1>11
<1> DEFINE gaps == {At(z) - At(known.min) : z \in above}
<1>13. PICK z \in above : \A u \in above : At(z) <= At(u)
  <2>1. gaps \subseteq Nat
    BY <1>10, <1>11
  <2>2. gaps # {}
    BY <1>12
  <2>3. PICK g \in gaps : \A h \in gaps : g <= h
    <3> HIDE DEF gaps
    <3> QED BY <2>1, <2>2, LeastNatural
  <2>4. PICK z \in above : g = At(z) - At(known.min)
    BY <2>3
  <2>5. \A u \in above : At(z) <= At(u)
    BY <1>10, <1>11, <2>3, <2>4
  <2> QED BY <2>5
<1>14. (\A u \in above : PlaceOf(z, u) <= PlaceOf(u, z)) /\ PlaceOf(z, known.max) <= PlaceOf(known.max, z)
  BY <1>10, <1>11, <1>12, <1>13
<1> USE DEF alike
<1> QED BY <1>13, <1>14 DEF InMayMatch

(* Row groups: no leaf that is true of a value is ruled out.                 *)
THEOREM GroupLeafMaySound ==
  ASSUME NEW node, IsLeafNode(node), NEW known, NEW x, Encloses(known, x), Leaf(node, x) = "true"
  PROVE  GroupLeafMay(node, known)
<1>1. CASE node.kind = "compare"
  <2> DEFINE op == Straight(node)
             y == node.value
  <2>1. IsCell(x) /\ IsScalar(x) /\ IsScalar(y) /\ ~IsNaN(y)
    BY <1>1 DEF Encloses, IsCell, IsLeafNode, IsLiteral
  <2>2. op \in Ops /\ Compare(op, x, y) = "true"
    BY <1>1, <2>1, StraightCompare
  <2>3. Holds(op, PlaceOf(x, y), PlaceOf(y, x))
    BY <2>1, <2>2, PlacesCompare
  <2>4. MayHold(op, PlaceOf(known.min, y), PlaceOf(known.max, y), PlaceOf(y, x))
    BY <2>1, <2>2, <2>3, EnclosedPlaces, RangeMay
  <2>5. PlaceOf(y, known.min) = PlaceOf(y, x)
    BY <2>1, EnclosedPlaces
  <2> QED BY <1>1, <2>4, <2>5 DEF GroupLeafMay
<1>2. CASE node.kind = "between"
  <2> DEFINE l == node.low
             h == node.high
  <2>1. IsCell(x) /\ IsScalar(l) /\ ~IsNaN(l) /\ IsScalar(h) /\ ~IsNaN(h) /\ {"gte", "lte"} \subseteq Ops
    BY <1>2 DEF Encloses, IsLeafNode, IsLiteral, Ops
  <2>2. Compare("gte", x, l) = "true" /\ Compare("lte", x, h) = "true"
    BY <1>2, BetweenCompares
  <2>3. Holds("gte", PlaceOf(x, l), PlaceOf(l, x)) /\ Holds("lte", PlaceOf(x, h), PlaceOf(h, x))
    BY <2>1, <2>2, PlacesCompare
  <2>4. /\ PlaceOf(x, l) \in Int /\ PlaceOf(l, x) \in Int /\ PlaceOf(known.max, l) \in Int
        /\ PlaceOf(x, l) <= PlaceOf(known.max, l) /\ PlaceOf(l, known.max) = PlaceOf(l, x)
    BY <2>1, EnclosedPlaces
  <2>5. /\ PlaceOf(x, h) \in Int /\ PlaceOf(h, x) \in Int /\ PlaceOf(known.min, h) \in Int
        /\ PlaceOf(known.min, h) <= PlaceOf(x, h) /\ PlaceOf(h, known.min) = PlaceOf(h, x)
    BY <2>1, EnclosedPlaces
  <2>6. PlaceOf(known.max, l) >= PlaceOf(l, known.max) /\ PlaceOf(known.min, h) <= PlaceOf(h, known.min)
    BY <2>3, <2>4, <2>5 DEF Holds
  <2> QED BY <1>2, <2>6 DEF GroupLeafMay
<1>3. CASE node.kind = "in"
  BY <1>3, InMaySound DEF GroupLeafMay
<1>4. CASE node.kind \in {"null-check", "like"}
  BY <1>4 DEF GroupLeafMay
<1> QED BY <1>1, <1>2, <1>3, <1>4 DEF IsLeafNode

(* Row groups: a leaf that must be true is true of every value.             *)
THEOREM GroupLeafMustSound ==
  ASSUME NEW node, IsLeafNode(node), NEW known, NEW x, Encloses(known, x), GroupLeafMust(node, known)
  PROVE  Leaf(node, x) = "true"
<1>1. CASE node.kind = "compare"
  <2> DEFINE op == Straight(node)
             y == node.value
  <2>1. IsCell(x) /\ IsScalar(x) /\ IsScalar(y) /\ ~IsNaN(y)
    BY <1>1 DEF Encloses, IsCell, IsLeafNode, IsLiteral
  <2>2. op \in Ops /\ Leaf(node, x) = Compare(op, x, y)
    BY <1>1, <2>1, StraightCompare
  <2>3. /\ IsStatsValue(y) /\ SameType(known.min, y)
        /\ MustHold(op, PlaceOf(known.min, y), PlaceOf(known.max, y), PlaceOf(y, known.min))
    BY <1>1 DEF GroupLeafMust, Usable
  <2>4. SameType(x, y) /\ PlaceOf(y, known.min) = PlaceOf(y, x)
    BY <2>1, <2>3, EnclosedPlaces
  <2>5. Holds(op, PlaceOf(x, y), PlaceOf(y, x))
    BY <2>1, <2>2, <2>3, <2>4, EnclosedPlaces, RangeMust
  <2> QED BY <2>1, <2>2, <2>3, <2>4, <2>5, PlacesCompare
<1>2. CASE node.kind = "between"
  <2> DEFINE l == node.low
             h == node.high
  <2>1. IsCell(x) /\ IsScalar(l) /\ ~IsNaN(l) /\ IsScalar(h) /\ ~IsNaN(h) /\ {"gte", "lte"} \subseteq Ops
    BY <1>2 DEF Encloses, IsLeafNode, IsLiteral, Ops
  <2>2. /\ IsStatsValue(l) /\ SameType(known.min, l) /\ IsStatsValue(h) /\ SameType(known.min, h)
        /\ PlaceOf(known.min, l) >= PlaceOf(l, known.min) /\ PlaceOf(known.max, h) <= PlaceOf(h, known.max)
    BY <1>2 DEF GroupLeafMust, Usable
  <2>3. /\ PlaceOf(x, l) \in Int /\ PlaceOf(l, x) \in Int /\ PlaceOf(known.min, l) \in Int
        /\ PlaceOf(known.min, l) <= PlaceOf(x, l) /\ PlaceOf(l, known.min) = PlaceOf(l, x) /\ SameType(x, l)
    BY <2>1, <2>2, EnclosedPlaces
  <2>4. /\ PlaceOf(x, h) \in Int /\ PlaceOf(h, x) \in Int /\ PlaceOf(known.max, h) \in Int
        /\ PlaceOf(x, h) <= PlaceOf(known.max, h) /\ PlaceOf(h, known.max) = PlaceOf(h, x) /\ SameType(x, h)
    BY <2>1, <2>2, EnclosedPlaces
  <2>5. Holds("gte", PlaceOf(x, l), PlaceOf(l, x)) /\ Holds("lte", PlaceOf(x, h), PlaceOf(h, x))
    BY <2>2, <2>3, <2>4 DEF Holds
  <2>6. Compare("gte", x, l) = "true" /\ Compare("lte", x, h) = "true"
    BY <2>1, <2>2, <2>3, <2>4, <2>5, PlacesCompare
  <2> QED BY <1>2, <2>6, BetweenCompares
<1>3. CASE node.kind \notin {"compare", "between"}
  BY <1>3 DEF GroupLeafMust
<1> QED BY <1>1, <1>2, <1>3

(* The sidecar index, for comparisons with the column on the left.          *)
THEOREM FileLeafMaySound ==
  ASSUME NEW node, IsLeafNode(node), ~Flips(node), NEW known, NEW x, Encloses(known, x), x.type # "timestamp",
         Leaf(node, x) = "true"
  PROVE  FileLeafMay(node, known)
<1>1. /\ IsScalar(known.min) /\ IsScalar(known.max) /\ IsScalar(x) /\ IsCell(x)
      /\ known.min.type = x.type /\ known.max.type = x.type
      /\ known.min.at <= x.at /\ x.at <= known.max.at
      /\ known.min.at \in Int /\ known.max.at \in Int /\ x.at \in Int
      /\ ~HasInstant(x)
  BY DEF Encloses, IsCell, IsScalar
<1>2. \A op \in Ops : \A y : /\ IsScalar(y) /\ ~IsNaN(y) /\ Compare(op, x, y) = "true"
                             => y.at \in Int /\ Holds(op, x.at, y.at)
  <2> SUFFICES ASSUME NEW op \in Ops, NEW y, IsScalar(y), ~IsNaN(y), Compare(op, x, y) = "true"
               PROVE  y.at \in Int /\ Holds(op, x.at, y.at)
    OBVIOUS
  <2>1. SameType(x, y) /\ Holds(op, PlaceOf(x, y), PlaceOf(y, x))
    BY <1>1, PlacesCompare
  <2> QED BY <1>1, <2>1 DEF PlaceOf, IsScalar
<1>3. CASE node.kind = "compare"
  <2>1. node.op \in Ops /\ IsScalar(node.value) /\ ~IsNaN(node.value) /\ Straight(node) = node.op
    BY <1>3 DEF IsLeafNode, IsLiteral, Flips, Straight
  <2>2. Compare(node.op, x, node.value) = "true"
    BY <1>1, <1>3, <2>1, StraightCompare
  <2>3. node.value.at \in Int /\ Holds(node.op, x.at, node.value.at)
    BY <1>2, <2>1, <2>2
  <2>4. MayHold(node.op, known.min.at, known.max.at, node.value.at)
    BY <1>1, <2>1, <2>3, RangeMay
  <2> QED BY <1>3, <2>4 DEF FileLeafMay
<1>4. CASE node.kind = "between"
  <2>1. /\ IsScalar(node.low) /\ ~IsNaN(node.low) /\ IsScalar(node.high) /\ ~IsNaN(node.high)
        /\ {"gte", "lte"} \subseteq Ops
    BY <1>4 DEF IsLeafNode, IsLiteral, Ops
  <2>2. Compare("gte", x, node.low) = "true" /\ Compare("lte", x, node.high) = "true"
    BY <1>4, BetweenCompares
  <2>3. /\ node.low.at \in Int /\ Holds("gte", x.at, node.low.at)
        /\ node.high.at \in Int /\ Holds("lte", x.at, node.high.at)
    BY <1>2, <2>1, <2>2
  <2>4. known.max.at >= node.low.at /\ known.min.at <= node.high.at
    BY <1>1, <2>3 DEF Holds
  <2> QED BY <1>4, <2>4 DEF FileLeafMay
<1>5. CASE node.kind = "in"
  <2>1. CASE node.negated
    BY <1>5, <2>1 DEF FileLeafMay
  <2>2. CASE ~node.negated
    <3>1. PICK k \in DOMAIN node.values : Compare("eq", x, node.values[k]) = "true"
      BY <1>5, <2>2, InFinds
    <3>2. IsScalar(node.values[k]) /\ ~IsNaN(node.values[k]) /\ "eq" \in Ops
      BY <1>5 DEF IsLeafNode, IsLiteral, Ops
    <3>3. node.values[k].at \in Int /\ Holds("eq", x.at, node.values[k].at)
      BY <1>2, <3>1, <3>2
    <3>4. MayHold("eq", known.min.at, known.max.at, node.values[k].at)
      BY <1>1, <3>2, <3>3, RangeMay
    <3> QED BY <1>5, <3>4 DEF FileLeafMay
  <2> QED BY <2>1, <2>2 DEF IsLeafNode
<1>6. CASE node.kind \in {"null-check", "like"}
  BY <1>6 DEF FileLeafMay
<1> QED BY <1>3, <1>4, <1>5, <1>6 DEF IsLeafNode

(* Instants that are whole units are in the same order in units.             *)
LEMMA WholeUnits ==
  ASSUME NEW a \in Int, NEW b \in Int, a % UnitLength = 0, b % UnitLength = 0
  PROVE  /\ InUnit(a) \in Int /\ InUnit(b) \in Int
         /\ (a < b <=> InUnit(a) < InUnit(b)) /\ (a = b <=> InUnit(a) = InUnit(b))
<1>1. UnitLength \in Nat /\ UnitLength > 0
  BY UnitAssumption
<1>2. InUnit(a) \in Int /\ a = UnitLength * InUnit(a)
  BY <1>1 DEF InUnit
<1>3. InUnit(b) \in Int /\ b = UnitLength * InUnit(b)
  BY <1>1 DEF InUnit
<1>4. \A m, n \in Int : m < n => UnitLength * m < UnitLength * n
  BY <1>1
<1> QED BY <1>2, <1>3, <1>4

(* Vectors: a mask says of a value what the evaluator says.                 *)
LEMMA MaskCompares ==
  ASSUME NEW op \in Ops, NEW flipped \in BOOLEAN, NEW x, NEW y, IsScalar(x), ~IsNaN(x), InUnits(x), IsLiteral(y)
  PROVE  MaskCompare(op, flipped, x, y) = IF flipped THEN Compare(op, y, x) ELSE Compare(op, x, y)
<1> DEFINE straight == IF flipped THEN Flip(op) ELSE op
<1>1. IsScalar(y) /\ ~IsNaN(y) /\ InUnits(y)
  BY DEF IsLiteral
<1>2. straight \in Ops
  BY DEF Ops, Flip
<1>3. Compare(straight, x, y) = IF flipped THEN Compare(op, y, x) ELSE Compare(op, x, y)
  BY <1>1, FlipCompares
<1> HIDE DEF straight
<1>4. MaskCompare(op, flipped, x, y) = Compare(straight, x, y)
  <2>1. CASE x = Null \/ y = Null
    BY <2>1 DEF MaskCompare, Compare
  <2>2. CASE x # Null /\ y # Null /\ x.type = "number" /\ y.type = "number"
    <3>1. MaskCompare(op, flipped, x, y) = Truth(Holds(straight, x.at, y.at))
      BY <1>1, <2>2 DEF MaskCompare, straight
    <3>2. Compare(straight, x, y) = Truth(Holds(straight, x.at, y.at))
      BY <1>1, <2>2 DEF Compare
    <3> QED BY <3>1, <3>2
  <2>3. CASE x # Null /\ y # Null /\ x.type = "timestamp" /\ HasInstant(y)
    <3>1. x.instant \in Int /\ y.instant \in Int /\ HasInstant(x)
      BY <1>1, <2>3 DEF IsScalar
    <3>2. x.instant % UnitLength = 0 /\ y.instant % UnitLength = 0
      BY <1>1, <2>3, <3>1 DEF InUnits
    <3>3. Holds(straight, InUnit(x.instant), InUnit(y.instant)) <=> Holds(straight, x.instant, y.instant)
      <4>1. /\ InUnit(x.instant) \in Int /\ InUnit(y.instant) \in Int
            /\ x.instant < y.instant <=> InUnit(x.instant) < InUnit(y.instant)
            /\ x.instant = y.instant <=> InUnit(x.instant) = InUnit(y.instant)
        BY <3>1, <3>2, WholeUnits
      <4> QED BY <3>1, <4>1 DEF Holds
    <3>4. MaskCompare(op, flipped, x, y) = Truth(Holds(straight, InUnit(x.instant), InUnit(y.instant)))
      BY <2>3 DEF MaskCompare, straight
    <3>5. Compare(straight, x, y) = Truth(Holds(straight, x.instant, y.instant))
      BY <2>3, <3>1 DEF Compare
    <3> QED BY <3>3, <3>4, <3>5 DEF Truth
  <2>4. CASE /\ x # Null /\ y # Null /\ ~(x.type = "number" /\ y.type = "number")
             /\ ~(x.type = "timestamp" /\ HasInstant(y))
    BY <2>4 DEF MaskCompare, straight
  <2> QED BY <2>1, <2>2, <2>3, <2>4
<1> QED BY <1>3, <1>4

(* The masks of compareMasks agree with the evaluator on every leaf.         *)
THEOREM MasksAgree ==
  ASSUME NEW node, IsLeafNode(node), NEW x, IsScalar(x), ~IsNaN(x), InUnits(x)
  PROVE  MaskLeaf(node, x) = Leaf(node, x)
<1>1. CASE node.kind = "compare"
  BY <1>1, MaskCompares DEF MaskLeaf, Leaf, CompareNode, IsLeafNode
<1>2. CASE node.kind = "between"
  <2>1. IsLiteral(node.low) /\ IsLiteral(node.high) /\ {"gte", "lte"} \subseteq Ops
    BY <1>2 DEF IsLeafNode, Ops
  <2>2. ASSUME NEW op \in Ops, NEW y, IsLiteral(y), NEW flipped \in BOOLEAN, ~flipped
        PROVE  MaskCompare(op, flipped, x, y) = Compare(op, x, y)
    BY <2>2, MaskCompares
  <2>3. MaskCompare("gte", FALSE, x, node.low) = Compare("gte", x, node.low)
    BY <2>1, <2>2
  <2>4. MaskCompare("lte", FALSE, x, node.high) = Compare("lte", x, node.high)
    BY <2>1, <2>2
  <2> QED BY <1>2, <2>3, <2>4 DEF MaskLeaf, Leaf
<1>3. CASE node.kind \notin {"compare", "between"}
  BY <1>3 DEF MaskLeaf
<1> QED BY <1>1, <1>2, <1>3

-----------------------------------------------------------------------------
(* The values of a column.                                                  *)
CellsOf(c) == {c[i] : i \in DOMAIN c}

(* They have a least and a greatest.                                        *)
LEMMA ExtremesExist ==
  ASSUME NEW c, IsColumn(c), NEW values, values \subseteq CellsOf(c), values # {}
  PROVE  /\ \E x \in values : \A y \in values : x.at <= y.at
         /\ \E x \in values : \A y \in values : x.at >= y.at
<1> DEFINE Of(n) == {x \in values : \E i \in 1..n : c[i] = x}
           Ends(s) == /\ \E x \in s : \A y \in s : x.at <= y.at
                      /\ \E x \in s : \A y \in s : x.at >= y.at
           Good == {n \in Nat : Of(n) # {} => Ends(Of(n))}
<1>1. Len(c) \in Nat /\ DOMAIN c = 1..Len(c)
  BY DEF IsColumn, IsList
<1>2. \A x \in values : x.at \in Int
  BY DEF IsColumn, IsScalar, CellsOf
<1>3. \A n \in 1..Len(c) : 1..(n - 1) \subseteq Good => n \in Good
  <2> SUFFICES ASSUME NEW n \in 1..Len(c), 1..(n - 1) \subseteq Good, Of(n) # {} PROVE Ends(Of(n))
    <3> HIDE DEF Of, Ends
    <3> QED BY <1>1
  <2>1. Of(n - 1) # {} => Ends(Of(n - 1))
    <3>1. CASE n = 1
      BY <3>1
    <3>2. CASE n # 1
      <4> HIDE DEF Of, Ends
      <4>1. n - 1 \in 1..(n - 1)
        BY <1>1, <3>2
      <4> QED BY <4>1
    <3> QED BY <3>1, <3>2
  <2>2. Of(n - 1) \subseteq Of(n) /\ Of(n) \subseteq Of(n - 1) \cup {c[n]} /\ Of(n) \subseteq values
    BY <1>1
  <2> HIDE DEF Of
  <2>3. CASE c[n] \notin Of(n) \/ c[n] \in Of(n - 1)
    <3>1. Of(n) = Of(n - 1)
      BY <2>2, <2>3
    <3> HIDE DEF Ends
    <3> QED BY <2>1, <3>1
  <2>4. CASE c[n] \in Of(n) /\ Of(n - 1) = {}
    <3>1. Of(n) = {c[n]}
      BY <2>2, <2>4
    <3> QED BY <1>2, <2>2, <3>1
  <2>5. CASE c[n] \in Of(n) /\ Of(n - 1) # {}
    <3>1. Of(n) = Of(n - 1) \cup {c[n]}
      BY <2>2, <2>5
    <3>2. PICK a \in Of(n - 1) : \A y \in Of(n - 1) : a.at <= y.at
      BY <2>1, <2>5
    <3>3. PICK b \in Of(n - 1) : \A y \in Of(n - 1) : b.at >= y.at
      BY <2>1, <2>5
    <3>4. a.at \in Int /\ b.at \in Int /\ c[n].at \in Int /\ \A y \in Of(n) : y.at \in Int
      BY <1>2, <2>2, <3>1
    <3>5. \E x \in Of(n) : \A y \in Of(n) : x.at <= y.at
      <4>1. CASE a.at <= c[n].at
        BY <3>1, <3>2, <4>1
      <4>2. CASE c[n].at <= a.at
        <5>1. \A y \in Of(n - 1) : c[n].at <= y.at
          BY <3>1, <3>2, <3>4, <4>2
        <5> QED BY <3>1, <3>4, <5>1
      <4> QED BY <3>4, <4>1, <4>2
    <3>6. \E x \in Of(n) : \A y \in Of(n) : x.at >= y.at
      <4>1. CASE b.at >= c[n].at
        BY <3>1, <3>3, <4>1
      <4>2. CASE c[n].at >= b.at
        <5>1. \A y \in Of(n - 1) : c[n].at >= y.at
          BY <3>1, <3>3, <3>4, <4>2
        <5> QED BY <3>1, <3>4, <5>1
      <4> QED BY <3>4, <4>1, <4>2
    <3> QED BY <3>5, <3>6
  <2> QED BY <2>3, <2>4, <2>5
<1>4. Len(c) \in Good
  <2>1. 1..Len(c) \subseteq Good
    <3> HIDE DEF Good
    <3> QED BY <1>1, <1>3, UpTo
  <2>2. Len(c) # 0
    BY <1>1 DEF CellsOf
  <2> HIDE DEF Good
  <2> QED BY <1>1, <2>1, <2>2
<1>5. Of(Len(c)) = values
  BY <1>1 DEF CellsOf
<1> HIDE DEF Of, Ends
<1>6. Ends(values)
  BY <1>4, <1>5
<1> QED BY <1>6 DEF Ends

(* The extremes are values, and enclose every one.                          *)
LEMMA ExtremesEnclose ==
  ASSUME NEW c, IsColumn(c), NEW values, values \subseteq CellsOf(c), NEW x \in values,
         \A y \in values : IsStatsValue(y)
  PROVE  /\ Encloses(Extremes(values), x)
         /\ Extremes(values).min \in values /\ Extremes(values).max \in values
<1> DEFINE a == CHOOSE z \in values : \A y \in values : z.at <= y.at
           b == CHOOSE z \in values : \A y \in values : z.at >= y.at
<1>1. a \in values /\ b \in values /\ \A y \in values : a.at <= y.at /\ b.at >= y.at
  <2>1. (\E z \in values : \A y \in values : z.at <= y.at) /\ \E z \in values : \A y \in values : z.at >= y.at
    BY ExtremesExist
  <2>2. a \in values /\ \A y \in values : a.at <= y.at
    BY <2>1
  <2>3. b \in values /\ \A y \in values : b.at >= y.at
    BY <2>1
  <2> HIDE DEF a, b
  <2> QED BY <2>2, <2>3
<1>2. Extremes(values).known = TRUE /\ Extremes(values).min = a /\ Extremes(values).max = b
  BY DEF Extremes
<1> HIDE DEF a, b
<1>3. IsCell(a) /\ IsCell(b) /\ IsCell(x)
  BY <1>1 DEF IsColumn, IsCell, CellsOf
<1>4. a.type = x.type /\ b.type = x.type
  BY <1>1 DEF IsColumn, IsStatsValue, CellsOf
<1>5. x.at \in Int /\ b.at \in Int
  BY <1>3 DEF IsCell, IsScalar
<1> QED BY <1>1, <1>2, <1>3, <1>4, <1>5 DEF Encloses

(* A row group's statistics enclose what is no null and no NaN.             *)
LEMMA StatisticsEnclose ==
  ASSUME NEW c, IsColumn(c), NEW i \in DOMAIN c, c[i] # Null, ~IsNaN(c[i])
  PROVE  Encloses(Statistics(c), c[i])
<1> DEFINE values == {x \in {c[j] : j \in DOMAIN c} : IsStatsValue(x)}
<1>1. c[i] \in values
  BY DEF IsStatsValue
<1>2. Encloses(Extremes(values), c[i])
  BY <1>1, ExtremesEnclose DEF CellsOf
<1>3. /\ Statistics(c).known = TRUE
      /\ Statistics(c).min = Extremes(values).min /\ Statistics(c).max = Extremes(values).max
  BY <1>1 DEF Statistics
<1> QED BY <1>2, <1>3 DEF Encloses

(* A file's index, where it has bounds, encloses every value.               *)
LEMMA IndexEncloses ==
  ASSUME NEW c, IsColumn(c), NEW i \in DOMAIN c, c[i] # Null, MinMaxIndex(c) # NoStats
  PROVE  Encloses(MinMaxIndex(c), c[i]) /\ c[i].type # "timestamp"
<1> DEFINE values == {c[j] : j \in DOMAIN c} \ {Null}
<1>1. (\A x \in values : IsIndexValue(x)) /\ MinMaxIndex(c) = Extremes(values)
  BY DEF MinMaxIndex
<1>2. c[i] \in values
  OBVIOUS
<1>3. \A x \in values : IsStatsValue(x)
  BY <1>1 DEF IsIndexValue
<1>4. Encloses(Extremes(values), c[i])
  BY <1>2, <1>3, ExtremesEnclose DEF CellsOf
<1> QED BY <1>1, <1>2, <1>4 DEF IsIndexValue

-----------------------------------------------------------------------------
(* What the evaluator says of the leaves; the readings of one row follow.    *)
Says(e, row) == [k \in LeafNodes(e) |-> Leaf(e[k], row[e[k].column])]

(* They have the values of SQL, and the evaluator reads them.               *)
LEMMA SaysType ==
  ASSUME NEW e, IsPredicate(e), NEW row
  PROVE  /\ \A k \in LeafNodes(e) : IsLeafNode(e[k]) /\ Says(e, row)[k] \in Values("sql")
         /\ Evaluate(e, row) = Reading("sql", e, Says(e, row))
BY LeafType DEF Says, Evaluate, LeafNodes, IsPredicate

(* The columns of a row.                                                    *)
LEMMA RowValues ==
  \A i : Row(i)["v"] = rows[i] /\ Row(i)["p"] = path
BY DEF Row

(* Statistics that enclose the value of a row, if it is not null, rule out no  *)
(* predicate that is true of the row.                                       *)
THEOREM StatisticsKeepMatches ==
  ASSUME NEW e, IsPredicate(e), NEW row, NEW known,
         known = NoStats \/ row["v"] = Null \/ Encloses(known, row["v"]),
         Evaluate(e, row) = "true"
  PROVE  RowGroupMayMatch(e, known)
<1> DEFINE may == [k \in LeafNodes(e) |-> GroupLeafMay(e[k], StatsOf(e[k].column, known))]
<1>1. \A k \in LeafNodes(e) : Says(e, row)[k] = "true" => may[k]
  <2> SUFFICES ASSUME NEW k \in LeafNodes(e), Leaf(e[k], row[e[k].column]) = "true"
               PROVE  GroupLeafMay(e[k], StatsOf(e[k].column, known))
    BY DEF Says
  <2>1. IsLeafNode(e[k])
    BY SaysType
  <2>2. CASE StatsOf(e[k].column, known) = NoStats
    BY <2>1, <2>2 DEF GroupLeafMay, Usable, InMayMatch, NoStats, IsLeafNode
  <2>3. CASE StatsOf(e[k].column, known) # NoStats
    <3>1. e[k].column = "v" /\ known # NoStats
      BY <2>3 DEF StatsOf
    <3>2. CASE row["v"] = Null
      <4>1. e[k].kind = "null-check"
        BY <2>1, <3>1, <3>2, NullIsNoMatch
      <4> QED BY <4>1 DEF GroupLeafMay
    <3>3. CASE row["v"] # Null
      <4>1. Encloses(known, row["v"])
        BY <3>1, <3>3
      <4>2. GroupLeafMay(e[k], known)
        BY <2>1, <3>1, <4>1, GroupLeafMaySound
      <4> QED BY <3>1, <4>2 DEF StatsOf
    <3> QED BY <3>2, <3>3
  <2> QED BY <2>2, <2>3
<1>2. \A k \in LeafNodes(e) : may[k] \in BOOLEAN
  BY DEF GroupLeafMay, InMayMatch
<1>3. RowGroupMayMatch(e, known) = Reading("may", e, may)
  BY DEF RowGroupMayMatch
<1> HIDE DEF may
<1> QED BY <1>1, <1>2, <1>3, SaysType, MayFollows

(* Row groups: no predicate that is true of a row is ruled out.             *)
THEOREM GroupPruning ==
  ASSUME NEW e, IsPredicate(e), IsColumn(rows), NEW i \in DOMAIN rows, IsOrdered(i),
         NEW known \in {NoStats, Statistics(rows)}, Evaluate(e, Row(i)) = "true"
  PROVE  RowGroupMayMatch(e, known)
<1>1. Row(i)["v"] = rows[i]
  BY RowValues
<1>2. known = NoStats \/ rows[i] = Null \/ Encloses(known, rows[i])
  BY StatisticsEnclose DEF IsOrdered
<1> QED BY <1>1, <1>2, StatisticsKeepMatches

(* Row groups: a predicate that the statistics imply is true of every row, or *)
(* cannot be evaluated on it.                                               *)
THEOREM GroupImplies ==
  ASSUME NEW e, IsPredicate(e), IsColumn(rows), NEW i \in DOMAIN rows, IsOrdered(i),
         NEW known \in {NoStats, Statistics(rows)}, RowGroupMustMatch(e, known)
  PROVE  Evaluate(e, Row(i)) \in {"true", "error"}
<1> DEFINE must == [k \in LeafNodes(e) |-> GroupLeafMust(e[k], StatsOf(e[k].column, known))]
<1>1. \A k \in LeafNodes(e) : must[k] => Says(e, Row(i))[k] \in {"true", "error"}
  <2> SUFFICES ASSUME NEW k \in LeafNodes(e), GroupLeafMust(e[k], StatsOf(e[k].column, known))
               PROVE  Leaf(e[k], Row(i)[e[k].column]) = "true"
    BY DEF Says
  <2>1. IsLeafNode(e[k])
    BY SaysType
  <2>2. WithoutNulls(StatsOf(e[k].column, known))
    BY DEF GroupLeafMust
  <2>3. e[k].column = "v" /\ known = Statistics(rows) /\ known # NoStats /\ Row(i)[e[k].column] = rows[i]
    BY <2>2, RowValues DEF StatsOf, WithoutNulls, NoStats
  <2>4. rows[i] # Null
    BY <2>2, <2>3 DEF WithoutNulls, StatsOf, Statistics
  <2>5. Encloses(known, rows[i])
    BY <2>3, <2>4, StatisticsEnclose DEF IsOrdered
  <2>6. GroupLeafMust(e[k], known)
    BY <2>3 DEF StatsOf
  <2> QED BY <2>1, <2>3, <2>5, <2>6, GroupLeafMustSound
<1>2. \A k \in LeafNodes(e) : must[k] \in BOOLEAN
  BY DEF GroupLeafMust
<1>3. RowGroupMustMatch(e, known) = Reading("must", e, must)
  BY DEF RowGroupMustMatch
<1> HIDE DEF must
<1> QED BY <1>1, <1>2, <1>3, SaysType, MustDecides

(* The sidecar index rules out no predicate that is true of a row.          *)
THEOREM FilePruning ==
  ASSUME NEW e, IsPredicate(e), IsIndexed(e), IsColumn(rows), NEW i \in DOMAIN rows, Evaluate(e, Row(i)) = "true"
  PROVE  FileMayMatch(e, MinMaxIndex(rows))
<1> DEFINE known == MinMaxIndex(rows)
           may == [k \in LeafNodes(e) |-> FileLeafMay(e[k], StatsOf(e[k].column, known))]
<1>1. \A k \in LeafNodes(e) : Says(e, Row(i))[k] = "true" => may[k]
  <2> SUFFICES ASSUME NEW k \in LeafNodes(e), Leaf(e[k], Row(i)[e[k].column]) = "true"
               PROVE  FileLeafMay(e[k], StatsOf(e[k].column, known))
    BY DEF Says
  <2> HIDE DEF known
  <2>1. IsLeafNode(e[k]) /\ ~Flips(e[k])
    BY SaysType DEF IsIndexed, LeafNodes
  <2>2. CASE StatsOf(e[k].column, known) = NoStats
    BY <2>1, <2>2 DEF FileLeafMay, Indexed, NoStats, IsLeafNode
  <2>3. CASE StatsOf(e[k].column, known) # NoStats
    <3>1. e[k].column = "v" /\ known # NoStats /\ Row(i)[e[k].column] = rows[i]
      BY <2>1, <2>3, RowValues DEF StatsOf
    <3>2. CASE rows[i] = Null
      <4>1. e[k].kind = "null-check"
        BY <2>1, <3>1, <3>2, NullIsNoMatch
      <4> QED BY <4>1 DEF FileLeafMay
    <3>3. CASE rows[i] # Null
      <4>1. Encloses(known, rows[i]) /\ rows[i].type # "timestamp"
        BY <3>1, <3>3, IndexEncloses DEF known
      <4>2. FileLeafMay(e[k], known)
        BY <2>1, <3>1, <4>1, FileLeafMaySound
      <4> QED BY <3>1, <4>2 DEF StatsOf
    <3> QED BY <3>2, <3>3
  <2> QED BY <2>2, <2>3
<1>2. \A k \in LeafNodes(e) : may[k] \in BOOLEAN
  BY DEF FileLeafMay
<1>3. FileMayMatch(e, known) = Reading("may", e, may)
  BY DEF FileMayMatch
<1> HIDE DEF may
<1> QED BY <1>1, <1>2, <1>3, SaysType, MayFollows

(* The hive path never says the opposite of the evaluator.                  *)
THEOREM PathPruning ==
  ASSUME NEW e, IsPredicate(e), NEW i
  PROVE  PathAgrees(PartitionEval(e, path), Evaluate(e, Row(i)))
<1> DEFINE told == [k \in LeafNodes(e) |-> PartitionLeaf(e[k], path)]
<1>1. \A k \in LeafNodes(e) : PathAgrees(told[k], Says(e, Row(i))[k]) /\ told[k] \in Values("path")
  <2> SUFFICES ASSUME NEW k \in LeafNodes(e)
               PROVE  /\ PathAgrees(PartitionLeaf(e[k], path), Leaf(e[k], Row(i)[e[k].column]))
                      /\ PartitionLeaf(e[k], path) \in Values("path")
    BY DEF Says
  <2>1. PartitionLeaf(e[k], path) \in Values("path")
    BY DEF PartitionLeaf, Truth, Values
  <2>2. CASE e[k].column = "p"
    BY <2>1, <2>2, RowValues DEF PathAgrees, PartitionLeaf, Truth
  <2>3. CASE e[k].column # "p"
    BY <2>1, <2>3 DEF PathAgrees, PartitionLeaf
  <2> QED BY <2>1, <2>2, <2>3
<1>2. PartitionEval(e, path) = Reading("path", e, told)
  BY DEF PartitionEval
<1> HIDE DEF told
<1> QED BY <1>1, <1>2, SaysType, PathFollows

(* A vector mask keeps the rows that the evaluator keeps.                   *)
THEOREM MaskIsEvaluate ==
  ASSUME NEW e, IsPredicate(e), HasMask(e), IsColumn(rows), NEW i \in DOMAIN rows, IsOrdered(i)
  PROVE  Mask(e, Row(i)) = Evaluate(e, Row(i))
<1> DEFINE masks == [k \in LeafNodes(e) |-> MaskLeaf(e[k], Row(i)[e[k].column])]
<1>1. \A k \in LeafNodes(e) : masks[k] = Leaf(e[k], Row(i)[e[k].column])
  <2> TAKE k \in LeafNodes(e)
  <2>1. IsLeafNode(e[k]) /\ e[k].column = "v" /\ Row(i)[e[k].column] = rows[i]
    BY SaysType, RowValues DEF HasMask, LeafNodes
  <2>2. IsScalar(rows[i]) /\ ~IsNaN(rows[i]) /\ InUnits(rows[i])
    BY DEF IsColumn, IsOrdered
  <2> QED BY <2>1, <2>2, MasksAgree
<1>2. masks = Says(e, Row(i))
  BY <1>1 DEF Says
<1>3. Mask(e, Row(i)) = Reading("sql", e, masks)
  BY DEF Mask
<1> HIDE DEF masks
<1> QED BY <1>2, <1>3, SaysType

-----------------------------------------------------------------------------
(* A plan and a scan keep the table they were given.                        *)
THEOREM TypeCorrect == Spec => []TypeOK
<1>1. Init => TypeOK
  BY DEF Init, TypeOK
<1>2. TypeOK /\ [Next]_vars => TypeOK'
  <2> SUFFICES ASSUME TypeOK, [Next]_vars PROVE TypeOK'
    OBVIOUS
  <2>1. CASE PlanHive
    BY <2>1 DEF TypeOK, PlanHive, Goto, given
  <2>2. CASE PlanUnindexed
    BY <2>2 DEF TypeOK, PlanUnindexed, Goto, given
  <2>3. CASE PlanSidecar
    BY <2>3 DEF TypeOK, PlanSidecar, Goto, given
  <2>4. CASE PlanGroup
    BY <2>4 DEF TypeOK, PlanGroup, Goto, given
  <2>5. CASE ScanRows
    BY <2>5 DEF TypeOK, ScanRows, Keep, given
  <2>6. CASE ScanVectors
    BY <2>6 DEF TypeOK, ScanVectors, Keep, given
  <2>7. CASE ScanWhole
    BY <2>7 DEF TypeOK, ScanWhole, given
  <2>8. CASE UNCHANGED vars
    BY <2>8 DEF TypeOK, vars
  <2> QED BY <2>1, <2>2, <2>3, <2>4, <2>5, <2>6, <2>7, <2>8 DEF Next
<1> QED BY <1>1, <1>2, PTL DEF Spec

(* What TypeOK says of the constants that the state was taken from.          *)
LEMMA GivenIsTyped ==
  ASSUME TypeOK
  PROVE  IsPredicate(expr) /\ IsColumn(rows) /\ (expr \in IndexedExprs => IsIndexed(expr))
BY PredicatesAssumption, DataAssumption DEF TypeOK

(* No step changes the rows.                                                *)
LEMMA RowIsGiven ==
  ASSUME UNCHANGED given
  PROVE  \A i : Row(i)' = Row(i) /\ IsOrdered(i)' = IsOrdered(i)
BY DEF given, Row, IsOrdered

(* Whichever reading skips a file, none of its rows matches.                *)
THEOREM PruningHolds == Spec => []PruningIsSound
<1>1. Init => PruningIsSound
  BY DEF Init, PruningIsSound
<1>2. TypeOK /\ PruningIsSound /\ [Next]_vars => PruningIsSound'
  <2> SUFFICES ASSUME TypeOK, PruningIsSound, [Next]_vars, stage' = "skipped",
                      NEW i \in (DOMAIN rows)', IsOrdered(i)'
               PROVE  ~Matches(expr, Row(i))'
    BY DEF PruningIsSound
  <2>1. IsPredicate(expr) /\ IsColumn(rows) /\ (expr \in IndexedExprs => IsIndexed(expr))
    BY GivenIsTyped
  <2>2. UNCHANGED given
    BY DEF Next, PlanHive, PlanUnindexed, PlanSidecar, PlanGroup, ScanRows, ScanVectors, ScanWhole, Goto, Keep, vars, given
  <2>3. Row(i)' = Row(i) /\ IsOrdered(i) /\ expr' = expr /\ rows' = rows /\ i \in DOMAIN rows
    BY <2>2, RowIsGiven DEF given
  <2> SUFFICES Evaluate(expr, Row(i)) # "true"
    BY <2>3 DEF Matches, Evaluate
  <2>4. CASE PlanHive
    <3>1. PartitionEval(expr, path) = "false"
      BY <2>4 DEF PlanHive, Goto
    <3> QED BY <2>1, <3>1, PathPruning DEF PathAgrees
  <2>5. CASE PlanUnindexed
    BY <2>5 DEF PlanUnindexed, Goto
  <2>6. CASE PlanSidecar
    <3>1. expr \in IndexedExprs /\ ~FileMayMatch(expr, MinMaxIndex(rows))
      BY <2>6 DEF PlanSidecar, Goto
    <3> QED BY <2>1, <2>3, <3>1, FilePruning
  <2>7. CASE PlanGroup
    <3>1. stats' \in {NoStats, Statistics(rows)} /\ ~RowGroupMayMatch(expr, stats')
      BY <2>7 DEF PlanGroup, Goto
    <3> QED BY <2>1, <2>3, <3>1, GroupPruning
  <2>8. CASE ScanRows \/ ScanVectors \/ ScanWhole
    BY <2>8 DEF ScanRows, ScanVectors, ScanWhole, Keep
  <2>9. CASE UNCHANGED vars
    BY <2>3, <2>9 DEF PruningIsSound, Matches, vars
  <2> QED BY <2>4, <2>5, <2>6, <2>7, <2>8, <2>9 DEF Next
<1> QED BY <1>1, <1>2, TypeCorrect, PTL DEF Spec

(* Whichever reader scans a file, it keeps the rows that match and no other.  *)
THEOREM ScanHolds == Spec => []ScanIsExact
<1>1. Init => ScanIsExact
  BY DEF Init, ScanIsExact
<1>2. TypeOK /\ ScanIsExact /\ [Next]_vars => ScanIsExact'
  <2> SUFFICES ASSUME TypeOK, ScanIsExact, [Next]_vars, stage' = "done",
                      NEW i \in (DOMAIN rows)', IsOrdered(i)', (Evaluate(expr, Row(i)))' # "error"
               PROVE  (i \in kept)' <=> Matches(expr, Row(i))'
    BY DEF ScanIsExact
  <2>1. IsPredicate(expr) /\ IsColumn(rows)
    BY GivenIsTyped
  <2>2. UNCHANGED given
    BY DEF Next, PlanHive, PlanUnindexed, PlanSidecar, PlanGroup, ScanRows, ScanVectors, ScanWhole, Goto, Keep, vars, given
  <2>3. /\ Row(i)' = Row(i) /\ IsOrdered(i) /\ expr' = expr /\ rows' = rows /\ i \in DOMAIN rows
        /\ (Evaluate(expr, Row(i)))' = Evaluate(expr, Row(i))
    BY <2>2, RowIsGiven DEF given, Evaluate
  <2>4. Matches(expr, Row(i))' <=> Evaluate(expr, Row(i)) = "true"
    BY <2>3 DEF Matches
  <2>5. CASE ScanRows
    BY <2>3, <2>4, <2>5 DEF ScanRows, Keep
  <2>6. CASE ScanVectors
    <3>1. HasMask(expr) /\ kept' = {k \in DOMAIN rows : Mask(expr, Row(k)) = "true"}
      BY <2>6 DEF ScanVectors, Keep
    <3>2. Mask(expr, Row(i)) = Evaluate(expr, Row(i))
      BY <2>1, <2>3, <3>1, MaskIsEvaluate
    <3> QED BY <2>3, <2>4, <3>1, <3>2
  <2>7. CASE ScanWhole
    <3>1. kept' = DOMAIN rows /\ RowGroupMustMatch(expr, stats) /\ stats \in {NoStats, Statistics(rows)}
      BY <2>7 DEF ScanWhole, TypeOK
    <3>2. Evaluate(expr, Row(i)) \in {"true", "error"}
      BY <2>1, <2>3, <3>1, GroupImplies
    <3> QED BY <2>3, <2>4, <3>1, <3>2
  <2>8. CASE PlanHive \/ PlanUnindexed \/ PlanSidecar \/ PlanGroup
    BY <2>8 DEF PlanHive, PlanUnindexed, PlanSidecar, PlanGroup, Goto
  <2>9. CASE UNCHANGED vars
    BY <2>3, <2>4, <2>9 DEF ScanIsExact, Matches, vars
  <2> QED BY <2>5, <2>6, <2>7, <2>8, <2>9 DEF Next
<1> QED BY <1>1, <1>2, TypeCorrect, PTL DEF Spec

-----------------------------------------------------------------------------
(* Work units                                                                *)

Span == [from : Nat, to : Nat]
InSpan(r, g) == r.from <= g /\ g < r.to

(* Ranges that are not empty, one after the other.                          *)
Tidy(ranges) ==
  /\ ranges \in Seq(Span)
  /\ \A i \in DOMAIN ranges : ranges[i].from < ranges[i].to
  /\ \A i, j \in DOMAIN ranges : i < j => ranges[i].to <= ranges[j].from
EndsBy(ranges, g) == \A i \in DOMAIN ranges : ranges[i].to <= g

(* The groups of ranges are the numbers in them.                            *)
LEMMA GroupsInSpans ==
  ASSUME NEW ranges \in Seq(Span)
  PROVE  /\ GroupsOf(ranges) \subseteq Nat
         /\ \A g \in Nat : g \in GroupsOf(ranges) <=> \E i \in DOMAIN ranges : InSpan(ranges[i], g)
<1>1. GroupsOf(ranges) = UNION {ranges[i].from..(ranges[i].to - 1) : i \in DOMAIN ranges}
  BY DEF GroupsOf, Range
<1>2. \A i \in DOMAIN ranges : /\ ranges[i].from..(ranges[i].to - 1) \subseteq Nat
                               /\ \A g \in Nat : g \in ranges[i].from..(ranges[i].to - 1) <=> InSpan(ranges[i], g)
  <2> TAKE i \in DOMAIN ranges
  <2>1. ranges[i] \in Span
    OBVIOUS
  <2>2. ranges[i].from \in Nat /\ ranges[i].to \in Nat
    BY <2>1 DEF Span
  <2> QED BY <2>2 DEF InSpan
<1> QED BY <1>1, <1>2

(* A group is in one range of those that are in order.                      *)
LEMMA OneSpan ==
  ASSUME NEW ranges, Tidy(ranges), NEW g \in GroupsOf(ranges)
  PROVE  g \in Nat /\ \E i \in DOMAIN ranges : InSpan(ranges[i], g) /\ \A j \in DOMAIN ranges : InSpan(ranges[j], g) => j = i
<1>1. ranges \in Seq(Span)
  BY DEF Tidy
<1>2. g \in Nat /\ \E i \in DOMAIN ranges : InSpan(ranges[i], g)
  BY <1>1, GroupsInSpans
<1>3. PICK i \in DOMAIN ranges : InSpan(ranges[i], g)
  BY <1>2
<1>4. ASSUME NEW j \in DOMAIN ranges, InSpan(ranges[j], g) PROVE j = i
  <2>1. i \in Nat /\ j \in Nat
    BY <1>1
  <2>2. ranges[i] \in Span /\ ranges[j] \in Span
    BY <1>1
  <2>3. (i < j => ranges[i].to <= ranges[j].from) /\ (j < i => ranges[j].to <= ranges[i].from)
    BY DEF Tidy
  <2> QED BY <1>2, <1>3, <1>4, <2>1, <2>2, <2>3 DEF InSpan, Span
<1> QED BY <1>2, <1>3, <1>4

(* Ranges end by a group that all of their groups are before.               *)
LEMMA EndsBefore ==
  ASSUME NEW ranges, Tidy(ranges), NEW g \in Nat, \A h \in GroupsOf(ranges) : h < g
  PROVE  EndsBy(ranges, g)
<1>1. ranges \in Seq(Span)
  BY DEF Tidy
<1>2. ASSUME NEW i \in DOMAIN ranges PROVE ranges[i].to <= g
  <2>1. ranges[i] \in Span /\ ranges[i].from < ranges[i].to
    BY <1>1 DEF Tidy
  <2>2. ranges[i].from \in Nat /\ ranges[i].to \in Nat
    BY <2>1 DEF Span
  <2> DEFINE h == ranges[i].to - 1
  <2>3. h \in Nat /\ InSpan(ranges[i], h)
    BY <2>1, <2>2 DEF InSpan
  <2>4. h \in GroupsOf(ranges)
    BY <1>1, <2>3, GroupsInSpans
  <2>5. h < g
    BY <2>4
  <2> QED BY <2>2, <2>5
<1> QED BY <1>2 DEF EndsBy

(* A group after all others is added at the end.                            *)
LEMMA AppendTidy ==
  ASSUME NEW ranges, Tidy(ranges), NEW g \in Nat, EndsBy(ranges, g)
  PROVE  /\ Tidy(AppendGroup(ranges, g))
         /\ GroupsOf(AppendGroup(ranges, g)) = GroupsOf(ranges) \cup {g}
<1> DEFINE more == AppendGroup(ranges, g)
           n == Len(ranges)
<1>1. ranges \in Seq(Span) /\ n \in Nat /\ DOMAIN ranges = 1..n
  BY DEF Tidy
<1>1a. \A i \in 1..n : /\ ranges[i] \in Span /\ ranges[i].from \in Nat /\ ranges[i].to \in Nat
                       /\ ranges[i].from < ranges[i].to /\ ranges[i].to <= g
  <2>1. \A i \in 1..n : ranges[i] \in Span
    BY <1>1
  <2>2. \A i \in 1..n : ranges[i].from < ranges[i].to /\ ranges[i].to <= g
    BY <1>1 DEF Tidy, EndsBy
  <2> QED BY <2>1, <2>2 DEF Span
<1>1b. \A i, j \in 1..n : i < j => ranges[i].to <= ranges[j].from
  BY <1>1 DEF Tidy
<1>2. CASE n > 0 /\ ranges[n].to = g
  <2>1. more = [ranges EXCEPT ![n].to = g + 1]
    <3>1. ranges # <<>> /\ Last(ranges).to = g
      BY <1>1, <1>2 DEF Last
    <3> QED BY <3>1 DEF AppendGroup
  <2>2. /\ more \in Seq(Span) /\ Len(more) = n /\ DOMAIN more = 1..n
        /\ \A i \in 1..n : i # n => more[i] = ranges[i]
        /\ more[n] = [from |-> ranges[n].from, to |-> g + 1]
    <3>1. [ranges[n] EXCEPT !.to = g + 1] = [from |-> ranges[n].from, to |-> g + 1]
      BY <1>1, <1>1a, <1>2 DEF Span
    <3>2. [from |-> ranges[n].from, to |-> g + 1] \in Span
      BY <1>1a, <1>2 DEF Span
    <3>3. more = [ranges EXCEPT ![n] = [from |-> ranges[n].from, to |-> g + 1]]
      BY <2>1, <3>1
    <3> HIDE DEF more
    <3> QED BY <1>1, <1>2, <3>2, <3>3
  <2> HIDE DEF more, n
  <2>2a. more[n].from = ranges[n].from /\ more[n].to = g + 1 /\ n \in 1..n
    BY <1>1, <1>2, <2>2
  <2>3. \A i \in 1..n : more[i].from = ranges[i].from /\ (i # n => more[i].to = ranges[i].to)
    BY <2>2, <2>2a
  <2>4. Tidy(more)
    <3>1. \A i \in 1..n : more[i].from < more[i].to
      BY <1>1a, <1>2, <2>2a, <2>3
    <3>2. \A i, j \in 1..n : i < j => more[i].to <= more[j].from
      <4> SUFFICES ASSUME NEW i \in 1..n, NEW j \in 1..n, i < j PROVE more[i].to <= more[j].from
        OBVIOUS
      <4>1. i # n
        BY <1>1
      <4> QED BY <1>1b, <2>3, <4>1
    <3> QED BY <2>2, <3>1, <3>2 DEF Tidy
  <2>6. \A h \in Nat : (\E i \in 1..n : InSpan(more[i], h)) <=> (\E i \in 1..n : InSpan(ranges[i], h)) \/ h = g
    <3> TAKE h \in Nat
    <3>1. \A i \in 1..n : i # n => (InSpan(more[i], h) <=> InSpan(ranges[i], h))
      BY <2>2
    <3>2. InSpan(more[n], h) <=> InSpan(ranges[n], h) \/ h = g
      BY <1>1a, <1>2, <2>2a DEF InSpan
    <3> QED BY <2>2a, <3>1, <3>2
  <2>7. GroupsOf(more) = GroupsOf(ranges) \cup {g}
    <3>1. GroupsOf(more) \subseteq Nat /\ GroupsOf(ranges) \subseteq Nat
      BY <1>1, <2>2, GroupsInSpans
    <3>2. \A h \in Nat : h \in GroupsOf(more) <=> \E i \in 1..n : InSpan(more[i], h)
      BY <2>2, GroupsInSpans
    <3>3. \A h \in Nat : h \in GroupsOf(ranges) <=> \E i \in 1..n : InSpan(ranges[i], h)
      BY <1>1, GroupsInSpans
    <3>4. \A h \in Nat : h \in GroupsOf(more) <=> h \in GroupsOf(ranges) \/ h = g
      BY <2>6, <3>2, <3>3
    <3> QED BY <3>1, <3>4
  <2> QED BY <2>4, <2>7 DEF more
<1>3. CASE ~(n > 0 /\ ranges[n].to = g)
  <2> DEFINE s == [from |-> g, to |-> g + 1]
  <2>1. more = Append(ranges, s)
    <3>1. ranges # <<>> => n > 0
      BY <1>1
    <3>2. ~(ranges # <<>> /\ Last(ranges).to = g)
      BY <1>3, <3>1 DEF Last
    <3> QED BY <3>2 DEF AppendGroup
  <2>2. s \in Span
    BY DEF Span
  <2>3. s.from = g /\ s.to = g + 1
    OBVIOUS
  <2> HIDE DEF s, more
  <2>4. /\ more \in Seq(Span) /\ Len(more) = n + 1 /\ DOMAIN more = 1..(n + 1)
        /\ \A i \in 1..n : more[i] = ranges[i]
        /\ more[n + 1] = s
    BY <1>1, <2>1, <2>2
  <2> HIDE DEF n
  <2>4a. \A i \in 1..(n + 1) : i \in 1..n \/ i = n + 1
    BY <1>1
  <2>5. Tidy(more)
    <3>1. \A i \in 1..(n + 1) : more[i].from < more[i].to
      BY <1>1a, <2>3, <2>4, <2>4a
    <3>2. \A i, j \in 1..(n + 1) : i < j => more[i].to <= more[j].from
      <4> SUFFICES ASSUME NEW i \in 1..(n + 1), NEW j \in 1..(n + 1), i < j PROVE more[i].to <= more[j].from
        OBVIOUS
      <4>1. i \in 1..n
        BY <1>1
      <4>2. CASE j \in 1..n
        BY <1>1b, <2>4, <4>1, <4>2
      <4>3. CASE j = n + 1
        BY <1>1a, <2>3, <2>4, <4>1, <4>3
      <4> QED BY <2>4a, <4>2, <4>3
    <3> QED BY <2>4, <3>1, <3>2 DEF Tidy
  <2>7. \A h \in Nat : (\E i \in 1..(n + 1) : InSpan(more[i], h)) <=> (\E i \in 1..n : InSpan(ranges[i], h)) \/ h = g
    <3> TAKE h \in Nat
    <3>1. InSpan(s, h) <=> h = g
      BY <2>3 DEF InSpan
    <3>2. n + 1 \in 1..(n + 1) /\ 1..n \subseteq 1..(n + 1)
      BY <1>1
    <3> QED BY <2>4, <2>4a, <3>1, <3>2
  <2>8. GroupsOf(more) = GroupsOf(ranges) \cup {g}
    <3>1. GroupsOf(more) \subseteq Nat /\ GroupsOf(ranges) \subseteq Nat
      BY <1>1, <2>4, GroupsInSpans
    <3>2. \A h \in Nat : h \in GroupsOf(more) <=> \E i \in 1..(n + 1) : InSpan(more[i], h)
      BY <2>4, GroupsInSpans
    <3>3. \A h \in Nat : h \in GroupsOf(ranges) <=> \E i \in 1..n : InSpan(ranges[i], h)
      BY <1>1, GroupsInSpans
    <3>4. \A h \in Nat : h \in GroupsOf(more) <=> h \in GroupsOf(ranges) \/ h = g
      BY <2>7, <3>2, <3>3
    <3> QED BY <3>1, <3>4
  <2> QED BY <2>5, <2>8 DEF more
<1> QED BY <1>2, <1>3

(* The numbers of a set, in order.                                          *)
LEMMA InOrderOfSet ==
  ASSUME NEW S, IsFiniteSet(S), S \subseteq Nat
  PROVE  /\ InOrder(S) \in Seq(Nat) /\ Len(InOrder(S)) = Cardinality(S) /\ Cardinality(S) \in Nat
         /\ \A i \in 1..Cardinality(S) : InOrder(S)[i] \in S
         /\ \A g \in S : \E i \in 1..Cardinality(S) : InOrder(S)[i] = g
         /\ \A i, j \in 1..Cardinality(S) : i < j => InOrder(S)[i] < InOrder(S)[j]
<1> DEFINE n == Cardinality(S)
<1>1. n \in Nat /\ S \subseteq Int
  BY FS_CardinalityType
<1>2. InOrder(S) = [i \in 1..n |-> Ranked(S, i)]
  BY DEF InOrder, Ranked
<1>3. /\ \A i \in 1..n : Ranked(S, i) \in S
      /\ \A g \in S : \E i \in 1..n : Ranked(S, i) = g
      /\ \A i, j \in 1..n : i < j => Ranked(S, i) < Ranked(S, j)
  BY <1>1, RankedOfSet
<1> HIDE DEF n
<1>4. \A i \in 1..n : InOrder(S)[i] = Ranked(S, i)
  BY <1>2
<1>5. \A i \in 1..n : Ranked(S, i) \in Nat
  BY <1>3
<1>6. InOrder(S) \in Seq(Nat) /\ Len(InOrder(S)) = n
  BY <1>1, <1>2, <1>5
<1> QED BY <1>1, <1>3, <1>4, <1>6 DEF n

Adding == [p \in Seq(Span) \X Nat |-> AppendGroup(p[1], p[2])]

(* Adding a group to ranges is a step of a fold.                           *)
LEMMA AddingSteps == IsStep(Adding, Seq(Span), Nat)
<1>1. ASSUME NEW ranges \in Seq(Span), NEW g \in Nat PROVE AppendGroup(ranges, g) \in Seq(Span)
  <2>1. [from |-> g, to |-> g + 1] \in Span
    BY DEF Span
  <2>2. CASE ranges # <<>> /\ Last(ranges).to = g
    <3> DEFINE n == Len(ranges)
               s == [ranges[n] EXCEPT !.to = g + 1]
    <3>1. n \in DOMAIN ranges /\ ranges[n] \in Span
      BY <2>2
    <3>2. s \in Span
      BY <3>1 DEF Span
    <3>3. AppendGroup(ranges, g) = [ranges EXCEPT ![n] = s]
      BY <2>2 DEF AppendGroup
    <3> HIDE DEF s, n
    <3> QED BY <3>1, <3>2, <3>3
  <2>3. CASE ~(ranges # <<>> /\ Last(ranges).to = g)
    <3>1. AppendGroup(ranges, g) = Append(ranges, [from |-> g, to |-> g + 1])
      BY <2>3 DEF AppendGroup
    <3> QED BY <2>1, <3>1
  <2> QED BY <2>2, <2>3
<1> DEFINE Y == Seq(Span)
           E(p) == AppendGroup(p[1], p[2])
<1>2. Adding = [p \in Y \X Nat |-> E(p)]
  BY DEF Adding
<1>3. \A p \in Y \X Nat : E(p) \in Y
  BY <1>1
<1> HIDE DEF Y, E
<1>4. Adding \in [Y \X Nat -> Y]
  BY <1>2, <1>3
<1> QED BY <1>4 DEF IsStep, Y

(* The ranges of a set are a fold of that step.                             *)
LEMMA RangesAreFold ==
  ASSUME NEW q \in Seq(Nat)
  PROVE  FoldLeft(AppendGroup, <<>>, q) = Result(Seq(Span), Adding, <<>>, q)
<1> DEFINE D == DOMAIN q
           A == Seq(Span)
           E(a, x) == AppendGroup(a, x)
           Taken(h, s) == IF s = {} THEN <<>> ELSE E(h[s \ {Max(s)}], q[Max(s)])
           iter == CHOOSE h : h = [s \in SUBSET D |-> Taken(h, s)]
<1>1. FoldLeft(AppendGroup, <<>>, q) = iter[D]
  BY DEF FoldLeft, MapThenFoldSet
<1>2. <<>> \in A /\ IsStep(Adding, A, Nat)
  BY AddingSteps
<1>3. \A a \in A : \A x \in Nat : Adding[<<a, x>>] = E(a, x)
  BY DEF Adding
<1> HIDE DEF E, A
<1>4. \A s \in SUBSET D : s # {} => q[Max(s)] \in Nat
  BY <1>2, SomeFold
<1>5. PICK h : Recurs(h, A, Adding, <<>>, q)
  BY <1>2, SomeFold
<1>6. iter = [s \in SUBSET D |-> Taken(iter, s)]
  <2>1. \A s \in SUBSET D : h[s] = Taken(h, s)
    <3> TAKE s \in SUBSET D
    <3>1. s # {} => h[s \ {Max(s)}] \in A /\ q[Max(s)] \in Nat
      BY <1>4, <1>5 DEF Recurs
    <3> QED BY <1>3, <1>5, <3>1 DEF Recurs
  <2> HIDE DEF Taken
  <2>2. h = [s \in SUBSET D |-> Taken(h, s)]
    BY <1>5, <2>1 DEF Recurs
  <2> HIDE DEF D
  <2> QED BY <2>2
<1> HIDE DEF iter
<1>7. FoldsBy(iter, A, Adding, <<>>, q)
  <2>1. \A s \in SUBSET D : iter[s] = Taken(iter, s)
    <3> HIDE DEF Taken
    <3> QED BY <1>6
  <2>2. iter[{}] = <<>>
    BY <2>1
  <2>3. \A s \in SUBSET D : s # {} /\ iter[s \ {Max(s)}] \in A =>
          iter[s] = Adding[<<iter[s \ {Max(s)}], q[Max(s)]>>]
    BY <1>3, <1>4, <2>1
  <2> QED BY <2>2, <2>3 DEF FoldsBy
<1>8. iter[D] = Result(A, Adding, <<>>, q)
  BY <1>2, <1>7, FoldIsResult
<1> QED BY <1>1, <1>8 DEF A

(* The ranges of a set of groups are in order, and hold the set.             *)
LEMMA RangesOfSet ==
  ASSUME NEW S, IsFiniteSet(S), S \subseteq Nat
  PROVE  Tidy(RangesOf(S)) /\ GroupsOf(RangesOf(S)) = S
<1> DEFINE q == InOrder(S)
           n == Cardinality(S)
           Upto(k) == {q[i] : i \in 1..k}
           Fine(k, a) == Tidy(a) /\ GroupsOf(a) = Upto(k)
           G == {p \in Nat \X Seq(Span) : Fine(p[1], p[2])}
<1>1. /\ q \in Seq(Nat) /\ Len(q) = n /\ n \in Nat
      /\ \A i \in 1..n : q[i] \in S
      /\ \A g \in S : \E i \in 1..n : q[i] = g
      /\ \A i, j \in 1..n : i < j => q[i] < q[j]
  BY InOrderOfSet
<1> HIDE DEF q, n
<1>2. RangesOf(S) = Result(Seq(Span), Adding, <<>>, q)
  BY <1>1, RangesAreFold DEF RangesOf, q
<1>3. <<>> \in Seq(Span)
  OBVIOUS
<1>4. Fine(0, <<>>)
  <2>1. GroupsOf(<<>>) = {} /\ Upto(0) = {}
    BY DEF GroupsOf, Range
  <2>2. Tidy(<<>>)
    BY DEF Tidy
  <2> QED BY <2>1, <2>2
<1>5. ASSUME NEW k \in 0..(n - 1), NEW a \in Seq(Span), Fine(k, a)
      PROVE  Fine(k + 1, Adding[<<a, q[k + 1]>>])
  <2>1. k \in Nat /\ k + 1 \in 1..n /\ \A i \in 1..k : i \in 1..n /\ i < k + 1
    BY <1>1
  <2>2. q[k + 1] \in Nat
    BY <1>1, <2>1
  <2>3. EndsBy(a, q[k + 1])
    <3>1. \A h \in Upto(k) : h < q[k + 1]
      BY <1>1, <2>1
    <3> QED BY <1>5, <2>2, <3>1, EndsBefore
  <2> DEFINE b == AppendGroup(a, q[k + 1])
  <2>4. Adding[<<a, q[k + 1]>>] = b
    BY <2>2 DEF Adding
  <2>5. Tidy(b) /\ GroupsOf(b) = GroupsOf(a) \cup {q[k + 1]}
    BY <1>5, <2>2, <2>3, AppendTidy
  <2> HIDE DEF b
  <2>6. Upto(k + 1) = Upto(k) \cup {q[k + 1]}
    <3>1. 1..(k + 1) = 1..k \cup {k + 1}
      BY <2>1
    <3> QED BY <3>1
  <2> QED BY <1>5, <2>4, <2>5, <2>6
<1> HIDE DEF Fine
<1>6. <<0, <<>>>> \in G
  BY <1>3, <1>4
<1>7. \A k \in 0..(n - 1) : \A a \in Seq(Span) : <<k, a>> \in G => <<k + 1, Adding[<<a, q[k + 1]>>]>> \in G
  <2> SUFFICES ASSUME NEW k \in 0..(n - 1), NEW a \in Seq(Span), Fine(k, a)
               PROVE  k + 1 \in Nat /\ Adding[<<a, q[k + 1]>>] \in Seq(Span) /\ Fine(k + 1, Adding[<<a, q[k + 1]>>])
    OBVIOUS
  <2>1. k + 1 \in Nat /\ Fine(k + 1, Adding[<<a, q[k + 1]>>])
    BY <1>5
  <2> QED BY <2>1 DEF Fine, Tidy
<1>8. <<n, Result(Seq(Span), Adding, <<>>, q)>> \in G
  <2> HIDE DEF G
  <2> QED BY <1>1, <1>3, <1>6, <1>7, AddingSteps, ResultKeeps
<1>9. Fine(n, RangesOf(S))
  BY <1>2, <1>8
<1>10. Upto(n) = S
  BY <1>1
<1> QED BY <1>9, <1>10 DEF Fine

-----------------------------------------------------------------------------
(* The calls, as they are assumed to be.                                     *)
Item == [k : STRING, v : [type : STRING, at : Int, instant : Int]]

(* A call is typed, and so is its table.                                     *)
LEMMA CallFits ==
  ASSUME call \in Calls
  PROVE  /\ IsTable(call.table) /\ IsFilter(call.expr)
         /\ call.table \in Seq(Seq(Seq(Item)))
         /\ call.maxGroups \in Nat /\ call.maxRows \in Nat /\ call.preserve \in BOOLEAN
BY CallsAssumption DEF IsTable, Item

(* A file has its row groups, and they have their rows.                     *)
LEMMA FileFits ==
  ASSUME call \in Calls, NEW f \in DOMAIN call.table
  PROVE  /\ f \in Nat /\ call.table[f] \in Seq(Seq(Item))
         /\ DOMAIN call.table[f] = 1..Len(call.table[f]) /\ Len(call.table[f]) \in Nat
         /\ IsFiniteSet(DOMAIN call.table[f]) /\ DOMAIN call.table[f] \subseteq Nat
         /\ \A g \in DOMAIN call.table[f] :
              /\ Group(f, g) \in Seq(Item)
              /\ RowsOf(f)[g] = Len(Group(f, g)) /\ RowsOf(f)[g] \in Nat
         /\ PlannedGroups(f) \subseteq DOMAIN call.table[f]
<1>1. call.table \in Seq(Seq(Seq(Item)))
  BY CallFits
<1> DEFINE t == call.table
           X == Seq(Item)
<1>2. t \in Seq(Seq(X))
  BY <1>1
<1> HIDE DEF t
<1>3. f \in Nat /\ t[f] \in Seq(X)
  BY <1>2 DEF t
<1>4. DOMAIN t[f] = 1..Len(t[f]) /\ Len(t[f]) \in Nat /\ \A g \in DOMAIN t[f] : t[f][g] \in X
  BY <1>3
<1>5. IsFiniteSet(1..Len(t[f]))
  BY <1>4, FS_Interval
<1>6. \A g \in DOMAIN t[f] : Group(f, g) = t[f][g] /\ RowsOf(f)[g] = Len(Group(f, g))
  BY DEF Group, RowsOf, t
<1>7. \A x \in X : Len(x) \in Nat
  OBVIOUS
<1>8. PlannedGroups(f) \subseteq DOMAIN t[f]
  BY DEF PlannedGroups, t
<1>9. 1..Len(t[f]) \subseteq Nat
  OBVIOUS
<1>10. \A g \in DOMAIN t[f] : Group(f, g) \in X /\ RowsOf(f)[g] = Len(Group(f, g)) /\ RowsOf(f)[g] \in Nat
  BY <1>4, <1>6, <1>7
<1> HIDE DEF X
<1> QED BY <1>3, <1>4, <1>5, <1>8, <1>9, <1>10 DEF t, X

Unit == [file : Nat, ranges : Seq(Span)]
SplitState == [units : Seq(Unit), current : [ranges : Seq(Span), groups : Nat, rows : Nat]]

Within(f, groups) ==
  ~Exceeds(Cardinality(groups), call.maxGroups) /\ ~Exceeds(SumOver(RowsOf(f), groups), call.maxRows)

(* Units that are each within the limits and in order, and share no group.    *)
UnitsFit(f, units_f) ==
  /\ \A u \in DOMAIN units_f :
       units_f[u].file = f /\ Tidy(units_f[u].ranges) /\ Within(f, GroupsOf(units_f[u].ranges))
  /\ \A u, v \in DOMAIN units_f : u # v => GroupsOf(units_f[u].ranges) \cap GroupsOf(units_f[v].ranges) = {}
IsIn(units_f, g) == \E u \in DOMAIN units_f : g \in GroupsOf(units_f[u].ranges)

(* A split of some of the groups of a file: those of its units, and those of   *)
(* the unit that is still open, whose groups and rows are counted.           *)
SplitFits(f, split, taken) ==
  /\ UnitsFit(f, split.units)
  /\ Tidy(split.current.ranges) /\ Within(f, GroupsOf(split.current.ranges))
  /\ split.current.groups = Cardinality(GroupsOf(split.current.ranges))
  /\ split.current.rows = SumOver(RowsOf(f), GroupsOf(split.current.ranges))
  /\ \A g : g \in taken <=> IsIn(split.units, g) \/ g \in GroupsOf(split.current.ranges)
  /\ \A g \in GroupsOf(split.current.ranges) : ~IsIn(split.units, g)

(* Nothing is in no ranges, and is within every limit.                       *)
LEMMA NothingIsWithin ==
  ASSUME call \in Calls
  PROVE  /\ Tidy(<<>>) /\ GroupsOf(<<>>) = {}
         /\ Cardinality({}) = 0 /\ \A f : SumOver(RowsOf(f), {}) = 0
         /\ \A f : Within(f, {})
<1>1. Tidy(<<>>) /\ GroupsOf(<<>>) = {}
  BY DEF Tidy, GroupsOf, Range
<1>2. Cardinality({}) = 0 /\ \A f : SumOver(RowsOf(f), {}) = 0
  BY FS_EmptySet, SumEmpty
<1>3. ~Exceeds(0, call.maxGroups) /\ ~Exceeds(0, call.maxRows)
  BY CallFits DEF Exceeds
<1> QED BY <1>1, <1>2, <1>3 DEF Within

(* To close the open unit is to keep its groups.                             *)
LEMMA FlushedFits ==
  ASSUME call \in Calls, NEW f \in Nat, NEW split \in SplitState, NEW taken, SplitFits(f, split, taken)
  PROVE  /\ Flushed(f, split) \in SplitState /\ SplitFits(f, Flushed(f, split), taken)
         /\ Flushed(f, split).current = NoGroups
<1>1. CASE split.current = NoGroups
  BY <1>1 DEF Flushed
<1>2. CASE split.current # NoGroups
  <2> DEFINE unit == [file |-> f, ranges |-> split.current.ranges]
             us == split.units
             more == Append(us, unit)
             n == Len(us)
  <2>1. Flushed(f, split) = [units |-> more, current |-> NoGroups]
    BY <1>2 DEF Flushed
  <2>2. us \in Seq(Unit) /\ unit \in Unit
    BY DEF SplitState, Unit
  <2>2a. unit.file = f /\ unit.ranges = split.current.ranges
    OBVIOUS
  <2> HIDE DEF unit, us
  <2>3. /\ more \in Seq(Unit) /\ DOMAIN more = 1..(n + 1) /\ DOMAIN us = 1..n /\ n \in Nat
        /\ more[n + 1] = unit /\ \A u \in 1..n : more[u] = us[u]
        /\ \A u \in 1..(n + 1) : u \in 1..n \/ u = n + 1
        /\ 1..n \subseteq 1..(n + 1) /\ n + 1 \in 1..(n + 1) /\ n + 1 \notin 1..n
    BY <2>2
  <2> HIDE DEF more, n
  <2>4. UnitsFit(f, us) /\ Tidy(unit.ranges) /\ Within(f, GroupsOf(unit.ranges))
    BY <2>2a DEF SplitFits, us
  <2>4a. \A g : g \in taken <=> IsIn(us, g) \/ g \in GroupsOf(unit.ranges)
    BY <2>2a DEF SplitFits, us
  <2>4b. \A g \in GroupsOf(unit.ranges) : ~IsIn(us, g)
    BY <2>2a DEF SplitFits, us
  <2>5. \A u \in 1..(n + 1) : more[u].file = f /\ Tidy(more[u].ranges) /\ Within(f, GroupsOf(more[u].ranges))
    BY <2>2a, <2>3, <2>4 DEF UnitsFit
  <2>6. \A u, v \in 1..(n + 1) : u # v => GroupsOf(more[u].ranges) \cap GroupsOf(more[v].ranges) = {}
    <3>1. \A u \in 1..n : GroupsOf(us[u].ranges) \cap GroupsOf(unit.ranges) = {}
      BY <2>3, <2>4b DEF IsIn
    <3>2. \A u, v \in 1..n : u # v => GroupsOf(us[u].ranges) \cap GroupsOf(us[v].ranges) = {}
      BY <2>3, <2>4 DEF UnitsFit
    <3> SUFFICES ASSUME NEW u \in 1..(n + 1), NEW v \in 1..(n + 1), u # v
                 PROVE  GroupsOf(more[u].ranges) \cap GroupsOf(more[v].ranges) = {}
      OBVIOUS
    <3>3. CASE u \in 1..n /\ v \in 1..n
      BY <2>3, <3>2, <3>3
    <3>4. CASE u \in 1..n /\ v = n + 1
      BY <2>3, <3>1, <3>4
    <3>5. CASE u = n + 1 /\ v \in 1..n
      BY <2>3, <3>1, <3>5
    <3> QED BY <2>3, <3>3, <3>4, <3>5
  <2>7. UnitsFit(f, more)
    BY <2>3, <2>5, <2>6 DEF UnitsFit
  <2>8. \A g : IsIn(more, g) <=> IsIn(us, g) \/ g \in GroupsOf(unit.ranges)
    BY <2>3 DEF IsIn
  <2>9. /\ NoGroups.ranges = <<>> /\ NoGroups.groups = 0 /\ NoGroups.rows = 0
        /\ NoGroups \in [ranges : Seq(Span), groups : Nat, rows : Nat]
    BY DEF NoGroups
  <2> DEFINE after == [units |-> more, current |-> NoGroups]
  <2>10. after.units = more /\ after.current = NoGroups /\ after \in SplitState
    BY <2>3, <2>9 DEF SplitState
  <2> HIDE DEF after
  <2>11. SplitFits(f, after, taken)
    BY <2>4a, <2>7, <2>8, <2>9, <2>10, NothingIsWithin DEF SplitFits
  <2> QED BY <2>1, <2>10, <2>11 DEF after
<1> QED BY <1>1, <1>2

(* A unit that is not full, or empty, has place for a group within the limits. *)
LEMMA RoomForGroup ==
  ASSUME call \in Calls, NEW current, current.groups \in Nat, current.rows \in Nat,
         NEW more \in Nat, ~Exceeds(more, call.maxRows),
         current = NoGroups \/ ~IsFull(current, more)
  PROVE  ~Exceeds(current.groups + 1, call.maxGroups) /\ ~Exceeds(current.rows + more, call.maxRows)
<1>1. call.maxGroups \in Nat /\ call.maxRows \in Nat
  BY CallFits
<1>2. current = NoGroups => current.groups = 0 /\ current.rows = 0
  BY DEF NoGroups
<1>3. ~Exceeds(1, call.maxGroups)
  BY <1>1 DEF Exceeds, NoLimit
<1>4. (current.groups = 0 => ~Exceeds(current.groups + 1, call.maxGroups)) /\ (current.rows = 0 => current.rows + more = more)
  BY <1>3
<1>5. CASE current.groups > 0
  <2>1. ~Exceeds(current.groups + 1, call.maxGroups)
    BY <1>2, <1>5 DEF IsFull
  <2>2. current.rows > 0 => ~Exceeds(current.rows + more, call.maxRows)
    BY <1>2, <1>5 DEF IsFull
  <2> QED BY <1>4, <2>1, <2>2
<1>6. CASE ~(current.groups > 0)
  <2>1. current.rows > 0 => ~Exceeds(current.rows + more, call.maxRows)
    BY <1>2 DEF IsFull
  <2> QED BY <1>4, <1>6, <2>1
<1> QED BY <1>5, <1>6

(* A group more is in one unit more, or in the open one.                     *)
LEMMA TakeFits ==
  ASSUME call \in Calls, NEW f \in DOMAIN call.table, NEW split \in SplitState,
         NEW taken, taken \subseteq DOMAIN call.table[f], SplitFits(f, split, taken),
         NEW g \in DOMAIN call.table[f], ~Exceeds(RowsOf(f)[g], call.maxRows),
         \A h \in taken : h < g
  PROVE  TakeGroup(f, split, g) \in SplitState /\ SplitFits(f, TakeGroup(f, split, g), taken \cup {g})
<1> DEFINE more == RowsOf(f)[g]
           s == IF IsFull(split.current, more) THEN Flushed(f, split) ELSE split
           w == RowsOf(f)
           before == s.current
           G == GroupsOf(before.ranges)
           after == [ranges |-> AppendGroup(before.ranges, g), groups |-> before.groups + 1, rows |-> before.rows + more]
<1>1. /\ f \in Nat /\ g \in Nat /\ more \in Nat /\ IsFiniteSet(DOMAIN call.table[f])
      /\ DOMAIN call.table[f] \subseteq Nat /\ \A h \in DOMAIN call.table[f] : w[h] \in Nat
  BY FileFits
<1>2. s \in SplitState /\ SplitFits(f, s, taken) /\ (before = NoGroups \/ ~IsFull(before, more))
  BY <1>1, FlushedFits
<1>3. TakeGroup(f, split, g) = [s EXCEPT !.current = after]
  BY DEF TakeGroup
<1> HIDE DEF s, more
<1>4. s.units \in Seq(Unit) /\ before.ranges \in Seq(Span) /\ before.groups \in Nat /\ before.rows \in Nat
  BY <1>2 DEF SplitState
<1>5. /\ after.ranges = AppendGroup(before.ranges, g) /\ after.groups = before.groups + 1 /\ after.rows = before.rows + more
      /\ after \in [ranges : Seq(Span), groups : Nat, rows : Nat]
  <2>1. AppendGroup(before.ranges, g) = Adding[<<before.ranges, g>>]
    BY <1>1, <1>4 DEF Adding
  <2>2. AppendGroup(before.ranges, g) \in Seq(Span)
    BY <1>1, <1>4, <2>1, AddingSteps DEF IsStep
  <2>3. before.groups + 1 \in Nat /\ before.rows + more \in Nat
    BY <1>1, <1>4
  <2> HIDE DEF before
  <2> QED BY <2>2, <2>3
<1> HIDE DEF after
<1> DEFINE t == [s EXCEPT !.current = after]
<1>6. t \in SplitState /\ t.units = s.units /\ t.current = after
  BY <1>2, <1>5 DEF SplitState
<1> HIDE DEF t
<1>7. /\ UnitsFit(f, s.units) /\ Tidy(before.ranges)
      /\ before.groups = Cardinality(G) /\ before.rows = SumOver(w, G)
  BY <1>2 DEF SplitFits
<1>8. \A h : h \in taken <=> IsIn(s.units, h) \/ h \in G
  BY <1>2 DEF SplitFits
<1>9. \A h \in G : ~IsIn(s.units, h)
  BY <1>2 DEF SplitFits
<1> HIDE DEF before, G
<1>10. G \subseteq taken /\ g \notin taken /\ g \notin G
  BY <1>1, <1>8
<1>11. IsFiniteSet(G) /\ IsFiniteSet(G \cup {g}) /\ (G \cup {g}) \ {g} = G
  BY <1>1, <1>10, FS_Subset, FS_AddElement
<1>12. Tidy(after.ranges) /\ GroupsOf(after.ranges) = G \cup {g}
  <2>1. \A h \in G : h < g
    BY <1>10
  <2>2. EndsBy(before.ranges, g)
    BY <1>1, <1>7, <2>1, EndsBefore DEF G
  <2> QED BY <1>1, <1>5, <1>7, <2>2, AppendTidy DEF G
<1>13. Cardinality(G \cup {g}) = before.groups + 1
  BY <1>7, <1>10, <1>11, FS_AddElement
<1>14. SumOver(w, G \cup {g}) = before.rows + more
  <2>1. Naturals(w, G \cup {g})
    BY <1>1, <1>10 DEF Naturals
  <2>2. SumOver(w, G \cup {g}) = w[g] + SumOver(w, G)
    BY <1>11, <2>1, SumSplits
  <2> QED BY <1>1, <1>4, <1>7, <2>2 DEF more
<1>15. Within(f, G \cup {g})
  <2>1. ~Exceeds(before.groups + 1, call.maxGroups) /\ ~Exceeds(before.rows + more, call.maxRows)
    BY <1>1, <1>2, <1>4, RoomForGroup DEF before, more
  <2> QED BY <1>13, <1>14, <2>1 DEF Within
<1>16. SplitFits(f, t, taken \cup {g})
  <2>1. \A h : h \in taken \cup {g} <=> IsIn(s.units, h) \/ h \in G \cup {g}
    BY <1>8
  <2>2. \A h \in G \cup {g} : ~IsIn(s.units, h)
    BY <1>8, <1>9, <1>10
  <2> QED BY <1>5, <1>6, <1>7, <1>12, <1>13, <1>14, <1>15, <2>1, <2>2 DEF SplitFits
<1> QED BY <1>3, <1>6, <1>16 DEF t

Taking(f) == [p \in SplitState \X (DOMAIN call.table[f]) |-> TakeGroup(f, p[1], p[2])]

(* Taking a group into a split is a step of a fold.                        *)
LEMMA TakingSteps ==
  ASSUME call \in Calls, NEW f \in DOMAIN call.table
  PROVE  IsStep(Taking(f), SplitState, DOMAIN call.table[f]) /\ NoUnits \in SplitState
<1>1. ASSUME NEW split \in SplitState, NEW g \in DOMAIN call.table[f] PROVE TakeGroup(f, split, g) \in SplitState
  <2> DEFINE more == RowsOf(f)[g]
             s == IF IsFull(split.current, more) THEN Flushed(f, split) ELSE split
             before == s.current
             after == [ranges |-> AppendGroup(before.ranges, g), groups |-> before.groups + 1, rows |-> before.rows + more]
  <2>1. f \in Nat /\ g \in Nat /\ more \in Nat
    BY FileFits
  <2>2. Flushed(f, split) \in SplitState
    <3> DEFINE unit == [file |-> f, ranges |-> split.current.ranges]
    <3>1. unit \in Unit /\ split.units \in Seq(Unit)
      BY <2>1 DEF Unit, SplitState
    <3>2. NoGroups \in [ranges : Seq(Span), groups : Nat, rows : Nat]
      BY DEF NoGroups
    <3>3. Append(split.units, unit) \in Seq(Unit)
      BY <3>1
    <3> QED BY <3>2, <3>3 DEF Flushed, SplitState
  <2>3. s \in SplitState
    BY <2>2
  <2>4. TakeGroup(f, split, g) = [s EXCEPT !.current = after]
    BY DEF TakeGroup
  <2> HIDE DEF s, more
  <2>5. before.ranges \in Seq(Span) /\ before.groups \in Nat /\ before.rows \in Nat
    BY <2>3 DEF SplitState
  <2>6. AppendGroup(before.ranges, g) \in Seq(Span)
    <3>1. AppendGroup(before.ranges, g) = Adding[<<before.ranges, g>>]
      BY <2>1, <2>5 DEF Adding
    <3> QED BY <2>1, <2>5, <3>1, AddingSteps DEF IsStep
  <2>7. before.groups + 1 \in Nat /\ before.rows + more \in Nat
    BY <2>1, <2>5
  <2> HIDE DEF before
  <2>8. after \in [ranges : Seq(Span), groups : Nat, rows : Nat]
    BY <2>6, <2>7
  <2> HIDE DEF after
  <2> QED BY <2>3, <2>4, <2>8 DEF SplitState
<1>2. NoUnits \in SplitState
  BY DEF NoUnits, NoGroups, SplitState
<1> DEFINE Y == SplitState
           X == DOMAIN call.table[f]
           E(p) == TakeGroup(f, p[1], p[2])
<1>3. Taking(f) = [p \in Y \X X |-> E(p)]
  BY DEF Taking
<1>4. \A p \in Y \X X : E(p) \in Y
  BY <1>1
<1> HIDE DEF Y, E, X
<1>5. Taking(f) \in [Y \X X -> Y]
  BY <1>3, <1>4
<1> QED BY <1>2, <1>5 DEF IsStep, Y, X

(* The split of a file is a fold of that step.                              *)
LEMMA SplitIsFold ==
  ASSUME call \in Calls, NEW f \in DOMAIN call.table, NEW q \in Seq(DOMAIN call.table[f])
  PROVE  FoldLeft(LAMBDA split, g : TakeGroup(f, split, g), NoUnits, q) = Result(SplitState, Taking(f), NoUnits, q)
<1> DEFINE D == DOMAIN q
           A == SplitState
           X == DOMAIN call.table[f]
           step == Taking(f)
           E(a, x) == TakeGroup(f, a, x)
           Taken(h, s) == IF s = {} THEN NoUnits ELSE E(h[s \ {Max(s)}], q[Max(s)])
           iter == CHOOSE h : h = [s \in SUBSET D |-> Taken(h, s)]
<1>1. FoldLeft(LAMBDA split, g : TakeGroup(f, split, g), NoUnits, q) = iter[D]
  BY DEF FoldLeft, MapThenFoldSet
<1>2. NoUnits \in A /\ IsStep(step, A, X)
  BY TakingSteps
<1>3. \A a \in A : \A x \in X : step[<<a, x>>] = E(a, x)
  BY DEF Taking
<1> HIDE DEF E, A, X, step
<1>3a. q \in Seq(X)
  BY DEF X
<1>4. \A s \in SUBSET D : s # {} => q[Max(s)] \in X
  BY <1>2, <1>3a, SomeFold
<1>5. PICK h : Recurs(h, A, step, NoUnits, q)
  BY <1>2, <1>3a, SomeFold
<1>6. iter = [s \in SUBSET D |-> Taken(iter, s)]
  <2>1. \A s \in SUBSET D : h[s] = Taken(h, s)
    <3> TAKE s \in SUBSET D
    <3>1. s # {} => h[s \ {Max(s)}] \in A /\ q[Max(s)] \in X
      BY <1>4, <1>5 DEF Recurs
    <3> QED BY <1>3, <1>5, <3>1 DEF Recurs
  <2> HIDE DEF Taken
  <2>2. h = [s \in SUBSET D |-> Taken(h, s)]
    BY <1>5, <2>1 DEF Recurs
  <2> HIDE DEF D
  <2> QED BY <2>2
<1> HIDE DEF iter
<1>7. FoldsBy(iter, A, step, NoUnits, q)
  <2>1. \A s \in SUBSET D : iter[s] = Taken(iter, s)
    <3> HIDE DEF Taken
    <3> QED BY <1>6
  <2>2. iter[{}] = NoUnits
    BY <2>1
  <2>3. \A s \in SUBSET D : s # {} /\ iter[s \ {Max(s)}] \in A =>
          iter[s] = step[<<iter[s \ {Max(s)}], q[Max(s)]>>]
    BY <1>3, <1>4, <2>1
  <2> QED BY <2>2, <2>3 DEF FoldsBy
<1>8. iter[D] = Result(A, step, NoUnits, q)
  BY <1>2, <1>3a, <1>7, FoldIsResult
<1> QED BY <1>1, <1>8 DEF A, step

SplitOf(f) == Split(TaskOf(f))

(* The units of a file, one by one, have its planned groups, each in one of   *)
(* them, and are within the limits.                                         *)
LEMMA SplitCovers ==
  ASSUME call \in Calls, NEW f \in DOMAIN call.table,
         \A g \in PlannedGroups(f) : ~Exceeds(RowsOf(f)[g], call.maxRows)
  PROVE  /\ SplitOf(f) \in Seq(Unit) /\ UnitsFit(f, SplitOf(f))
         /\ \A g : g \in PlannedGroups(f) <=> IsIn(SplitOf(f), g)
<1> DEFINE P == PlannedGroups(f)
           X == DOMAIN call.table[f]
           q == InOrder(P)
           n == Cardinality(P)
           step == Taking(f)
           Upto(k) == {q[i] : i \in 1..k}
           Fine(k, a) == SplitFits(f, a, Upto(k))
           G == {p \in Nat \X SplitState : Fine(p[1], p[2])}
           end == Result(SplitState, step, NoUnits, q)
<1>1. P \subseteq X /\ IsFiniteSet(P) /\ P \subseteq Nat /\ f \in Nat
  BY FileFits, FS_Subset
<1>2. /\ q \in Seq(Nat) /\ Len(q) = n /\ n \in Nat
      /\ \A i \in 1..n : q[i] \in P
      /\ \A g \in P : \E i \in 1..n : q[i] = g
      /\ \A i, j \in 1..n : i < j => q[i] < q[j]
  BY <1>1, InOrderOfSet
<1>3. GroupsOf(TaskOf(f).ranges) = P /\ TaskOf(f).file = f
  BY <1>1, RangesOfSet DEF TaskOf
<1>4. SplitOf(f) = Flushed(f, FoldLeft(LAMBDA split, g : TakeGroup(f, split, g), NoUnits, q)).units
  BY <1>3 DEF SplitOf, Split
<1> HIDE DEF q, n, P
<1>5. q \in Seq(X)
  <2>1. \A i \in 1..n : q[i] \in X
    BY <1>1, <1>2
  <2> HIDE DEF X
  <2> QED BY <1>2, <2>1
<1>6. SplitOf(f) = Flushed(f, end).units
  BY <1>4, <1>5, SplitIsFold
<1>7. Fine(0, NoUnits)
  <2>1. NoUnits.units = <<>> /\ NoUnits.current = NoGroups
    BY DEF NoUnits
  <2>2. NoGroups.ranges = <<>> /\ NoGroups.groups = 0 /\ NoGroups.rows = 0
    BY DEF NoGroups
  <2>3. UnitsFit(f, <<>>) /\ \A g : ~IsIn(<<>>, g)
    BY DEF UnitsFit, IsIn
  <2>4. Upto(0) = {}
    OBVIOUS
  <2> QED BY <2>1, <2>2, <2>3, <2>4, NothingIsWithin DEF SplitFits
<1>8. ASSUME NEW k \in 0..(n - 1), NEW a \in SplitState, Fine(k, a)
      PROVE  step[<<a, q[k + 1]>>] \in SplitState /\ Fine(k + 1, step[<<a, q[k + 1]>>])
  <2>1. k \in Nat /\ k + 1 \in 1..n /\ \A i \in 1..k : i \in 1..n /\ i < k + 1
    BY <1>2
  <2>2. q[k + 1] \in P /\ q[k + 1] \in X /\ ~Exceeds(RowsOf(f)[q[k + 1]], call.maxRows)
    BY <1>1, <1>2, <2>1 DEF P
  <2>3. \A h \in Upto(k) : h < q[k + 1] /\ h \in X
    BY <1>1, <1>2, <2>1
  <2>4. step[<<a, q[k + 1]>>] = TakeGroup(f, a, q[k + 1])
    BY <2>2 DEF Taking
  <2>5. /\ TakeGroup(f, a, q[k + 1]) \in SplitState
        /\ SplitFits(f, TakeGroup(f, a, q[k + 1]), Upto(k) \cup {q[k + 1]})
    BY <1>8, <2>2, <2>3, TakeFits
  <2>6. Upto(k + 1) = Upto(k) \cup {q[k + 1]}
    <3>1. 1..(k + 1) = 1..k \cup {k + 1}
      BY <2>1
    <3> QED BY <3>1
  <2> QED BY <2>4, <2>5, <2>6
<1> HIDE DEF Fine, X, step
<1>9. <<0, NoUnits>> \in G
  BY <1>7, TakingSteps
<1>10. \A k \in 0..(n - 1) : \A a \in SplitState : <<k, a>> \in G => <<k + 1, step[<<a, q[k + 1]>>]>> \in G
  <2> SUFFICES ASSUME NEW k \in 0..(n - 1), NEW a \in SplitState, Fine(k, a)
               PROVE  k + 1 \in Nat /\ step[<<a, q[k + 1]>>] \in SplitState /\ Fine(k + 1, step[<<a, q[k + 1]>>])
    OBVIOUS
  <2> QED BY <1>8
<1>11. NoUnits \in SplitState /\ IsStep(step, SplitState, X)
  BY TakingSteps DEF step, X
<1>12. <<n, end>> \in G
  <2> HIDE DEF G
  <2> QED BY <1>2, <1>5, <1>9, <1>10, <1>11, ResultKeeps
<1>13. end \in SplitState /\ Fine(n, end)
  BY <1>12
<1> HIDE DEF end
<1>14. Upto(n) = P
  BY <1>2
<1> DEFINE last == Flushed(f, end)
<1>15. last \in SplitState /\ SplitFits(f, last, P) /\ last.current = NoGroups
  BY <1>1, <1>13, <1>14, FlushedFits DEF Fine
<1> HIDE DEF last
<1>16. GroupsOf(last.current.ranges) = {}
  BY <1>15, NothingIsWithin DEF NoGroups
<1>17. last.units \in Seq(Unit)
  BY <1>15 DEF SplitState
<1>18. UnitsFit(f, last.units) /\ \A g : g \in P <=> IsIn(last.units, g)
  BY <1>15, <1>16 DEF SplitFits
<1> QED BY <1>6, <1>17, <1>18 DEF last, P

-----------------------------------------------------------------------------
(* Units of the first n files that have their planned groups, each in one.    *)
HasGroup(u, f, g) == u.file = f /\ g \in GroupsOf(u.ranges)
Covers(parts, n) ==
  /\ parts \in Seq(Unit)
  /\ \A u \in DOMAIN parts :
       /\ Tidy(parts[u].ranges) /\ parts[u].file \in 1..n
       /\ GroupsOf(parts[u].ranges) \subseteq PlannedGroups(parts[u].file)
  /\ \A u, v \in DOMAIN parts :
       u # v /\ parts[u].file = parts[v].file => GroupsOf(parts[u].ranges) \cap GroupsOf(parts[v].ranges) = {}
  /\ \A f \in 1..n : \A g \in PlannedGroups(f) : \E u \in DOMAIN parts : HasGroup(parts[u], f, g)
AllWithin(parts) == \A u \in DOMAIN parts : Within(parts[u].file, GroupsOf(parts[u].ranges))

(* With the units of the next file they cover one file more.                 *)
LEMMA NextFileCovers ==
  ASSUME NEW n \in Nat, NEW parts, Covers(parts, n), AllWithin(parts),
         NEW more \in Seq(Unit), UnitsFit(n + 1, more), \A g : g \in PlannedGroups(n + 1) <=> IsIn(more, g)
  PROVE  Covers(parts \o more, n + 1) /\ AllWithin(parts \o more)
<1> DEFINE both == parts \o more
           a == Len(parts)
           b == Len(more)
           Fine(u) == /\ Tidy(u.ranges) /\ u.file \in 1..(n + 1)
                      /\ GroupsOf(u.ranges) \subseteq PlannedGroups(u.file)
                      /\ Within(u.file, GroupsOf(u.ranges))
           Apart(u, v) == u.file = v.file => GroupsOf(u.ranges) \cap GroupsOf(v.ranges) = {}
<1>1. parts \in Seq(Unit)
  BY DEF Covers
<1>2. a \in Nat /\ b \in Nat /\ DOMAIN parts = 1..a /\ DOMAIN more = 1..b
  BY <1>1
<1>3. /\ both \in Seq(Unit) /\ DOMAIN both = 1..(a + b)
      /\ \A i \in 1..a : both[i] = parts[i]
      /\ \A i \in 1..b : both[a + i] = more[i]
  BY <1>1
<1>4. \A u \in 1..(a + b) : u \in 1..a \/ \E i \in 1..b : u = a + i
  <2> SUFFICES ASSUME NEW u \in 1..(a + b), u \notin 1..a PROVE \E i \in 1..b : u = a + i
    OBVIOUS
  <2>1. u - a \in 1..b /\ u = a + (u - a)
    BY <1>2
  <2> QED BY <2>1
<1>5. (\A i \in 1..a : i \in 1..(a + b)) /\ \A i \in 1..b : a + i \in 1..(a + b)
  BY <1>2
<1> HIDE DEF both, a, b
<1>6. \A i \in 1..a : Fine(parts[i]) /\ parts[i].file \in 1..n
  <2> TAKE i \in 1..a
  <2>1. i \in DOMAIN parts
    BY <1>2
  <2>2. parts[i].file \in 1..n /\ Tidy(parts[i].ranges) /\ GroupsOf(parts[i].ranges) \subseteq PlannedGroups(parts[i].file)
    BY <2>1 DEF Covers
  <2>3. Within(parts[i].file, GroupsOf(parts[i].ranges))
    BY <2>1 DEF AllWithin
  <2>4. 1..n \subseteq 1..(n + 1)
    OBVIOUS
  <2> QED BY <2>2, <2>3, <2>4
<1>7. \A i \in 1..b : Fine(more[i]) /\ more[i].file = n + 1
  <2> TAKE i \in 1..b
  <2>1. more[i].file = n + 1 /\ Tidy(more[i].ranges) /\ Within(n + 1, GroupsOf(more[i].ranges))
    BY <1>2 DEF UnitsFit
  <2>2. GroupsOf(more[i].ranges) \subseteq PlannedGroups(n + 1)
    BY <1>2 DEF IsIn
  <2> QED BY <2>1, <2>2
<1>8. \A u \in 1..(a + b) : Fine(both[u])
  <2> HIDE DEF Fine
  <2> QED BY <1>3, <1>4, <1>6, <1>7
<1>9. \A u, v \in 1..(a + b) : u # v => Apart(both[u], both[v])
  <2>1. \A i, j \in 1..a : i # j => Apart(parts[i], parts[j])
    BY <1>2 DEF Covers
  <2>2. \A i, j \in 1..b : i # j => Apart(more[i], more[j])
    BY <1>2 DEF UnitsFit
  <2>3. \A i \in 1..a : \A j \in 1..b : Apart(parts[i], more[j]) /\ Apart(more[j], parts[i])
    BY <1>6, <1>7
  <2> SUFFICES ASSUME NEW u \in 1..(a + b), NEW v \in 1..(a + b), u # v PROVE Apart(both[u], both[v])
    OBVIOUS
  <2> HIDE DEF Apart
  <2>4. CASE u \in 1..a /\ v \in 1..a
    BY <1>3, <2>1, <2>4
  <2>5. CASE u \in 1..a /\ v \notin 1..a
    BY <1>3, <1>4, <2>3, <2>5
  <2>6. CASE u \notin 1..a /\ v \in 1..a
    BY <1>3, <1>4, <2>3, <2>6
  <2>7. CASE u \notin 1..a /\ v \notin 1..a
    <3>1. PICK i \in 1..b : u = a + i
      BY <1>4, <2>7
    <3>2. PICK j \in 1..b : v = a + j
      BY <1>4, <2>7
    <3>3. i # j
      BY <3>1, <3>2
    <3> QED BY <1>3, <2>2, <3>1, <3>2, <3>3
  <2> QED BY <2>4, <2>5, <2>6, <2>7
<1>10. \A f \in 1..(n + 1) : \A g \in PlannedGroups(f) : \E u \in 1..(a + b) : HasGroup(both[u], f, g)
  <2> SUFFICES ASSUME NEW f \in 1..(n + 1), NEW g \in PlannedGroups(f)
               PROVE  \E u \in 1..(a + b) : HasGroup(both[u], f, g)
    OBVIOUS
  <2>1. CASE f \in 1..n
    <3>1. PICK i \in 1..a : HasGroup(parts[i], f, g)
      BY <1>2, <2>1 DEF Covers
    <3> QED BY <1>3, <1>5, <3>1
  <2>2. CASE f = n + 1
    <3>1. PICK i \in 1..b : g \in GroupsOf(more[i].ranges)
      BY <1>2, <2>2 DEF IsIn
    <3>2. HasGroup(more[i], f, g)
      BY <1>7, <2>2, <3>1 DEF HasGroup
    <3> QED BY <1>3, <1>5, <3>2
  <2>3. f \in 1..n \/ f = n + 1
    OBVIOUS
  <2> QED BY <2>1, <2>2, <2>3
<1>11. Covers(both, n + 1)
  BY <1>3, <1>8, <1>9, <1>10 DEF Covers
<1>12. AllWithin(both)
  BY <1>3, <1>8 DEF AllWithin
<1> QED BY <1>11, <1>12 DEF both

(* The parts of a call that is not refused cover its table.                  *)
LEMMA PartsCover ==
  ASSUME call \in Calls, ~IsRefused
  PROVE  Covers(Parts, Len(call.table)) /\ (IsSplit => AllWithin(Parts))
<1> DEFINE N == Len(call.table)
<1>1. call.table \in Seq(Seq(Seq(Item)))
  BY CallFits
<1>2. N \in Nat /\ DOMAIN call.table = 1..N
  BY <1>1
<1> HIDE DEF N
<1>3. \A f \in 1..N : /\ f \in Nat /\ PlannedGroups(f) \subseteq Nat /\ IsFiniteSet(PlannedGroups(f))
                      /\ TaskOf(f).file = f /\ Tidy(TaskOf(f).ranges) /\ GroupsOf(TaskOf(f).ranges) = PlannedGroups(f)
  <2> TAKE f \in 1..N
  <2>1. f \in Nat /\ PlannedGroups(f) \subseteq Nat /\ IsFiniteSet(PlannedGroups(f))
    BY <1>2, FileFits, FS_Subset
  <2> QED BY <2>1, RangesOfSet DEF TaskOf
<1>4. CASE IsSplit
  <2> DEFINE Q(n) == [f \in 1..n |-> SplitOf(f)]
             Good == {n \in Nat : n <= N => /\ Q(n) \in Seq(Seq(Unit))
                                            /\ Covers(FlattenSeq(Q(n)), n) /\ AllWithin(FlattenSeq(Q(n)))}
  <2>1. 0 \in Good
    <3>1. Q(0) = <<>>
      OBVIOUS
    <3>2. FlattenSeq(<<>>) = <<>>
      BY FlattenSteps
    <3>3. Covers(<<>>, 0) /\ AllWithin(<<>>)
      BY DEF Covers, AllWithin
    <3>4. <<>> \in Seq(Seq(Unit))
      OBVIOUS
    <3> HIDE DEF Q
    <3> QED BY <3>1, <3>2, <3>3, <3>4
  <2>2. ASSUME NEW n \in Nat, n \in Good PROVE n + 1 \in Good
    <3> SUFFICES ASSUME n + 1 <= N
                 PROVE  /\ Q(n + 1) \in Seq(Seq(Unit))
                        /\ Covers(FlattenSeq(Q(n + 1)), n + 1) /\ AllWithin(FlattenSeq(Q(n + 1)))
      OBVIOUS
    <3>1. n <= N /\ n + 1 \in 1..N
      BY <1>2
    <3>2. Q(n) \in Seq(Seq(Unit)) /\ Covers(FlattenSeq(Q(n)), n) /\ AllWithin(FlattenSeq(Q(n)))
      BY <2>2, <3>1
    <3>3. \A g \in PlannedGroups(n + 1) : ~Exceeds(RowsOf(n + 1)[g], call.maxRows)
      BY <1>2, <1>3, <3>1 DEF IsRefused
    <3>4. /\ SplitOf(n + 1) \in Seq(Unit) /\ UnitsFit(n + 1, SplitOf(n + 1))
          /\ \A g : g \in PlannedGroups(n + 1) <=> IsIn(SplitOf(n + 1), g)
      BY <1>2, <3>1, <3>3, SplitCovers
    <3> DEFINE q == Q(n)
               s == SplitOf(n + 1)
    <3>5. Q(n + 1) = Append(q, s) /\ Q(n + 1) \in Seq(Seq(Unit))
      <4> DEFINE more == Append(q, s)
                 Y == Seq(Unit)
      <4>1. q = [f \in 1..n |-> SplitOf(f)]
        OBVIOUS
      <4>2. q \in Seq(Y) /\ s \in Y
        BY <3>2, <3>4
      <4>3. Len(q) = n
        BY <4>1
      <4> HIDE DEF q, Y
      <4>4. more \in Seq(Y) /\ Len(more) = n + 1 /\ more[n + 1] = s /\ \A f \in 1..n : more[f] = q[f]
        BY <4>2, <4>3
      <4>5. \A f \in 1..(n + 1) : more[f] = SplitOf(f)
        <5> TAKE f \in 1..(n + 1)
        <5>1. f \in 1..n \/ f = n + 1
          OBVIOUS
        <5> QED BY <4>1, <4>4, <5>1
      <4> HIDE DEF more
      <4>6. more = [f \in 1..(n + 1) |-> SplitOf(f)]
        BY <4>4, <4>5
      <4> QED BY <4>4, <4>6 DEF more, Y
    <3> HIDE DEF Q
    <3>6. FlattenSeq(Q(n + 1)) = FlattenSeq(q) \o s
      BY <3>2, <3>4, <3>5, FlattenSteps
    <3>7. Covers(FlattenSeq(q) \o s, n + 1) /\ AllWithin(FlattenSeq(q) \o s)
      BY <3>2, <3>4, NextFileCovers
    <3> QED BY <3>5, <3>6, <3>7
  <2>3. N \in Good
    <3> HIDE DEF Good
    <3> QED BY <1>2, <2>1, <2>2, EveryNatural
  <2>4. Parts = FlattenSeq(Q(N))
    <3>1. DOMAIN Tasks = 1..N /\ \A f \in 1..N : Tasks[f] = TaskOf(f)
      BY <1>2 DEF Tasks
    <3>2. [f \in DOMAIN Tasks |-> Split(Tasks[f])] = Q(N)
      BY <3>1 DEF SplitOf
    <3> HIDE DEF Q
    <3> QED BY <1>4, <3>2 DEF Parts
  <2> HIDE DEF Q
  <2> QED BY <1>2, <2>3, <2>4 DEF N
<1>5. CASE ~IsSplit
  <2>1. Parts = [f \in 1..N |-> TaskOf(f)]
    BY <1>2, <1>5 DEF Parts, Tasks
  <2>2. \A f \in 1..N : TaskOf(f) \in Unit
    <3> TAKE f \in 1..N
    <3>1. TaskOf(f).ranges \in Seq(Span) /\ TaskOf(f).file \in Nat
      BY <1>3 DEF Tidy
    <3> QED BY <3>1 DEF TaskOf, Unit
  <2> DEFINE p == [f \in 1..N |-> TaskOf(f)]
  <2>3. p \in Seq(Unit) /\ DOMAIN p = 1..N /\ \A f \in 1..N : p[f] = TaskOf(f)
    BY <1>2, <2>2
  <2> HIDE DEF p
  <2>4. \A f \in 1..N : \A g \in PlannedGroups(f) : HasGroup(p[f], f, g)
    BY <1>3, <2>3 DEF HasGroup
  <2>5. Covers(p, N)
    <3>1. \A u \in 1..N : /\ Tidy(p[u].ranges) /\ p[u].file = u
                          /\ GroupsOf(p[u].ranges) \subseteq PlannedGroups(p[u].file)
      BY <1>3, <2>3
    <3> QED BY <2>3, <2>4, <3>1 DEF Covers
  <2> QED BY <1>5, <2>1, <2>5 DEF p, N
<1> QED BY <1>4, <1>5

-----------------------------------------------------------------------------
(* Units that are joined file by file.                                       *)
Whole == {u \in Unit : /\ u.file \in DOMAIN call.table /\ Tidy(u.ranges)
                       /\ GroupsOf(u.ranges) \subseteq PlannedGroups(u.file)}
HasUnit(parts, f, g) == \E u \in DOMAIN parts : HasGroup(parts[u], f, g)
OnePerFile(parts) == \A u, v \in DOMAIN parts : parts[u].file = parts[v].file => u = v
Merged(done, unit) == [done EXCEPT !.ranges = RangesOf(GroupsOf(done.ranges) \cup GroupsOf(unit.ranges))]

(* Two units of a file are one with the groups of both.                      *)
LEMMA MergedUnits ==
  ASSUME call \in Calls, NEW u \in Whole, NEW v \in Whole, u.file = v.file
  PROVE  /\ Merged(u, v) \in Whole /\ Merged(u, v).file = u.file
         /\ GroupsOf(Merged(u, v).ranges) = GroupsOf(u.ranges) \cup GroupsOf(v.ranges)
<1> DEFINE f == u.file
           S == GroupsOf(u.ranges) \cup GroupsOf(v.ranges)
           r == RangesOf(S)
<1>1. u \in Unit /\ v \in Unit /\ f \in DOMAIN call.table /\ S \subseteq PlannedGroups(f)
  BY DEF Whole
<1>2. IsFiniteSet(S) /\ S \subseteq Nat
  BY <1>1, FileFits, FS_Subset
<1>3. Tidy(r) /\ GroupsOf(r) = S
  BY <1>2, RangesOfSet
<1> HIDE DEF r, S
<1>4. Merged(u, v) = [u EXCEPT !.ranges = r]
  BY DEF Merged, r, S
<1>5. r \in Seq(Span)
  BY <1>3 DEF Tidy
<1>6. Merged(u, v) \in Unit /\ Merged(u, v).file = f /\ Merged(u, v).ranges = r
  BY <1>1, <1>4, <1>5 DEF Unit
<1>7. Merged(u, v) \in Whole
  BY <1>1, <1>3, <1>6 DEF Whole
<1> QED BY <1>3, <1>6, <1>7 DEF S

(* A unit is joined to that of its file, if there is one.                    *)
LEMMA JoinKeeps ==
  ASSUME call \in Calls, NEW done \in Seq(Whole), NEW unit \in Whole
  PROVE  /\ Join(done, unit) \in Seq(Whole)
         /\ OnePerFile(done) => OnePerFile(Join(done, unit))
         /\ \A f, g : HasUnit(Join(done, unit), f, g) <=> HasUnit(done, f, g) \/ HasGroup(unit, f, g)
<1> DEFINE n == Len(done)
           after == Join(done, unit)
           Same(i) == done[i].file = unit.file
<1>1. n \in Nat /\ DOMAIN done = 1..n /\ \A i \in 1..n : done[i] \in Whole
  OBVIOUS
<1>2. CASE \E i \in 1..n : Same(i)
  <2>1. after = [i \in 1..n |-> IF ~Same(i) THEN done[i] ELSE Merged(done[i], unit)]
    BY <1>1, <1>2 DEF Join, Merged
  <2> HIDE DEF after
  <2>2. \A i \in 1..n : /\ after[i] \in Whole /\ after[i].file = done[i].file
                        /\ ~Same(i) => GroupsOf(after[i].ranges) = GroupsOf(done[i].ranges)
                        /\ Same(i) => GroupsOf(after[i].ranges) = GroupsOf(done[i].ranges) \cup GroupsOf(unit.ranges)
    <3> TAKE i \in 1..n
    <3>1. CASE Same(i)
      <4>1. after[i] = Merged(done[i], unit)
        BY <2>1, <3>1
      <4> QED BY <1>1, <3>1, <4>1, MergedUnits
    <3>2. CASE ~Same(i)
      BY <1>1, <2>1, <3>2
    <3> QED BY <3>1, <3>2
  <2>3. after \in Seq(Whole) /\ DOMAIN after = 1..n
    <3>1. after \in [1..n -> Whole]
      BY <2>1, <2>2
    <3> QED BY <1>1, <3>1
  <2>4. OnePerFile(done) => OnePerFile(after)
    BY <1>1, <2>2, <2>3 DEF OnePerFile
  <2>5. ASSUME NEW f, NEW g PROVE HasUnit(after, f, g) <=> HasUnit(done, f, g) \/ HasGroup(unit, f, g)
    <3>1. \A i \in 1..n : HasGroup(after[i], f, g) <=> HasGroup(done[i], f, g) \/ (Same(i) /\ HasGroup(unit, f, g))
      BY <2>2 DEF HasGroup
    <3> QED BY <1>1, <1>2, <2>3, <3>1 DEF HasUnit
  <2> QED BY <2>3, <2>4, <2>5 DEF after
<1>3. CASE ~\E i \in 1..n : Same(i)
  <2>1. after = Append(done, unit)
    BY <1>1, <1>3 DEF Join
  <2> HIDE DEF after
  <2>2. /\ after \in Seq(Whole) /\ DOMAIN after = 1..(n + 1) /\ after[n + 1] = unit
        /\ \A i \in 1..n : after[i] = done[i]
    <3> HIDE DEF n
    <3>1. Len(done) = n /\ done \in Seq(Whole) /\ unit \in Whole
      BY DEF n
    <3> QED BY <1>1, <2>1, <3>1
  <2>3. /\ 1..n \subseteq 1..(n + 1) /\ n + 1 \in 1..(n + 1)
        /\ \A i \in 1..(n + 1) : i \in 1..n \/ i = n + 1
    BY <1>1
  <2> HIDE DEF n
  <2>4. OnePerFile(done) => OnePerFile(after)
    <3> SUFFICES ASSUME OnePerFile(done), NEW u \in 1..(n + 1), NEW v \in 1..(n + 1), after[u].file = after[v].file
                 PROVE  u = v
      BY <2>2 DEF OnePerFile
    <3>1. CASE u \in 1..n /\ v \in 1..n
      BY <1>1, <2>2, <3>1 DEF OnePerFile
    <3>2. CASE u \in 1..n /\ v = n + 1
      BY <1>3, <2>2, <3>2
    <3>3. CASE u = n + 1 /\ v \in 1..n
      BY <1>3, <2>2, <3>3
    <3> QED BY <2>3, <3>1, <3>2, <3>3
  <2>5. ASSUME NEW f, NEW g PROVE HasUnit(after, f, g) <=> HasUnit(done, f, g) \/ HasGroup(unit, f, g)
    <3> HIDE DEF Same
    <3> QED BY <1>1, <2>2, <2>3 DEF HasUnit
  <2> QED BY <2>2, <2>4, <2>5 DEF after
<1> QED BY <1>2, <1>3

Joining == [p \in Seq(Whole) \X Whole |-> Join(p[1], p[2])]

(* Joining a unit to others is a step of a fold.                           *)
LEMMA JoiningSteps == call \in Calls => IsStep(Joining, Seq(Whole), Whole)
<1> SUFFICES ASSUME call \in Calls PROVE IsStep(Joining, Seq(Whole), Whole)
  OBVIOUS
<1> DEFINE Y == Seq(Whole)
           E(p) == Join(p[1], p[2])
<1>1. Joining = [p \in Y \X Whole |-> E(p)]
  BY DEF Joining
<1>2. \A p \in Y \X Whole : E(p) \in Y
  BY JoinKeeps
<1> HIDE DEF Y, E
<1>3. Joining \in [Y \X Whole -> Y]
  BY <1>1, <1>2
<1> QED BY <1>3 DEF IsStep, Y

(* The joined units are a fold of that step.                                 *)
LEMMA JoinedIsFold ==
  ASSUME call \in Calls, NEW q \in Seq(Whole)
  PROVE  Joined(q) = Result(Seq(Whole), Joining, <<>>, q)
<1> DEFINE D == DOMAIN q
           A == Seq(Whole)
           X == Whole
           E(a, x) == Join(a, x)
           Taken(h, s) == IF s = {} THEN <<>> ELSE E(h[s \ {Max(s)}], q[Max(s)])
           iter == CHOOSE h : h = [s \in SUBSET D |-> Taken(h, s)]
<1>1. Joined(q) = iter[D]
  BY DEF Joined, FoldLeft, MapThenFoldSet
<1>2. <<>> \in A /\ IsStep(Joining, A, X)
  BY JoiningSteps
<1>3. \A a \in A : \A x \in X : Joining[<<a, x>>] = E(a, x)
  BY DEF Joining
<1> HIDE DEF E, A, X
<1>3a. q \in Seq(X)
  BY DEF X
<1>4. \A s \in SUBSET D : s # {} => q[Max(s)] \in X
  BY <1>2, <1>3a, SomeFold
<1>5. PICK h : Recurs(h, A, Joining, <<>>, q)
  BY <1>2, <1>3a, SomeFold
<1>6. iter = [s \in SUBSET D |-> Taken(iter, s)]
  <2>1. \A s \in SUBSET D : h[s] = Taken(h, s)
    <3> TAKE s \in SUBSET D
    <3>1. s # {} => h[s \ {Max(s)}] \in A /\ q[Max(s)] \in X
      BY <1>4, <1>5 DEF Recurs
    <3> QED BY <1>3, <1>5, <3>1 DEF Recurs
  <2> HIDE DEF Taken
  <2>2. h = [s \in SUBSET D |-> Taken(h, s)]
    BY <1>5, <2>1 DEF Recurs
  <2> HIDE DEF D
  <2> QED BY <2>2
<1> HIDE DEF iter
<1>7. FoldsBy(iter, A, Joining, <<>>, q)
  <2>1. \A s \in SUBSET D : iter[s] = Taken(iter, s)
    <3> HIDE DEF Taken
    <3> QED BY <1>6
  <2>2. iter[{}] = <<>>
    BY <2>1
  <2>3. \A s \in SUBSET D : s # {} /\ iter[s \ {Max(s)}] \in A =>
          iter[s] = Joining[<<iter[s \ {Max(s)}], q[Max(s)]>>]
    BY <1>3, <1>4, <2>1
  <2> QED BY <2>2, <2>3 DEF FoldsBy
<1>8. iter[D] = Result(A, Joining, <<>>, q)
  BY <1>2, <1>3a, <1>7, FoldIsResult
<1> QED BY <1>1, <1>8 DEF A

(* Joined, the units cover what they covered.                                *)
LEMMA JoinedCover ==
  ASSUME call \in Calls, NEW parts, Covers(parts, Len(call.table))
  PROVE  Covers(Joined(parts), Len(call.table))
<1> DEFINE N == Len(call.table)
           n == Len(parts)
           Before(k, f, g) == \E u \in 1..k : HasGroup(parts[u], f, g)
           Fine(k, a) == OnePerFile(a) /\ \A f, g : HasUnit(a, f, g) <=> Before(k, f, g)
           G == {p \in Nat \X Seq(Whole) : Fine(p[1], p[2])}
           end == Result(Seq(Whole), Joining, <<>>, parts)
<1>1. parts \in Seq(Unit) /\ n \in Nat /\ DOMAIN parts = 1..n
  BY DEF Covers
<1>2. N \in Nat /\ DOMAIN call.table = 1..N
  BY CallFits
<1> HIDE DEF n, N
<1>3. \A u \in 1..n : parts[u] \in Whole
  <2> TAKE u \in 1..n
  <2>1. parts[u] \in Unit
    BY <1>1
  <2>2. Tidy(parts[u].ranges) /\ parts[u].file \in 1..N /\ GroupsOf(parts[u].ranges) \subseteq PlannedGroups(parts[u].file)
    BY <1>1 DEF Covers, N
  <2> QED BY <1>2, <2>1, <2>2 DEF Whole
<1>4. parts \in Seq(Whole) /\ Len(parts) = n
  <2>1. Len(parts) = n
    BY DEF n
  <2> QED BY <1>1, <1>3, <2>1
<1>5. <<>> \in Seq(Whole) /\ Fine(0, <<>>)
  BY DEF OnePerFile, HasUnit
<1>6. ASSUME NEW k \in 0..(n - 1), NEW a \in Seq(Whole), Fine(k, a)
      PROVE  Joining[<<a, parts[k + 1]>>] \in Seq(Whole) /\ Fine(k + 1, Joining[<<a, parts[k + 1]>>])
  <2>1. k \in Nat /\ k + 1 \in 1..n /\ 1..(k + 1) = 1..k \cup {k + 1}
    BY <1>1
  <2>2. parts[k + 1] \in Whole
    BY <1>3, <2>1
  <2>3. Joining[<<a, parts[k + 1]>>] = Join(a, parts[k + 1])
    BY <2>2 DEF Joining
  <2>4. /\ Join(a, parts[k + 1]) \in Seq(Whole) /\ OnePerFile(Join(a, parts[k + 1]))
        /\ \A f, g : HasUnit(Join(a, parts[k + 1]), f, g) <=> HasUnit(a, f, g) \/ HasGroup(parts[k + 1], f, g)
    BY <1>6, <2>2, JoinKeeps
  <2>5. \A f, g : Before(k + 1, f, g) <=> Before(k, f, g) \/ HasGroup(parts[k + 1], f, g)
    BY <2>1
  <2> QED BY <1>6, <2>3, <2>4, <2>5
<1> HIDE DEF Fine
<1>7. <<0, <<>>>> \in G
  BY <1>5
<1>8. \A k \in 0..(n - 1) : \A a \in Seq(Whole) : <<k, a>> \in G => <<k + 1, Joining[<<a, parts[k + 1]>>]>> \in G
  <2> SUFFICES ASSUME NEW k \in 0..(n - 1), NEW a \in Seq(Whole), Fine(k, a)
               PROVE  k + 1 \in Nat /\ Joining[<<a, parts[k + 1]>>] \in Seq(Whole) /\ Fine(k + 1, Joining[<<a, parts[k + 1]>>])
    OBVIOUS
  <2> QED BY <1>6
<1>9. <<n, end>> \in G
  <2> HIDE DEF G
  <2> QED BY <1>4, <1>5, <1>7, <1>8, JoiningSteps, ResultKeeps
<1>10. end \in Seq(Whole) /\ Fine(n, end) /\ Joined(parts) = end
  BY <1>4, <1>9, JoinedIsFold
<1> HIDE DEF end
<1>11. OnePerFile(end) /\ \A f, g : HasUnit(end, f, g) <=> Before(n, f, g)
  BY <1>10 DEF Fine
<1>12. end \in Seq(Unit)
  <2>1. Len(end) \in Nat /\ DOMAIN end = 1..Len(end) /\ \A u \in DOMAIN end : end[u] \in Whole
    BY <1>10
  <2>2. \A u \in DOMAIN end : end[u] \in Unit
    BY <2>1 DEF Whole
  <2>3. end = [u \in 1..Len(end) |-> end[u]]
    BY <1>10
  <2> QED BY <2>1, <2>2, <2>3
<1>13. \A u \in DOMAIN end : /\ Tidy(end[u].ranges) /\ end[u].file \in 1..N
                             /\ GroupsOf(end[u].ranges) \subseteq PlannedGroups(end[u].file)
  BY <1>2, <1>10 DEF Whole
<1>14. \A u, v \in DOMAIN end : u # v /\ end[u].file = end[v].file => GroupsOf(end[u].ranges) \cap GroupsOf(end[v].ranges) = {}
  BY <1>11 DEF OnePerFile
<1>15. \A f \in 1..N : \A g \in PlannedGroups(f) : \E u \in DOMAIN end : HasGroup(end[u], f, g)
  <2> TAKE f \in 1..N
  <2> TAKE g \in PlannedGroups(f)
  <2>1. \E u \in 1..n : HasGroup(parts[u], f, g)
    BY <1>1 DEF Covers, N
  <2> QED BY <1>11, <2>1 DEF HasUnit
<1> QED BY <1>10, <1>12, <1>13, <1>14, <1>15 DEF Covers, N

(* The work units of a call that is not refused cover its table.             *)
LEMMA WorkUnitsCover ==
  ASSUME call \in Calls, ~IsRefused
  PROVE  /\ Covers(WorkUnits, Len(call.table))
         /\ call.preserve /\ IsSplit => AllWithin(WorkUnits)
<1>1. Covers(Parts, Len(call.table)) /\ (IsSplit => AllWithin(Parts))
  BY PartsCover
<1>2. Covers(Joined(Parts), Len(call.table))
  BY <1>1, JoinedCover
<1>3. WorkUnits = Parts \/ (~call.preserve /\ WorkUnits = Joined(Parts))
  BY DEF WorkUnits
<1> QED BY <1>1, <1>2, <1>3

-----------------------------------------------------------------------------
(* Where the rows of a group are in their file.                              *)

(* A group starts where the one before it ends.                              *)
LEMMA StartSteps ==
  ASSUME call \in Calls, NEW f \in DOMAIN call.table
  PROVE  /\ \A g \in 1..(Len(call.table[f]) + 1) : StartOf(f)[g] \in Nat
         /\ \A g \in 1..Len(call.table[f]) : StartOf(f)[g + 1] = StartOf(f)[g] + Len(Group(f, g))
<1> DEFINE t == call.table[f]
           L == Len(t)
           X == Seq(Item)
           at(g) == SubSeq(t, 1, g - 1)
<1>1. t \in Seq(X) /\ L \in Nat
  BY FileFits
<1>2. \A g \in 1..(L + 1) : StartOf(f)[g] = Len(FlattenSeq(at(g)))
  BY DEF StartOf
<1>3. \A g \in 1..L : Group(f, g) = t[g]
  BY DEF Group
<1> HIDE DEF t, L
<1>4. \A g \in 1..(L + 1) : at(g) \in Seq(X)
  <2> HIDE DEF X
  <2> QED BY <1>1 DEF L
<1>5. \A g \in 1..L : t[g] \in X /\ at(g + 1) = Append(at(g), t[g])
  <2> HIDE DEF X
  <2> TAKE g \in 1..L
  <2>1. t[g] \in X
    BY <1>1 DEF L
  <2>2. /\ Len(at(g)) = g - 1 /\ at(g) \in Seq(X)
        /\ \A i \in 1..(g - 1) : at(g)[i] = t[i]
    BY <1>1 DEF L
  <2> DEFINE s == at(g)
             more == Append(s, t[g])
             all == at(g + 1)
  <2>2a. g + 1 - 1 = g /\ g \in Nat /\ g <= Len(t)
    BY <1>1 DEF L
  <2>3. /\ Len(all) = g /\ all \in Seq(X)
        /\ \A i \in 1..g : all[i] = t[i]
    <3>1. all = SubSeq(t, 1, g)
      BY <2>2a
    <3> HIDE DEF all
    <3> QED BY <1>1, <2>2a, <3>1
  <2> HIDE DEF s, all
  <2>4. /\ Len(more) = g /\ more \in Seq(X) /\ more[g] = t[g]
        /\ \A i \in 1..(g - 1) : more[i] = t[i]
    BY <2>1, <2>2 DEF s
  <2> HIDE DEF more
  <2>5. \A i \in 1..g : i \in 1..(g - 1) \/ i = g
    OBVIOUS
  <2>6. \A i \in 1..g : all[i] = more[i]
    BY <2>3, <2>4, <2>5
  <2>7. all = more
    BY <2>3, <2>4, <2>6
  <2> QED BY <2>1, <2>7 DEF all, more, s
<1> HIDE DEF at
<1>6. ASSUME NEW g \in 1..(L + 1) PROVE StartOf(f)[g] \in Nat
  <2>1. FlattenSeq(at(g)) \in Seq(Item)
    BY <1>4, FlattenSteps DEF X
  <2>2. Len(FlattenSeq(at(g))) \in Nat
    BY <2>1
  <2> QED BY <1>2, <2>2
<1>7. ASSUME NEW g \in 1..L PROVE StartOf(f)[g + 1] = StartOf(f)[g] + Len(Group(f, g))
  <2>1. g \in 1..(L + 1) /\ g + 1 \in 1..(L + 1)
    BY <1>1
  <2>2. t[g] \in Seq(Item) /\ at(g) \in Seq(Seq(Item)) /\ at(g + 1) = Append(at(g), t[g])
    BY <1>4, <1>5, <2>1 DEF X
  <2>3. FlattenSeq(at(g + 1)) = FlattenSeq(at(g)) \o t[g] /\ FlattenSeq(at(g)) \in Seq(Item)
    BY <2>2, FlattenSteps
  <2> DEFINE s == FlattenSeq(at(g))
  <2>4. Len(s \o t[g]) = Len(s) + Len(t[g])
    <3> HIDE DEF s
    <3>1. s \in Seq(Item)
      BY <2>3 DEF s
    <3> QED BY <2>2, <3>1
  <2> QED BY <1>2, <1>3, <2>1, <2>3, <2>4
<1> QED BY <1>6, <1>7 DEF L, t

(* Groups start one after the other.                                       *)
LEMMA StartsAreInOrder ==
  ASSUME call \in Calls, NEW f \in DOMAIN call.table,
         NEW g \in 1..(Len(call.table[f]) + 1), NEW h \in 1..(Len(call.table[f]) + 1), g <= h
  PROVE  StartOf(f)[g] <= StartOf(f)[h]
<1> DEFINE L == Len(call.table[f])
           at == StartOf(f)
           Good == {d \in Nat : g + d <= L + 1 => at[g] <= at[g + d]}
<1>1. /\ L \in Nat /\ \A k \in 1..(L + 1) : at[k] \in Nat
      /\ \A k \in 1..L : at[k + 1] = at[k] + Len(Group(f, k))
      /\ \A k \in 1..L : Len(Group(f, k)) \in Nat
  <2>1. L \in Nat /\ DOMAIN call.table[f] = 1..L /\ \A k \in DOMAIN call.table[f] : Group(f, k) \in Seq(Item)
    BY FileFits
  <2>2. \A k \in 1..L : Len(Group(f, k)) \in Nat
    BY <2>1
  <2> QED BY <2>1, <2>2, StartSteps
<1>2. g \in 1..(L + 1) /\ h \in 1..(L + 1)
  OBVIOUS
<1> HIDE DEF L, at
<1>3. 0 \in Good
  BY <1>1, <1>2
<1>4. ASSUME NEW d \in Nat, d \in Good PROVE d + 1 \in Good
  <2> SUFFICES ASSUME g + (d + 1) <= L + 1 PROVE at[g] <= at[g + (d + 1)]
    OBVIOUS
  <2>1. g + d <= L + 1 /\ g + d \in 1..L /\ g + (d + 1) = (g + d) + 1 /\ g + d \in 1..(L + 1)
    BY <1>1, <1>2
  <2>2. at[g] <= at[g + d]
    BY <1>4, <2>1
  <2>3. at[g + (d + 1)] = at[g + d] + Len(Group(f, g + d)) /\ Len(Group(f, g + d)) \in Nat
    BY <1>1, <2>1
  <2>4. at[g] \in Nat /\ at[g + d] \in Nat
    BY <1>1, <1>2, <2>1
  <2> QED BY <2>2, <2>3, <2>4
<1>5. h - g \in Good
  <2>1. h - g \in Nat
    BY <1>1, <1>2
  <2> HIDE DEF Good
  <2> QED BY <1>3, <1>4, <2>1, EveryNatural
<1>6. at[g] <= at[h]
  <2>1. g + (h - g) = h /\ h <= L + 1
    BY <1>1, <1>2
  <2> QED BY <1>5, <2>1
<1> QED BY <1>6 DEF at

(* The rows from one group to another are those of the groups between.        *)
LEMMA RowsBetweenStarts ==
  ASSUME call \in Calls, NEW f \in DOMAIN call.table, NEW r \in Span,
         r.from \in 1..(Len(call.table[f]) + 1), r.to \in 1..(Len(call.table[f]) + 1),
         NEW g \in DOMAIN call.table[f], NEW i \in DOMAIN Group(f, g)
  PROVE  InSpan(r, g) <=> StartOf(f)[r.from] <= StartOf(f)[g] + i - 1 /\ StartOf(f)[g] + i - 1 < StartOf(f)[r.to]
<1> DEFINE L == Len(call.table[f])
           at == StartOf(f)
           n == Len(Group(f, g))
           a == r.from
           b == r.to
<1>1. L \in Nat /\ g \in 1..L /\ Group(f, g) \in Seq(Item)
  BY FileFits
<1>2. n \in Nat /\ i \in 1..n
  BY <1>1
<1>3. a \in 1..(L + 1) /\ b \in 1..(L + 1) /\ g \in 1..(L + 1) /\ g + 1 \in 1..(L + 1)
  BY <1>1
<1>4. at[a] \in Nat /\ at[b] \in Nat /\ at[g] \in Nat /\ at[g + 1] = at[g] + n
  BY <1>1, <1>3, StartSteps
<1>5. /\ a <= g => at[a] <= at[g]
      /\ g + 1 <= a => at[g + 1] <= at[a]
      /\ b <= g => at[b] <= at[g]
      /\ g + 1 <= b => at[g + 1] <= at[b]
  BY <1>3, StartsAreInOrder
<1>6. InSpan(r, g) <=> a <= g /\ g < b
  BY DEF InSpan
<1> HIDE DEF at, n, a, b, L
<1>7. a <= g <=> at[a] <= at[g] + i - 1
  <2>1. CASE a <= g
    BY <1>2, <1>4, <1>5, <2>1
  <2>2. CASE ~(a <= g)
    <3>1. g + 1 <= a
      BY <1>1, <1>3, <2>2
    <3> QED BY <1>2, <1>4, <1>5, <2>2, <3>1
  <2> QED BY <2>1, <2>2
<1>8. g < b <=> at[g] + i - 1 < at[b]
  <2>1. CASE g < b
    <3>1. g + 1 <= b
      BY <1>1, <1>3, <2>1
    <3> QED BY <1>2, <1>4, <1>5, <2>1, <3>1
  <2>2. CASE ~(g < b)
    <3>1. b <= g
      BY <1>1, <1>3, <2>2
    <3> QED BY <1>2, <1>4, <1>5, <2>2, <3>1
  <2> QED BY <2>1, <2>2
<1> QED BY <1>6, <1>7, <1>8 DEF at, a, b

(* The ends of ranges of a file's groups are groups of the file, or its end.   *)
LEMMA SpanFits ==
  ASSUME NEW L \in Nat, NEW ranges, Tidy(ranges), GroupsOf(ranges) \subseteq 1..L, NEW i \in DOMAIN ranges
  PROVE  ranges[i] \in Span /\ ranges[i].from \in 1..(L + 1) /\ ranges[i].to \in 1..(L + 1)
<1> DEFINE r == ranges[i]
<1>1. ranges \in Seq(Span) /\ r.from < r.to
  BY DEF Tidy
<1>2. r \in Span
  BY <1>1
<1>3. r.from \in Nat /\ r.to \in Nat
  BY <1>2 DEF Span
<1>4. InSpan(r, r.from) /\ InSpan(r, r.to - 1) /\ r.to - 1 \in Nat
  BY <1>1, <1>3 DEF InSpan
<1>5. r.from \in GroupsOf(ranges) /\ r.to - 1 \in GroupsOf(ranges)
  BY <1>1, <1>3, <1>4, GroupsInSpans
<1>6. r.from \in 1..L /\ r.to - 1 \in 1..L
  BY <1>5
<1> QED BY <1>2, <1>3, <1>6

-----------------------------------------------------------------------------
(* The groups that are left out have no row that matches.                    *)
LEMMA StatisticsOfGroup ==
  ASSUME call \in Calls, NEW f \in DOMAIN call.table, NEW g \in DOMAIN call.table[f]
  PROVE  GroupStats(f, g) = Statistics(Cells(Group(f, g)))
<1> DEFINE rs == Group(f, g)
           c == Cells(rs)
           column == {row.v : row \in Range(rs)}
           cells == {c[i] : i \in DOMAIN c}
           values == {x \in cells : IsStatsValue(x)}
<1>1. DOMAIN c = DOMAIN rs /\ \A i \in DOMAIN rs : c[i] = rs[i].v
  BY DEF Cells
<1>2. column = cells
  BY <1>1 DEF Range
<1>3. Null \notin column <=> \A i \in DOMAIN c : c[i] # Null
  BY <1>2
<1>4. GroupStats(f, g) =
        IF values = {} THEN NoStats
        ELSE [known |-> TRUE, hasNoNulls |-> Null \notin column,
              min |-> CHOOSE x \in values : \A y \in values : x.at <= y.at,
              max |-> CHOOSE x \in values : \A y \in values : x.at >= y.at]
  BY <1>2 DEF GroupStats
<1>5. Statistics(c) =
        IF values = {} THEN NoStats
        ELSE [known |-> TRUE, min |-> Extremes(values).min, max |-> Extremes(values).max,
              hasNoNulls |-> \A i \in DOMAIN c : c[i] # Null]
  BY DEF Statistics
<1> DEFINE least == CHOOSE x \in values : \A y \in values : x.at <= y.at
           most == CHOOSE x \in values : \A y \in values : x.at >= y.at
<1>6. Extremes(values).min = least /\ Extremes(values).max = most
  BY DEF Extremes
<1> DEFINE no == Null \notin column
           all == \A i \in DOMAIN c : c[i] # Null
<1>7. no = all
  BY <1>3
<1>8. Statistics(c) = IF values = {} THEN NoStats ELSE [known |-> TRUE, min |-> least, max |-> most, hasNoNulls |-> all]
  BY <1>5, <1>6
<1>9. GroupStats(f, g) = IF values = {} THEN NoStats ELSE [known |-> TRUE, hasNoNulls |-> no, min |-> least, max |-> most]
  BY <1>4
<1> HIDE DEF no, all, least, most, values, c
<1>10. [known |-> TRUE, min |-> least, max |-> most, hasNoNulls |-> all] = [known |-> TRUE, hasNoNulls |-> no, min |-> least, max |-> most]
  BY <1>7
<1>11. GroupStats(f, g) = Statistics(c)
  BY <1>8, <1>9, <1>10
<1> QED BY <1>11 DEF c

(* A group with a row that matches is planned.                             *)
LEMMA MatchIsPlanned ==
  ASSUME call \in Calls, NEW f \in DOMAIN call.table, NEW g \in DOMAIN call.table[f],
         NEW i \in DOMAIN Group(f, g), RowMatches(Group(f, g)[i])
  PROVE  g \in PlannedGroups(f)
<1>1. CASE call.expr = Everything
  BY <1>1 DEF PlannedGroups, IsPlanned
<1>2. CASE call.expr # Everything
  <2> DEFINE row == Group(f, g)[i]
             c == Cells(Group(f, g))
             known == GroupStats(f, g)
  <2>1. IsPredicate(call.expr) /\ Evaluate(call.expr, row) = "true"
    BY <1>2, CallFits DEF IsFilter, RowMatches, Matches
  <2>2. IsColumn(c) /\ ~IsNaN(Group(f, g)[i].v)
    BY CallFits DEF IsTable, Group
  <2>3. i \in DOMAIN c /\ c[i] = row["v"]
    <3>1. row.v = row["v"]
      OBVIOUS
    <3> QED BY <3>1 DEF Cells
  <2>4. known = Statistics(c)
    BY StatisticsOfGroup
  <2>5. row["v"] = Null \/ Encloses(known, row["v"])
    <3>1. row["v"] # Null => Encloses(Statistics(c), c[i])
      BY <2>2, <2>3, StatisticsEnclose
    <3> QED BY <2>3, <2>4, <3>1
  <2> HIDE DEF known, row
  <2>6. RowGroupMayMatch(call.expr, known)
    BY <2>1, <2>5, StatisticsKeepMatches
  <2> QED BY <2>6 DEF PlannedGroups, IsPlanned, known
<1> QED BY <1>1, <1>2

-----------------------------------------------------------------------------
(* A row of a planned group is in one window of one unit.                    *)
LEMMA OneWindow ==
  ASSUME call \in Calls, Covers(units, Len(call.table)),
         NEW f \in DOMAIN call.table, NEW g \in PlannedGroups(f), NEW i \in DOMAIN Group(f, g)
  PROVE  Cardinality(WindowsAt(f, StartOf(f)[g] + i - 1)) = 1
<1> DEFINE at == StartOf(f)[g] + i - 1
           L == Len(call.table[f])
           R(n) == units[n].ranges
           W(n) == WindowsOf(units[n])
           Has(n, m) == W(n)[m].from <= at /\ at < W(n)[m].to
<1>1. L \in Nat /\ PlannedGroups(f) \subseteq 1..L /\ DOMAIN call.table[f] = 1..L
  BY FileFits
<1>2. call.table \in Seq(Seq(Seq(Item))) /\ DOMAIN call.table = 1..Len(call.table)
  BY CallFits
<1>3. \A n \in DOMAIN units : DOMAIN W(n) = DOMAIN R(n)
  BY DEF WindowsOf
<1>4. \A n \in DOMAIN units : units[n].file = f =>
        /\ Tidy(R(n)) /\ GroupsOf(R(n)) \subseteq 1..L
        /\ \A m \in DOMAIN R(n) : Has(n, m) <=> InSpan(R(n)[m], g)
  <2> SUFFICES ASSUME NEW n \in DOMAIN units, units[n].file = f
               PROVE  /\ Tidy(R(n)) /\ GroupsOf(R(n)) \subseteq 1..L
                      /\ \A m \in DOMAIN R(n) : Has(n, m) <=> InSpan(R(n)[m], g)
    OBVIOUS
  <2>1. Tidy(R(n)) /\ GroupsOf(R(n)) \subseteq 1..L
    BY <1>1 DEF Covers
  <2>2. \A m \in DOMAIN R(n) : Has(n, m) <=> InSpan(R(n)[m], g)
    <3> TAKE m \in DOMAIN R(n)
    <3>1. R(n)[m] \in Span /\ R(n)[m].from \in 1..(L + 1) /\ R(n)[m].to \in 1..(L + 1)
      BY <1>1, <2>1, SpanFits
    <3>2. W(n)[m] = [from |-> StartOf(f)[R(n)[m].from], to |-> StartOf(f)[R(n)[m].to]]
      BY DEF WindowsOf
    <3>3. W(n)[m].from = StartOf(f)[R(n)[m].from] /\ W(n)[m].to = StartOf(f)[R(n)[m].to]
      BY <3>2
    <3> HIDE DEF R, W
    <3>4. g \in DOMAIN call.table[f]
      BY <1>1
    <3> QED BY <3>1, <3>3, <3>4, RowsBetweenStarts
  <2> QED BY <2>1, <2>2
<1>5. PICK n \in DOMAIN units : units[n].file = f /\ g \in GroupsOf(R(n))
  BY <1>2 DEF Covers, HasGroup
<1>6. PICK m \in DOMAIN R(n) : InSpan(R(n)[m], g) /\ \A k \in DOMAIN R(n) : InSpan(R(n)[k], g) => k = m
  BY <1>4, <1>5, OneSpan
<1>7. \A k \in DOMAIN units : units[k].file = f /\ g \in GroupsOf(R(k)) => k = n
  BY <1>5 DEF Covers
<1>8. \A k \in DOMAIN units : \A j \in DOMAIN W(k) : units[k].file = f /\ Has(k, j) => k = n /\ j = m
  <2> SUFFICES ASSUME NEW k \in DOMAIN units, NEW j \in DOMAIN R(k), units[k].file = f, Has(k, j)
               PROVE  k = n /\ j = m
    BY <1>3
  <2>1. InSpan(R(k)[j], g) /\ Tidy(R(k))
    BY <1>4
  <2>2. g \in GroupsOf(R(k))
    <3>1. R(k) \in Seq(Span) /\ g \in Nat
      BY <1>1, <2>1 DEF Tidy
    <3> HIDE DEF R
    <3> QED BY <2>1, <3>1, GroupsInSpans
  <2>3. k = n
    BY <1>7, <2>2
  <2> QED BY <1>6, <2>1, <2>3
<1>9. WindowsAt(f, at) = {w \in UNION {{k} \X DOMAIN W(k) : k \in DOMAIN units} : units[w[1]].file = f /\ Has(w[1], w[2])}
  BY DEF WindowsAt
<1>10. <<n, m>> \in WindowsAt(f, at)
  <2>1. m \in DOMAIN W(n) /\ units[n].file = f /\ Has(n, m)
    BY <1>3, <1>4, <1>5, <1>6
  <2> HIDE DEF Has, W
  <2> QED BY <1>9, <2>1
<1>11. \A w \in WindowsAt(f, at) : w = <<n, m>>
  <2> HIDE DEF Has, W
  <2> SUFFICES ASSUME NEW w \in WindowsAt(f, at) PROVE w = <<n, m>>
    OBVIOUS
  <2>1. PICK k \in DOMAIN units : w \in {k} \X DOMAIN W(k)
    BY <1>9
  <2>2. w = <<w[1], w[2]>> /\ w[1] = k /\ w[2] \in DOMAIN W(k)
    BY <2>1
  <2>3. units[k].file = f /\ Has(k, w[2])
    BY <1>9, <2>2
  <2> QED BY <1>8, <2>2, <2>3
<1>12. WindowsAt(f, at) = {<<n, m>>}
  BY <1>10, <1>11
<1> QED BY <1>12, FS_Singleton

(* What makes the units right: once a call is planned, its units cover its    *)
(* table, and are within the limits if they are to be kept apart.            *)
UnitsArePlanned ==
  /\ call \in Calls
  /\ phase \in {"run", "done"} =>
       /\ Covers(units, Len(call.table))
       /\ call.preserve /\ IsSplit => AllWithin(units)

(* Units that cover the table are the units of a plan.                     *)
LEMMA NewUnits ==
  ASSUME NEW us, call \in Calls, Covers(us, Len(call.table)), call.preserve /\ IsSplit => AllWithin(us),
         call' = call, units' = us
  PROVE  UnitsArePlanned'
<1>1. \A f : PlannedGroups(f)' = PlannedGroups(f)
  BY DEF PlannedGroups, IsPlanned, GroupStats, Group
<1>2. Covers(units, Len(call.table))'
  BY <1>1 DEF Covers
<1>3. AllWithin(us) => AllWithin(units)'
  BY DEF AllWithin, Within, RowsOf, Group
<1> QED BY <1>2, <1>3 DEF UnitsArePlanned, IsSplit

(* The invariant is that of every call.                                      *)
LEMMA PlannedHolds == TasksSpec => []UnitsArePlanned
<1>1. TasksInit => UnitsArePlanned
  BY DEF TasksInit, UnitsArePlanned
<1>2. UnitsArePlanned /\ [TasksNext]_tasksVars => UnitsArePlanned'
  <2> SUFFICES ASSUME UnitsArePlanned, [TasksNext]_tasksVars PROVE UnitsArePlanned'
    OBVIOUS
  <2>1. call' = call
    BY DEF TasksNext, Plan, RunUnit, Reduce, Finish, tasksVars
  <2>2. CASE Plan
    <3>1. CASE IsRefused
      BY <2>1, <2>2, <3>1 DEF Plan, UnitsArePlanned
    <3>2. CASE ~IsRefused
      <4>1. units' = WorkUnits
        BY <2>2, <3>2 DEF Plan
      <4>2. /\ Covers(WorkUnits, Len(call.table))
            /\ call.preserve /\ IsSplit => AllWithin(WorkUnits)
        BY <3>2, WorkUnitsCover DEF UnitsArePlanned
      <4> QED BY <2>1, <4>1, <4>2, NewUnits DEF UnitsArePlanned
    <3> QED BY <3>1, <3>2
  <2>3. CASE phase \in {"run", "done"} /\ units' = units
    BY <2>1, <2>3, NewUnits DEF UnitsArePlanned
  <2>4. CASE phase' \notin {"run", "done"}
    BY <2>1, <2>4 DEF UnitsArePlanned
  <2>5. (\E i \in DOMAIN units : RunUnit(i)) \/ Reduce \/ Finish \/ UNCHANGED tasksVars =>
          units' = units /\ (phase \in {"run", "done"} \/ phase' \notin {"run", "done"})
    BY DEF RunUnit, Reduce, Finish, tasksVars
  <2> QED BY <2>2, <2>3, <2>4, <2>5 DEF TasksNext
<1> QED BY <1>1, <1>2, PTL DEF TasksSpec

(* However a table is pruned, split into units and joined again, every row     *)
(* that matches is read by one unit, once, and a unit is within its limits.  *)
THEOREM UnitsCover == TasksSpec => []UnitsCoverOnce
<1>1. UnitsArePlanned => UnitsCoverOnce
  <2> SUFFICES ASSUME UnitsArePlanned, phase \in {"run", "done"} PROVE UnitsCoverOnce
    BY DEF UnitsCoverOnce
  <2>1. call \in Calls /\ Covers(units, Len(call.table)) /\ (call.preserve /\ IsSplit => AllWithin(units))
    BY DEF UnitsArePlanned
  <2>2. ASSUME call.preserve, IsSplit, NEW n \in DOMAIN units PROVE IsWithinLimits(units[n])
    <3>1. Within(units[n].file, GroupsOf(units[n].ranges))
      BY <2>1, <2>2 DEF AllWithin
    <3> QED BY <3>1 DEF IsWithinLimits, Within, SumOver
  <2>3. ASSUME NEW f \in DOMAIN call.table, NEW g \in DOMAIN call.table[f], NEW i \in DOMAIN Group(f, g),
               RowMatches(Group(f, g)[i])
        PROVE  Cardinality(WindowsAt(f, StartOf(f)[g] + i - 1)) = 1
    BY <2>1, <2>3, MatchIsPlanned, OneWindow
  <2> QED BY <2>2, <2>3 DEF UnitsCoverOnce
<1> QED BY <1>1, PlannedHolds, PTL
================================================================================
