------------------------------ MODULE Predicates ------------------------------
(***************************************************************************)
(* The readings of a predicate: on a row (core/src/evaluator.ts), on a  *)
(* batch of vectors (core/src/batch.ts), on the statistics of a row group    *)
(* (parquet/src/row-group-pruning.ts), on those of a file                   *)
(* (core/src/sidecar-index.ts) and on the values in a hive path             *)
(* (partitionEval of core/src/query.ts).                                   *)
(*                                                                         *)
(* A predicate is a sequence of nodes, the operands of a node before it and  *)
(* the root last, so each reading is a function on the nodes.               *)
(***************************************************************************)
EXTENDS Integers, Sequences, FiniteSets

CONSTANTS
  UnitLength,  \* the length of a timestamp column's unit, in nanoseconds
  IsoTexts     \* the places of the strings that are instants in ISO form
ASSUME UnitAssumption == UnitLength \in Nat \ {0}

(* A scalar: its type, its place among the values of the type, and the       *)
(* instant it stands for (a timestamp's, or that of a string in ISO form).   *)
NoInstant == -1
NaN == -1
Null == [type |-> "null", at |-> 0, instant |-> NoInstant]
IsNaN(x) == x.type = "number" /\ x.at = NaN
HasInstant(x) == x.instant # NoInstant

Ops == {"eq", "ne", "lt", "lte", "gt", "gte"}

Holds(op, x, y) ==
  \/ op \in {"eq", "lte", "gte"} /\ x = y
  \/ op \in {"lt", "lte", "ne"} /\ x < y
  \/ op \in {"gt", "gte", "ne"} /\ x > y

(* A comparison with the column on the right is read from right to left.     *)
Flip(op) ==
  CASE op = "lt" -> "gt" [] op = "lte" -> "gte" [] op = "gt" -> "lt" [] op = "gte" -> "lte" [] OTHER -> op

-----------------------------------------------------------------------------
(* SQL's logic; "error" is a thrown LAKEQL_TYPE_ERROR.                      *)
Truth(b) == IF b THEN "true" ELSE "false"
SqlNot(t) == CASE t = "true" -> "false" [] t = "false" -> "true" [] OTHER -> t
SqlAnd(ts) ==
  IF "error" \in ts THEN "error" ELSE IF "false" \in ts THEN "false" ELSE IF "null" \in ts THEN "null" ELSE "true"
SqlOr(ts) ==
  IF "error" \in ts THEN "error" ELSE IF "true" \in ts THEN "true" ELSE IF "null" \in ts THEN "null" ELSE "false"

-----------------------------------------------------------------------------
(* On a row.  NaN is neither below nor above anything, so it is equal to it. *)
Compare(op, x, y) ==
  IF x = Null \/ y = Null THEN "null"
  ELSE IF "timestamp" \in {x.type, y.type}
       THEN IF HasInstant(x) /\ HasInstant(y) THEN Truth(Holds(op, x.instant, y.instant)) ELSE "error"
  ELSE IF x.type # y.type THEN "error"
  ELSE IF IsNaN(x) \/ IsNaN(y) THEN Truth(Holds(op, 0, 0))
  ELSE Truth(Holds(op, x.at, y.at))

(* Values are tried in turn: an error counts unless a value before it is equal. *)
InList(x, values) ==
  LET first == {i \in DOMAIN values : Compare("eq", x, values[i]) \in {"true", "error"}} IN
  IF x = Null THEN "null"
  ELSE IF first # {} THEN Compare("eq", x, values[CHOOSE i \in first : \A j \in first : i <= j])
  ELSE IF \E i \in DOMAIN values : values[i] = Null THEN "null" ELSE "false"

Negate(node, t) == IF node.negated THEN SqlNot(t) ELSE t

CompareNode(node, x) == IF node.flipped THEN Compare(node.op, node.value, x) ELSE Compare(node.op, x, node.value)

Leaf(node, x) ==
  CASE node.kind = "compare" -> CompareNode(node, x)
    [] node.kind = "in" -> Negate(node, InList(x, node.values))
    [] node.kind = "between" -> SqlAnd({Compare("gte", x, node.low), Compare("lte", x, node.high)})
    [] node.kind = "null-check" -> Negate(node, Truth(x = Null))
    [] node.kind = "like" -> IF x = Null THEN "null" ELSE IF x.type # "string" THEN "error" ELSE Truth(x \in node.like)

IsLeaf(node) == node.kind \notin {"not", "and", "or"}
Composite(node, of) ==
  CASE node.kind = "not" -> SqlNot(of[node.operands[1]])
    [] node.kind = "and" -> SqlAnd({of[node.operands[i]] : i \in DOMAIN node.operands})
    [] node.kind = "or" -> SqlOr({of[node.operands[i]] : i \in DOMAIN node.operands})

(* The statistics of the operands bound what a node may say; a negation     *)
(* says nothing, as they bound it from one side only.                       *)
MayComposite(node, of) ==
  CASE node.kind = "not" -> TRUE
    [] node.kind = "and" -> \A i \in DOMAIN node.operands : of[node.operands[i]]
    [] node.kind = "or" -> \E i \in DOMAIN node.operands : of[node.operands[i]]

(* What the path cannot tell is unknown, unless another operand decides.      *)
PathAnd(ts) ==
  IF "error" \in ts THEN "error"
  ELSE IF "false" \in ts THEN "false"
  ELSE IF ts \subseteq {"true"} THEN "true" ELSE "unknown"
PathOr(ts) ==
  IF "error" \in ts THEN "error"
  ELSE IF "true" \in ts THEN "true"
  ELSE IF ts \subseteq {"false"} THEN "false" ELSE "unknown"
PartitionComposite(node, of) ==
  CASE node.kind = "not" -> SqlNot(of[node.operands[1]])
    [] node.kind = "and" -> PathAnd({of[node.operands[i]] : i \in DOMAIN node.operands})
    [] node.kind = "or" -> PathOr({of[node.operands[i]] : i \in DOMAIN node.operands})

Combined(logic, node, of) ==
  CASE logic = "sql" -> Composite(node, of)
    [] logic = "path" -> PartitionComposite(node, of)
    [] logic = "may" -> MayComposite(node, of)
    [] logic = "must" -> node.kind # "not" /\ MayComposite(node, of)

(* Every reading is a recursion over the nodes, from what it says of the leaves. *)
LeafNodes(expr) == {i \in DOMAIN expr : IsLeaf(expr[i])}
Reading(logic, expr, leaf) ==
  LET value[i \in DOMAIN expr] == IF IsLeaf(expr[i]) THEN leaf[i] ELSE Combined(logic, expr[i], value) IN
  value[Len(expr)]

Evaluate(expr, row) == Reading("sql", expr, [i \in LeafNodes(expr) |-> Leaf(expr[i], row[expr[i].column])])

Matches(expr, row) == Evaluate(expr, row) = "true"

-----------------------------------------------------------------------------
(* On a batch.  Between a vector and a literal there are loops of their own:  *)
(* numbers compare as numbers, and the literal of a timestamp column is cut   *)
(* to the column's unit.  Whatever else is compared value by value.          *)
InUnit(instant) == instant \div UnitLength

(* A defect: the vector takes the place of the literal, and the operator stays. *)
MaskCompareUnflipped(op, flipped, x, y) ==
  IF x # Null /\ y # Null /\ x.type = "number" /\ y.type = "number" THEN Truth(Holds(op, x.at, y.at))
  ELSE Compare(op, x, y)

MaskCompare(op, flipped, x, y) ==
  LET straight == IF flipped THEN Flip(op) ELSE op IN
  IF x = Null \/ y = Null THEN "null"
  ELSE IF x.type = "number" /\ y.type = "number"
       THEN IF IsNaN(x) \/ IsNaN(y) THEN Truth(op = "ne") ELSE Truth(Holds(straight, x.at, y.at))
  ELSE IF x.type = "timestamp" /\ HasInstant(y)
       THEN Truth(Holds(straight, InUnit(x.instant), InUnit(y.instant)))
  ELSE Compare(straight, x, y)

MaskLeaf(node, x) ==
  CASE node.kind = "compare" -> MaskCompare(node.op, node.flipped, x, node.value)
    [] node.kind = "between" ->
         SqlAnd({MaskCompare("gte", FALSE, x, node.low), MaskCompare("lte", FALSE, x, node.high)})
    [] OTHER -> Leaf(node, x)

(* What tryPredicateSelection has no mask for: like, and columns of the path. *)
HasMask(expr) ==
  \A i \in DOMAIN expr : IsLeaf(expr[i]) => expr[i].kind # "like" /\ expr[i].column = "v"

Mask(expr, row) == Reading("sql", expr, [i \in LeafNodes(expr) |-> MaskLeaf(expr[i], row[expr[i].column])])

-----------------------------------------------------------------------------
(* On statistics: the least and the greatest value, if they are known, and    *)
(* whether no value is null.  NaN and null are not compared with them.       *)
NoStats == [known |-> FALSE]

IsStatsValue(x) == x # Null /\ ~IsNaN(x)
SameType(x, y) ==
  IF "timestamp" \in {x.type, y.type} THEN HasInstant(x) /\ HasInstant(y) ELSE x.type = y.type

(* Places on one line: instants when both have one.                         *)
PlaceOf(x, y) == IF HasInstant(x) /\ HasInstant(y) THEN x.instant ELSE x.at

(* A defect: the ends of the range are left out. *)
MayHoldInside(op, min, max, x) ==
  CASE op = "eq" -> min < x /\ x < max
    [] op = "ne" -> ~(min = x /\ max = x)
    [] op = "lt" -> min < x [] op = "lte" -> min < x [] op = "gt" -> max > x [] op = "gte" -> max > x

MayHold(op, min, max, x) ==
  CASE op = "eq" -> min <= x /\ x <= max
    [] op = "ne" -> ~(min = x /\ max = x)
    [] op = "lt" -> min < x [] op = "lte" -> min <= x [] op = "gt" -> max > x [] op = "gte" -> max >= x

MustHold(op, min, max, x) ==
  CASE op = "eq" -> min = x /\ max = x
    [] op = "ne" -> x < min \/ x > max
    [] op = "lt" -> max < x [] op = "lte" -> max <= x [] op = "gt" -> min > x [] op = "gte" -> min >= x

Straight(node) == IF node.flipped THEN Flip(node.op) ELSE node.op
Usable(stats, x) == stats.known /\ IsStatsValue(x) /\ SameType(stats.min, x) /\ SameType(stats.max, x)

(* The class of the values of an in list that are searched for the minimum.  *)
ListType(x) == IF HasInstant(x) THEN "timestamp" ELSE x.type
InMayMatch(node, stats) ==
  LET alike == {node.values[i] : i \in {j \in DOMAIN node.values : ListType(node.values[j]) = ListType(stats.min)}}
      above == {x \in alike : PlaceOf(x, stats.min) >= PlaceOf(stats.min, x)} IN
  \/ node.negated \/ ~stats.known
  \/ \E i \in DOMAIN node.values : ~IsStatsValue(node.values[i])
  \/ alike = {} \/ ~SameType(stats.min, stats.max)
  \/ \E x \in above : (\A y \in above : PlaceOf(x, y) <= PlaceOf(y, x)) /\ PlaceOf(x, stats.max) <= PlaceOf(stats.max, x)

GroupLeafMay(node, stats) ==
  CASE node.kind = "compare" ->
         Usable(stats, node.value) =>
           MayHold(Straight(node), PlaceOf(stats.min, node.value), PlaceOf(stats.max, node.value),
                   PlaceOf(node.value, stats.min))
    [] node.kind = "between" ->
         Usable(stats, node.low) /\ Usable(stats, node.high) =>
           /\ PlaceOf(stats.max, node.low) >= PlaceOf(node.low, stats.max)
           /\ PlaceOf(stats.min, node.high) <= PlaceOf(node.high, stats.min)
    [] node.kind = "in" -> InMayMatch(node, stats)
    [] OTHER -> TRUE

StatsOf(column, stats) == IF column = "v" THEN stats ELSE NoStats

RowGroupMayMatch(expr, stats) ==
  Reading("may", expr, [i \in LeafNodes(expr) |-> GroupLeafMay(expr[i], StatsOf(expr[i].column, stats))])

WithoutNulls(stats) == stats.known /\ stats.hasNoNulls

GroupLeafMust(node, stats) ==
  CASE node.kind = "compare" ->
         /\ WithoutNulls(stats) /\ Usable(stats, node.value)
         /\ MustHold(Straight(node), PlaceOf(stats.min, node.value), PlaceOf(stats.max, node.value),
                     PlaceOf(node.value, stats.min))
    [] node.kind = "between" ->
         /\ WithoutNulls(stats) /\ Usable(stats, node.low) /\ Usable(stats, node.high)
         /\ PlaceOf(stats.min, node.low) >= PlaceOf(node.low, stats.min)
         /\ PlaceOf(stats.max, node.high) <= PlaceOf(node.high, stats.max)
    [] OTHER -> FALSE

RowGroupMustMatch(expr, stats) ==
  Reading("must", expr, [i \in LeafNodes(expr) |-> GroupLeafMust(expr[i], StatsOf(expr[i].column, stats))])

-----------------------------------------------------------------------------
(* On the sidecar index of a file: no timestamps, strings as text, and a      *)
(* comparison is read as if the column were always on the left.              *)
IsIndexValue(x) == IsStatsValue(x) /\ x.type # "timestamp"
Indexed(stats, x) == stats.known /\ IsIndexValue(x) /\ stats.min.type = x.type

FileLeafMay(node, stats) ==
  CASE node.kind = "compare" -> Indexed(stats, node.value) => MayHold(node.op, stats.min.at, stats.max.at, node.value.at)
    [] node.kind = "between" ->
         Indexed(stats, node.low) /\ Indexed(stats, node.high) =>
           stats.max.at >= node.low.at /\ stats.min.at <= node.high.at
    [] node.kind = "in" ->
         \/ node.negated \/ ~stats.known
         \/ \E i \in DOMAIN node.values :
              Indexed(stats, node.values[i]) => MayHold("eq", stats.min.at, stats.max.at, node.values[i].at)
    [] OTHER -> TRUE

FileMayMatch(expr, stats) ==
  Reading("may", expr, [i \in LeafNodes(expr) |-> FileLeafMay(expr[i], StatsOf(expr[i].column, stats))])

-----------------------------------------------------------------------------
(* On the values of a hive path, which are strings: what does not depend on   *)
(* them alone is unknown, and a leaf that does is a truth value of two.       *)
PartitionLeaf(node, p) ==
  IF node.column # "p" THEN "unknown"
  ELSE IF Leaf(node, p) = "error" THEN "error" ELSE Truth(Leaf(node, p) = "true")

PartitionEval(expr, p) == Reading("path", expr, [i \in LeafNodes(expr) |-> PartitionLeaf(expr[i], p)])

-----------------------------------------------------------------------------
(* The bounds of the model.  Whether a string is in ISO form is a matter of   *)
(* its text.  A literal is no NaN, and no finer than a timestamp column.      *)
InUnits(x) == HasInstant(x) => x.instant % UnitLength = 0
IsScalar(x) ==
  /\ x \in [type : {"null", "number", "string", "timestamp"}, at : Int, instant : Int]
  /\ x.type = "null" => x = Null
  /\ x.type = "number" => ~HasInstant(x)
  /\ x.type = "string" => (HasInstant(x) <=> x.at \in IsoTexts)
  /\ x.type = "timestamp" => HasInstant(x) /\ x.at = x.instant
IsLiteral(x) == IsScalar(x) /\ ~IsNaN(x) /\ InUnits(x)

IsList(s) == Len(s) \in Nat /\ DOMAIN s = 1..Len(s)
IsLeafNode(node) ==
  /\ node.column \in {"v", "p"}
  /\ node.kind \in {"compare", "in", "between", "null-check", "like"}
  /\ node.kind = "compare" => node.op \in Ops /\ node.flipped \in BOOLEAN /\ IsLiteral(node.value)
  /\ node.kind = "in" =>
       node.negated \in BOOLEAN /\ IsList(node.values) /\ \A i \in DOMAIN node.values : IsLiteral(node.values[i])
  /\ node.kind = "between" => IsLiteral(node.low) /\ IsLiteral(node.high)
  /\ node.kind = "null-check" => node.negated \in BOOLEAN
IsInnerNode(node, i) ==
  /\ IsList(node.operands)
  /\ \A j \in DOMAIN node.operands : node.operands[j] \in 1..(i - 1)
  /\ node.kind = "not" => Len(node.operands) = 1
IsPredicate(e) ==
  /\ IsList(e) /\ Len(e) > 0
  /\ \A i \in DOMAIN e : IF IsLeaf(e[i]) THEN IsLeafNode(e[i]) ELSE IsInnerNode(e[i], i)

(* A column holds values of one type; strings in ISO form are not among them. *)
IsColumn(c) ==
  /\ IsList(c)
  /\ \A i \in DOMAIN c :
       /\ IsScalar(c[i]) /\ InUnits(c[i])
       /\ HasInstant(c[i]) => c[i].type = "timestamp"
       /\ \A j \in DOMAIN c : c[i].type = c[j].type \/ Null \in {c[i], c[j]}
=============================================================================
