----------------------------- MODULE PredicateScan -----------------------------
(***************************************************************************)
(* One file of one row group on its way through a query with a predicate:   *)
(* the hive path, the sidecar index and the statistics of the row group may  *)
(* each skip it, and one of three readers takes rows from it.  What is kept   *)
(* is compared with the predicate on each row.                              *)
(***************************************************************************)
EXTENDS Predicates

CONSTANTS
  Exprs,         \* the predicates of the queries
  IndexedExprs,  \* those of queries that are given a sidecar index
  Columns,       \* the contents column v may have: sequences of scalars
  Paths          \* the hive values column p may have

(* The sidecar index reads a comparison as if the column were on the left: it *)
(* is given to the predicates for which that is no other comparison.          *)
Flips(node) == node.kind = "compare" /\ node.flipped /\ Flip(node.op) # node.op
IsIndexed(e) == \A i \in DOMAIN e : ~Flips(e[i])

ASSUME QueriesAssumption == IndexedExprs \subseteq Exprs
ASSUME PredicatesAssumption == (\A e \in Exprs : IsPredicate(e)) /\ \A e \in IndexedExprs : IsIndexed(e)
ASSUME DataAssumption == (\A c \in Columns : IsColumn(c)) /\ \A p \in Paths : IsScalar(p)

VARIABLES
  expr,     \* the predicate
  rows,     \* the values of column v, row by row
  path,     \* the value of column p, the same in all rows
  stats,    \* the statistics that were found in the row group
  stage,    \* what is asked next, or how the file ended
  kept      \* the rows that were kept

vars == <<expr, rows, path, stats, stage, kept>>
given == <<expr, rows, path>>

Row(i) == [c \in {"v", "p"} |-> IF c = "v" THEN rows[i] ELSE path]

-----------------------------------------------------------------------------
(* The least and the greatest of the values that have a place in the order.  *)
Extremes(values) ==
  [known |-> TRUE,
   min |-> CHOOSE x \in values : \A y \in values : x.at <= y.at,
   max |-> CHOOSE x \in values : \A y \in values : x.at >= y.at]

Statistics(column) ==
  LET values == {x \in {column[i] : i \in DOMAIN column} : IsStatsValue(x)} IN
  IF values = {} THEN NoStats
  ELSE [known |-> TRUE, min |-> Extremes(values).min, max |-> Extremes(values).max,
        hasNoNulls |-> \A i \in DOMAIN column : column[i] # Null]

(* A column with a value an index cannot hold has none: it is not built.     *)
MinMaxIndex(column) ==
  LET values == {column[i] : i \in DOMAIN column} \ {Null} IN
  IF values = {} \/ \E x \in values : ~IsIndexValue(x) THEN NoStats ELSE Extremes(values)

-----------------------------------------------------------------------------
TypeOK ==
  /\ expr \in Exprs /\ rows \in Columns /\ path \in Paths
  /\ stats \in {NoStats, Statistics(rows)}
  /\ stage \in {"hive", "sidecar", "group", "scan", "skipped", "failed", "done"}
  /\ kept \subseteq DOMAIN rows

Init ==
  /\ expr \in Exprs /\ rows \in Columns /\ path \in Paths
  /\ stats = NoStats
  /\ stage = "hive"
  /\ kept = {}

Goto(next) == stage' = next /\ UNCHANGED <<given, kept>>

(* planObjects: the path first, then the index if the query has one.        *)
PlanHive ==
  /\ stage = "hive"
  /\ Goto(CASE PartitionEval(expr, path) = "error" -> "failed"
            [] PartitionEval(expr, path) = "false" -> "skipped"
            [] OTHER -> "sidecar")
  /\ UNCHANGED stats

PlanUnindexed == stage = "sidecar" /\ Goto("group") /\ UNCHANGED stats

PlanSidecar ==
  /\ stage = "sidecar"
  /\ expr \in IndexedExprs
  /\ Goto(IF FileMayMatch(expr, MinMaxIndex(rows)) THEN "group" ELSE "skipped")
  /\ UNCHANGED stats

PlanGroup ==
  /\ stage = "group"
  /\ stats' \in {NoStats, Statistics(rows)}
  /\ Goto(IF RowGroupMayMatch(expr, stats') THEN "scan" ELSE "skipped")

(* Reads rows with the given reading of the predicate; an error ends it all. *)
Keep(reading(_)) ==
  /\ stage = "scan"
  /\ IF \E i \in DOMAIN rows : reading(Row(i)) = "error"
     THEN stage' = "failed" /\ UNCHANGED kept
     ELSE stage' = "done" /\ kept' = {i \in DOMAIN rows : reading(Row(i)) = "true"}
  /\ UNCHANGED <<given, stats>>

(* The row scan, and the column scan of a batch without a mask.             *)
ScanRows == LET reading(row) == Evaluate(expr, row) IN Keep(reading)

(* The vector scan, and the column scan of a batch with one.                *)
ScanVectors == HasMask(expr) /\ LET reading(row) == Mask(expr, row) IN Keep(reading)

(* The column scan takes a group whose statistics imply the predicate whole. *)
ScanWhole ==
  /\ stage = "scan"
  /\ RowGroupMustMatch(expr, stats)
  /\ stage' = "done"
  /\ kept' = DOMAIN rows
  /\ UNCHANGED <<given, stats>>

Next == PlanHive \/ PlanUnindexed \/ PlanSidecar \/ PlanGroup \/ ScanRows \/ ScanVectors \/ ScanWhole

Spec == Init /\ [][Next]_vars

-----------------------------------------------------------------------------
(* NaN is equal to everything to the row scan, to nothing to the masks, and   *)
(* not in the statistics: what is said of rows is said of the others.        *)
IsOrdered(i) == ~IsNaN(rows[i])

(* No file with a row that matches is skipped, whichever of the hive path,    *)
(* the sidecar index and the row group's statistics is asked: negation,      *)
(* nulls, values of another type and missing statistics leave it in.         *)
PruningIsSound == stage = "skipped" => \A i \in DOMAIN rows : IsOrdered(i) => ~Matches(expr, Row(i))

(* A scan keeps the rows that match and no other, whether it asks row by row, *)
(* by vector masks, or not at all because the statistics imply the predicate *)
(* (which may hide that a part of it cannot be evaluated on some row).       *)
ScanIsExact ==
  stage = "done" =>
    \A i \in DOMAIN rows :
      IsOrdered(i) /\ Evaluate(expr, Row(i)) # "error" => (i \in kept <=> Matches(expr, Row(i)))
=============================================================================
