-------------------------------- MODULE MCScans --------------------------------
(***************************************************************************)
(* What a query makes of a predicate, one of two: a file on its way through   *)
(* the scan (MCPredicateScan), or an aggregate over the tasks of a table, of  *)
(* four rows each: three row groups and a file of one, or two row groups of   *)
(* one and two rows and a file of one; every aggregate, with and without a    *)
(* predicate, split by groups or by rows or not at all, and budgets that some *)
(* tables exceed.                                                          *)
(***************************************************************************)
EXTENDS MCPredicateScan, TaskAggregates

Keyed(key, x) == [k |-> key, v |-> x]
Shapes(items) ==
  {<<<<<<a>>, <<b>>, <<c>>>>, <<<<d>>>>>> : a, b, c, d \in items} \cup {<<<<<<a>>, <<b, c>>>>, <<<<d>>>>>> : a, b, c, d \in items}
Tables == Shapes({Keyed("a", x) : x \in {Number(1), Number(2), Null}})
TextTables == Shapes({Keyed("a", Number(n)) : n \in 1..3})
KeyedTables == Shapes({Keyed("a", Number(1)), Keyed("b", Number(2)), Keyed("b", Number(1))})

AtLeastTwo == <<[kind |-> "compare", column |-> "v", op |-> "gte", flipped |-> FALSE, value |-> Number(2)]>>
NotOne == <<[kind |-> "in", column |-> "v", values |-> <<Number(1)>>, negated |-> FALSE],
            [kind |-> "not", operands |-> <<1>>]>>

Lists == {"median", "count_distinct", "mode"}
Plain == {"count_rows", "count", "sum", "avg", "min", "max", "first", "any", "last"}

(* Limits: row groups and rows of a unit; budgets: rows, bytes and keys.      *)
Call(tables, grouped, exprs, ops, strings, limits, preserves, budgets) ==
  {[table |-> t, grouped |-> grouped, expr |-> e, op |-> o, strings |-> s, maxGroups |-> l[1], maxRows |-> l[2],
    preserve |-> p, maxBuffered |-> b[1], maxBytes |-> b[2], maxKeys |-> b[3]] :
     t \in tables, e \in exprs, o \in ops, s \in strings, l \in limits, p \in preserves, b \in budgets}

NoBudget == <<0, 0, 0>>
AggregateCalls ==
  Call(Tables, FALSE, {<<>>, AtLeastTwo, NotOne}, Plain, {FALSE}, {<<1, 0>>}, {TRUE}, {NoBudget})
    \cup Call(Tables, FALSE, {<<>>}, Lists, {FALSE}, {<<1, 0>>}, {TRUE}, {NoBudget, <<1, 0, 0>>, <<0, 6, 0>>})
    \cup Call(TextTables, FALSE, {<<>>, NotOne}, {"count_distinct"}, {TRUE}, {<<0, 0>>, <<1, 0>>}, {TRUE}, {NoBudget})
    \cup Call(Tables, FALSE, {<<>>, AtLeastTwo}, {"last"}, {FALSE}, {<<2, 0>>, <<1, 2>>, <<0, 1>>, <<2, 3>>}, BOOLEAN, {NoBudget})
    \cup Call(KeyedTables, TRUE, {<<>>}, Lists \cup {"last"}, {FALSE}, {<<1, 0>>}, {TRUE}, {NoBudget, <<0, 20, 0>>, <<1, 0, 1>>})

-----------------------------------------------------------------------------
VARIABLES turn   \* which of the two

AnyExpr == CHOOSE e \in Exprs : TRUE
AnyColumn == CHOOSE c \in Columns : TRUE
AnyPath == CHOOSE p \in Paths : TRUE
AnyCall == CHOOSE c \in Calls : TRUE

MCInit ==
  \/ turn = "scan" /\ call = AnyCall /\ TasksInit /\ Init
  \/ turn = "tasks" /\ expr = AnyExpr /\ rows = AnyColumn /\ path = AnyPath /\ Init /\ TasksInit

MCNext ==
  \/ turn = "scan" /\ Next /\ UNCHANGED <<turn, tasksVars>>
  \/ turn = "tasks" /\ TasksNext /\ UNCHANGED <<turn, vars>>

MCSpec == MCInit /\ [][MCNext]_<<turn, vars, tasksVars>>
=============================================================================
