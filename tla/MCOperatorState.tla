--------------------------- MODULE MCOperatorState ---------------------------
EXTENDS OperatorState

Row(id, p, k, v) == [id |-> id, p |-> p, k |-> k, v |-> v]
Asc(c) == [column |-> c, direction |-> "asc", nulls |-> "last"]
Desc(c) == [column |-> c, direction |-> "desc", nulls |-> "first"]

Window(fn, orderBy, frame) ==
  [alias |-> "w", fn |-> fn, column |-> "v", n |-> 2, default |-> 9, ignoreNulls |-> FALSE, distinct |-> FALSE,
   filter |-> {1, 2, 3}, partitionBy |-> <<"p">>, orderBy |-> orderBy, frame |-> frame]
At(kind, offset) == [kind |-> kind, offset |-> offset]
Frame(mode, start, end, exclude) == [mode |-> mode, start |-> start, end |-> end, exclude |-> exclude]

(* One table in one file or two: peers in both partitions, nulls, a row of a  *)
(* partition of its own in the second file.                                 *)
TableA == <<<<Row(1, 1, 2, 3), Row(2, 2, 1, 2), Row(3, 1, 1, Null)>>, <<Row(4, 1, 2, 1), Row(5, 2, 1, 2)>>>>
TableB == <<<<Row(1, 1, 4, 1), Row(2, 1, 2, 2), Row(3, 1, 2, 1), Row(4, 1, 1, Null), Row(5, 1, 2, 3)>>>>
TableC == <<<<Row(1, 1, Null, 1), Row(2, 1, 1, 2), Row(3, 2, 1, 3)>>>>

-----------------------------------------------------------------------------
(* Plans without retries: each window function, each frame, by each way.      *)
Plain(slices, requests) ==
  [requests |-> requests, slices |-> slices, capacity |-> 0, maxPartition |-> 0, spill |-> FALSE, maxSpill |-> 0,
   ids |-> "fixed", holds |-> "bytes", retries |-> 0, buckets |-> 2]

Query(op, windows) == [op |-> op, windows |-> windows, qualify |-> {}, orderBy |-> <<>>, offset |-> 0, limit |-> 0]

Orders == {<<>>, <<Asc("k")>>, <<Desc("k")>>, <<Asc("k"), Desc("v")>>}
Placed == {[Window(fn, o, NoFrame) EXCEPT !.ignoreNulls = i] :
             fn \in {"row_number", "rank", "dense_rank", "percent_rank", "cume_dist", "ntile", "lag", "lead"},
             o \in Orders, i \in BOOLEAN}
Frames ==
  {NoFrame} \cup
  {Frame(m, s, e, x) : m \in {"rows", "groups", "range"},
     s \in {At("unbounded-preceding", 0), At("preceding", 1), At("following", 1)},
     e \in {At("current-row", 0), At("following", 2)}, x \in {"no-others", "current-row", "ties"}} \cup
  {Frame(m, At("current-row", 0), At("unbounded-following", 0), "group") : m \in {"rows", "groups", "range"}} \cup
  {Frame(m, At("preceding", 2), At("preceding", 1), "no-others") : m \in {"rows", "groups", "range"}}
Framed == {Window(fn, <<Asc("k")>>, f) : fn \in {"sum", "max", "first_value", "nth_value", "mode"}, f \in Frames} \cup
  {[Window(fn, <<Desc("k")>>, f) EXCEPT !.distinct = TRUE, !.filter = {1, 2}] : fn \in {"avg", "count"}, f \in Frames} \cup
  {[Window(fn, <<Desc("k")>>, NoFrame) EXCEPT !.ignoreNulls = TRUE] : fn \in {"first_value", "last_value", "nth_value"}} \cup
  {Window(fn, o, NoFrame) : fn \in AggregateOps, o \in Orders}

Pairs ==
  {<<Window("row_number", <<Asc("k")>>, NoFrame), Window(fn, <<Asc("k"), Asc("v")>>, NoFrame)>> : fn \in {"rank", "sum"}} \cup
  {<<Window("row_number", <<Asc("k")>>, NoFrame), [Window("sum", <<>>, NoFrame) EXCEPT !.partitionBy = q]>> : q \in {<<>>, <<"k">>}}

AnyWindow ==
  {Plain(TableB, {Query("tasks", <<w>>)}) : w \in Placed \cup Framed} \cup
  {Plain(TableA, {Query(op, ws)}) : op \in {"window", "tasks"}, ws \in Pairs \cup {<<w>> : w \in Placed}} \cup
  {Plain(TableC, {Query("tasks", <<w>>)}) : w \in Framed}

-----------------------------------------------------------------------------
(* Plans over slices, with calls that are lost and made again.              *)
Slices == <<<<Row(1, 1, 1, 3), Row(2, 2, 1, 2)>>, <<Row(3, 1, 2, 2), Row(4, 1, 2, Null), Row(5, 2, 2, 1)>>, <<Row(6, 1, 1, 2)>>>>

TopK(offset, limit) == [op |-> "topk", orderBy |-> <<Asc("k"), Desc("v")>>, offset |-> offset, limit |-> limit]
SortBy(terms, offset, limit) == [op |-> "sort", orderBy |-> terms, offset |-> offset, limit |-> limit]
Group(fn, grouped, maxGroups) == [op |-> "aggregate", grouped |-> grouped, fn |-> fn, maxGroups |-> maxGroups]
Ranked == [Query("window", <<Window("row_number", <<Asc("k"), Desc("v")>>, NoFrame), Window("sum", <<Asc("k")>>, NoFrame)>>)
             EXCEPT !.qualify = {1, 2}, !.orderBy = <<Desc("v")>>, !.offset = 1, !.limit = 2]

(* Two requests of one order, or of one window: a state is for one of them.    *)
Ordered ==
  {{TopK(1, 2)}, {TopK(0, 1), TopK(0, 2)}, {SortBy(<<Asc("k")>>, 0, 0), SortBy(<<Asc("k")>>, 2, 2)},
   {SortBy(<<Desc("k"), Asc("v")>>, 1, 3)}, {Ranked}, {Query("window", <<Window("lag", <<Asc("v")>>, NoFrame)>>)}}
Grouped == {{Group(fn, grouped, 0)} : fn \in AggregateOps, grouped \in BOOLEAN} \cup {{Group("sum", TRUE, 0), Group("avg", TRUE, 0)}}

InMemory == [spill |-> FALSE, ids |-> "fixed", holds |-> "bytes", capacity |-> 0]
Spilled == [spill : {TRUE}, ids : {"fixed", "fresh"}, holds : {"bytes", "ref"}, capacity : {2}]
Carried(slices, requests, h, retries) ==
  [Plain(slices, requests) EXCEPT
     !.spill = h.spill, !.ids = h.ids, !.holds = h.holds, !.retries = retries,
     !.capacity = IF \E r \in requests : r.op \in {"sort", "window"} THEN h.capacity ELSE 0]
Stateful ==
  {Carried(Slices, requests, h, 1) : requests \in Ordered, h \in Spilled \cup {InMemory}} \cup
  {Carried(Tail(Slices), {r}, h, 2) : r \in {SortBy(<<Asc("k")>>, 0, 2), Ranked}, h \in Spilled} \cup
  {Carried(Slices, requests, h, 1) : requests \in Grouped, h \in {InMemory, [InMemory EXCEPT !.spill = TRUE]}}

(* Plans whose budgets do not hold them: rows, groups, values, partitions, the *)
(* spill.                                                                   *)
Tight ==
  {[Plain(Slices, {r}) EXCEPT !.capacity = n, !.maxPartition = m, !.spill = s] :
     r \in {TopK(1, 2), Group("median", TRUE, 0), Group("count_distinct", FALSE, 0), Group("mode", TRUE, 0), Group("sum", TRUE, 1), Ranked},
     n \in {2, 3, 4}, m \in {0, 3}, s \in BOOLEAN} \cup
  {[Plain(Slices, {Query("tasks", <<Window("rank", <<Asc("k")>>, NoFrame)>>)}) EXCEPT !.capacity = n] : n \in 1..3} \cup
  {[Plain(Slices, requests) EXCEPT !.capacity = 2, !.spill = TRUE, !.retries = 1, !.maxSpill = n, !.ids = id] :
     requests \in {{SortBy(<<Asc("k")>>, 0, 0)}, {Ranked}, {TopK(0, 2)}}, n \in {4, 8}, id \in {"fixed", "fresh"}}

MCPlans == AnyWindow \cup Stateful \cup Tight
=============================================================================
