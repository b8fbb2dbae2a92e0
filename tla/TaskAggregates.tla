---------------------------- MODULE TaskAggregates ----------------------------
(***************************************************************************)
(* An aggregate over the tasks of a table (parquet/src/aggregate-task.ts):  *)
(* row groups are planned from their statistics, the tasks split into work   *)
(* units, each unit read into a partial state, and the partials merged in    *)
(* the order of the units, whichever is done first (core/src/work-unit.ts,   *)
(* whose promise is OrderedReduce).                                         *)
(*                                                                         *)
(* What a unit keeps of its rows is that of module Predicates; the states of  *)
(* the aggregates are those of core/src/vector-aggregate.ts.                *)
(***************************************************************************)
EXTENDS Predicates, SequencesExt, FiniteSetsExt

CONSTANTS
  Calls,      \* the calls: a table, a predicate or none, an aggregate and options
  RunLength,  \* how many distinct keys make a sorted run worth keeping, at least 1
  ItemBytes,  \* the bytes of a buffered value in JSON, at least 1
  GroupBytes  \* the bytes a group is taken to need besides its list

(* The rows of a table have a key and a scalar.  NaN is not among them: it is *)
(* equal to everything row by row, and not in the statistics.               *)
Everything == <<>>   \* no predicate
Cells(group) == [i \in DOMAIN group |-> group[i].v]
IsTable(table) ==
  /\ table \in Seq(Seq(Seq([k : STRING, v : [type : STRING, at : Int, instant : Int]])))
  /\ \A f \in DOMAIN table : \A g \in DOMAIN table[f] :
       /\ IsColumn(Cells(table[f][g]))
       /\ \A i \in DOMAIN table[f][g] : ~IsNaN(table[f][g][i].v)
IsFilter(expr) ==
  expr # Everything => IsPredicate(expr) /\ \A i \in LeafNodes(expr) : expr[i].column = "v"

ASSUME CallsAssumption ==
  \A c \in Calls :
    IsTable(c.table) /\ IsFilter(c.expr) /\ c.maxGroups \in Nat /\ c.maxRows \in Nat /\ c.preserve \in BOOLEAN

NoLimit == 0
Exceeds(n, limit) == limit # NoLimit /\ n > limit

VARIABLES
  call,      \* the call that is made
  phase,     \* "plan", "run", "refused", "failed" or "done"
  units,     \* the work units: a file and ranges of its row groups
  partials,  \* the partial groups of each unit that has been read
  reduced,   \* how many partials are merged
  merged     \* the state they are merged into

tasksVars == <<call, phase, units, partials, reduced, merged>>

Failed == [failed |-> TRUE]

-----------------------------------------------------------------------------
(* Row groups.                                                              *)
Group(f, g) == call.table[f][g]
RowsOf(f) == [g \in DOMAIN call.table[f] |-> Len(Group(f, g))]
GroupStats(f, g) ==
  LET column == {row.v : row \in Range(Group(f, g))}
      values == {x \in column : IsStatsValue(x)} IN
  IF values = {} THEN NoStats
  ELSE [known |-> TRUE, hasNoNulls |-> Null \notin column,
        min |-> CHOOSE x \in values : \A y \in values : x.at <= y.at,
        max |-> CHOOSE x \in values : \A y \in values : x.at >= y.at]

IsPlanned(f, g) == call.expr = Everything \/ RowGroupMayMatch(call.expr, GroupStats(f, g))
IsWhole(f, g) == call.expr = Everything \/ RowGroupMustMatch(call.expr, GroupStats(f, g))
IsSelected(row) == Mask(call.expr, row) = "true"
Selected(f, g, rows) == IF IsWhole(f, g) THEN rows ELSE SelectSeq(rows, IsSelected)

(* The position of the first row of a group in its file.                    *)
StartOf(f) == [g \in 1..(Len(call.table[f]) + 1) |-> Len(FlattenSeq(SubSeq(call.table[f], 1, g - 1)))]

-----------------------------------------------------------------------------
(* Ranges [from, to) of row groups, in order.                               *)
InOrder(groups) == [n \in 1..Cardinality(groups) |-> CHOOSE g \in groups : Cardinality({h \in groups : h <= g}) = n]

AppendGroup(ranges, g) ==
  IF ranges # <<>> /\ Last(ranges).to = g
  THEN [ranges EXCEPT ![Len(ranges)].to = g + 1]
  ELSE Append(ranges, [from |-> g, to |-> g + 1])

RangesOf(groups) == FoldLeft(AppendGroup, <<>>, InOrder(groups))
GroupsOf(ranges) == UNION {r.from..(r.to - 1) : r \in Range(ranges)}

PlannedGroups(f) == {g \in DOMAIN call.table[f] : IsPlanned(f, g)}
TaskOf(f) == [file |-> f, ranges |-> RangesOf(PlannedGroups(f))]

(* A defect: a unit takes a group before its limits are looked at. *)
IsFullLate(current, rows) == Exceeds(current.groups, call.maxGroups) \/ Exceeds(current.rows, call.maxRows)

(* Whether a unit that has groups has no place for another of so many rows.  *)
IsFull(current, rows) ==
  \/ current.groups > 0 /\ Exceeds(current.groups + 1, call.maxGroups)
  \/ current.rows > 0 /\ Exceeds(current.rows + rows, call.maxRows)

NoGroups == [ranges |-> <<>>, groups |-> 0, rows |-> 0]
Flushed(f, split) ==
  IF split.current = NoGroups THEN split
  ELSE [units |-> Append(split.units, [file |-> f, ranges |-> split.current.ranges]), current |-> NoGroups]

NoUnits == [units |-> <<>>, current |-> NoGroups]
TakeGroup(f, split, g) ==
  LET flushed == IF IsFull(split.current, RowsOf(f)[g]) THEN Flushed(f, split) ELSE split IN
  [flushed EXCEPT !.current =
     [ranges |-> AppendGroup(@.ranges, g), groups |-> @.groups + 1, rows |-> @.rows + RowsOf(f)[g]]]

Split(task) ==
  LET Take(split, g) == TakeGroup(task.file, split, g) IN
  Flushed(task.file, FoldLeft(Take, NoUnits, InOrder(GroupsOf(task.ranges)))).units

(* Units of one file are joined again unless the call keeps them apart.      *)
Join(done, unit) ==
  IF \E i \in DOMAIN done : done[i].file = unit.file
  THEN [i \in DOMAIN done |->
          IF done[i].file # unit.file THEN done[i]
          ELSE [done[i] EXCEPT !.ranges = RangesOf(GroupsOf(done[i].ranges) \cup GroupsOf(unit.ranges))]]
  ELSE Append(done, unit)
Joined(parts) == FoldLeft(Join, <<>>, parts)

(* The rows of a unit are read window by window.                            *)
WindowsOf(unit) ==
  [i \in DOMAIN unit.ranges |->
     [from |-> StartOf(unit.file)[unit.ranges[i].from], to |-> StartOf(unit.file)[unit.ranges[i].to]]]

-----------------------------------------------------------------------------
(* The states of the aggregates, with the bytes of what they buffer: 0 stands *)
(* for bytes that were not counted, and a list that is counted has some.     *)
Counters == {"count_rows", "count", "sum", "avg"}
Buffering == {"median", "count_distinct", "mode"}

Unmeasured == 0
Empty(op) ==
  CASE op \in Counters -> [count |-> 0, sum |-> 0]
    [] op \in {"min", "max"} -> [value |-> Null]
    [] op \in {"first", "any", "last"} -> [seen |-> FALSE, value |-> Null]
    [] op \in {"median", "mode"} -> [values |-> <<>>, bytes |-> Unmeasured]
    [] op = "count_distinct" -> [values |-> {}, runs |-> <<>>, bytes |-> Unmeasured]

DistinctKeys(state) == IF state.runs = <<>> THEN state.values ELSE UNION Range(state.runs)
SizeOf(op, state) == IF op = "count_distinct" THEN Cardinality(DistinctKeys(state)) ELSE Len(state.values)

ListBytes(n) == IF n = 0 THEN 2 ELSE 2 + n * ItemBytes + (n - 1)
BytesAfterAppend(bytes, n) == IF n = 0 THEN 2 + ItemBytes ELSE bytes + 1 + ItemBytes

(* A defect: bytes that were not counted are taken for none. *)
MeasuredNever(op, state) == state

Measured(op, state) ==
  IF call.maxBytes # NoLimit /\ state.bytes = Unmeasured
  THEN [state EXCEPT !.bytes = ListBytes(SizeOf(op, state))] ELSE state

(* A state that is over a budget is an error; one without a list never is.   *)
Enforced(op, state) ==
  IF op \notin Buffering THEN state
  ELSE LET measured == Measured(op, state) IN
       IF Exceeds(SizeOf(op, state), call.maxBuffered) \/ Exceeds(measured.bytes, call.maxBytes)
       THEN Failed ELSE measured

Create(op) == Enforced(op, Empty(op))

(* The bytes of a list that gets one more value.                            *)
Grown(op, state) ==
  [state EXCEPT !.bytes =
     IF call.maxBytes = NoLimit THEN Unmeasured ELSE BytesAfterAppend(Measured(op, state).bytes, SizeOf(op, state))]

AddBuffered(state, x) == Enforced("median", [Grown("median", state) EXCEPT !.values = Append(@, x)])

AddExtreme(op, state, x) ==
  IF x = Null \/ (state.value # Null /\ ~(IF op = "min" THEN x.at < state.value.at ELSE x.at > state.value.at))
  THEN state ELSE [state EXCEPT !.value = x]

(* Distinct keys are a set, or sorted runs that are merged when they are read. *)
AsSet(state) ==
  IF state.runs = <<>> THEN state ELSE [values |-> DistinctKeys(state), runs |-> <<>>, bytes |-> Unmeasured]

AddKey(state, key) ==
  IF key \in AsSet(state).values THEN Measured("count_distinct", AsSet(state))
  ELSE Enforced("count_distinct", [Grown("count_distinct", AsSet(state)) EXCEPT !.values = @ \cup {key}])

IsBudgeted == call.maxBuffered # NoLimit \/ call.maxBytes # NoLimit

Folded(Step(_, _), state, xs) ==
  FoldLeft(LAMBDA s, x : IF s = Failed THEN s ELSE Step(s, x), state, xs)

AddKeys(state, keys) ==
  IF IsBudgeted THEN Folded(AddKey, state, SetToSeq(keys))
  ELSE [AsSet(state) EXCEPT !.values = @ \cup keys, !.bytes = Unmeasured]

AddRun(state, keys) ==
  IF IsBudgeted \/ Cardinality(keys) < RunLength THEN AddKeys(state, keys)
  ELSE [values |-> {}, bytes |-> Unmeasured,
        runs |-> state.runs \o (IF state.values = {} THEN <<>> ELSE <<state.values>>) \o <<keys>>]

(* A batch of strings becomes a run if it is long and its sample is diverse.  *)
AddStrings(state, xs) ==
  LET sample == Range(SubSeq(xs, 1, RunLength)) IN
  IF Len(xs) >= RunLength /\ 2 * Cardinality(sample) >= RunLength
  THEN AddRun(state, Range(xs)) ELSE AddKeys(state, Range(xs))

(* Counts per key, in the order the keys were first seen.                   *)
AddEntry(state, entry) ==
  LET known == {i \in DOMAIN state.values : state.values[i].key = entry.key} IN
  IF known # {}
  THEN Enforced("mode", [state EXCEPT !.values = [i \in DOMAIN @ |->
         IF i \in known THEN [@[i] EXCEPT !.count = @ + entry.count] ELSE @[i]]])
  ELSE Enforced("mode", [Grown("mode", state) EXCEPT !.values = Append(@, entry)])

Picked(op, state, x) == IF op # "last" /\ state.seen THEN state ELSE [seen |-> TRUE, value |-> x]

Add(op, state, x) ==
  CASE op \in {"first", "any", "last"} -> Picked(op, state, x)
    [] op = "count_rows" -> [state EXCEPT !.count = @ + 1]
    [] op # "count_rows" /\ x = Null -> state
    [] op \in Counters \ {"count_rows"} -> [count |-> state.count + 1, sum |-> state.sum + x.at]
    [] op \in {"min", "max"} -> AddExtreme(op, state, x)
    [] op = "median" -> AddBuffered(state, x)
    [] op = "count_distinct" -> AddKey(state, x)
    [] op = "mode" -> AddEntry(state, [key |-> x, count |-> 1])

(* A defect: the value of a partial is taken whether or not it saw a row. *)
MergePickedUnseen(op, state, partial) == Picked(op, state, partial.value)

MergePicked(op, state, partial) == IF partial.seen THEN Picked(op, state, partial.value) ELSE state

MergeState(op, state, partial) ==
  CASE op \in Counters -> [count |-> state.count + partial.count, sum |-> state.sum + partial.sum]
    [] op \in {"min", "max"} -> AddExtreme(op, state, partial.value)
    [] op \in {"first", "any", "last"} -> MergePicked(op, state, partial)
    [] op = "median" -> Folded(AddBuffered, state, partial.values)
    [] op = "mode" -> Folded(AddEntry, state, partial.values)
    [] op = "count_distinct" ->
         IF call.grouped THEN AddKeys(state, DistinctKeys(partial))
         ELSE IF DistinctKeys(partial) = {} THEN state ELSE AddRun(state, DistinctKeys(partial))

(* A snapshot has no bytes: they are counted anew where it becomes a state.   *)
Restored(op, partial) ==
  Enforced(op, CASE op \in {"median", "mode"} -> [partial EXCEPT !.bytes = Unmeasured]
                 [] op = "count_distinct" -> [values |-> DistinctKeys(partial), runs |-> <<>>, bytes |-> Unmeasured]
                 [] OTHER -> partial)

-----------------------------------------------------------------------------
(* GROUP BY: a state per key, in the order of the keys.  Without it there is  *)
(* one state from the start.                                                *)
TheTable == "table"
KeyOf(row) == IF call.grouped THEN row.k ELSE TheTable
Start(op) == IF call.grouped THEN <<>> ELSE <<[key |-> TheTable, state |-> Create(op)]>>

(* Bounded by the bytes of all groups; one group's budget is its state's.    *)
GroupsBytes(groups) ==
  FoldLeft(LAMBDA n, g : n + GroupBytes + (IF call.op \in Buffering THEN g.state.bytes ELSE 0), 0, groups)
HasFailed(groups) == \E g \in Range(groups) : g.state = Failed
TooMany == <<[key |-> TheTable, state |-> Failed]>>
Bounded(groups) ==
  IF ~HasFailed(groups) /\ call.grouped /\ Exceeds(GroupsBytes(groups), call.maxBytes) THEN TooMany ELSE groups

(* Applies an operator to the state of a key, or gives a new key a first one.  *)
AtKey(groups, key, Change(_), first) ==
  IF HasFailed(groups) THEN groups
  ELSE IF \E g \in Range(groups) : g.key = key
  THEN Bounded([i \in DOMAIN groups |-> IF groups[i].key = key THEN [key |-> key, state |-> Change(groups[i].state)] ELSE groups[i]])
  ELSE IF Exceeds(Len(groups) + 1, call.maxKeys) THEN TooMany
  ELSE Bounded(Append(groups, [key |-> key, state |-> first]))

AddRow(groups, row) ==
  LET Change(state) == Add(call.op, state, row.v) IN
  AtKey(groups, KeyOf(row), Change, Change(Create(call.op)))

NotNull(x) == x # Null
Update(groups, rows) ==
  LET strings == SelectSeq([i \in DOMAIN rows |-> rows[i].v], NotNull)
      Change(state) == AddStrings(state, strings) IN
  IF call.op = "count_distinct" /\ call.strings /\ ~IsBudgeted /\ ~call.grouped
  THEN AtKey(groups, TheTable, Change, Failed)
  ELSE FoldLeft(AddRow, groups, rows)

MergeGroup(groups, partial) ==
  LET Change(state) == MergeState(call.op, state, partial.state) IN
  AtKey(groups, partial.key, Change, Restored(call.op, partial.state))

Merge(groups, partial) == FoldLeft(MergeGroup, groups, partial)

(* The middle value, or the two whose mean it is.                           *)
Middle(sorted) ==
  IF sorted = <<>> THEN {} ELSE {sorted[(Len(sorted) + 1) \div 2], sorted[Len(sorted) \div 2 + 1]}

MostFrequent(entries) ==
  IF entries = <<>> THEN Null
  ELSE LET best == Max({e.count : e \in Range(entries)}) IN
       entries[Min({i \in DOMAIN entries : entries[i].count = best})].key

FinalizeState(op, state) ==
  CASE op \in {"count_rows", "count"} -> state.count
    [] op = "sum" -> state.sum
    [] op = "avg" -> IF state.count = 0 THEN Null ELSE <<state.sum, state.count>>
    [] op \in {"min", "max"} -> state.value
    [] op \in {"first", "any", "last"} -> IF state.seen THEN state.value ELSE Null
    [] op = "median" -> Middle(SortSeq(state.values, LAMBDA x, y : x.at < y.at))
    [] op = "count_distinct" -> Cardinality(DistinctKeys(state))
    [] op = "mode" -> MostFrequent(state.values)

Finalize(groups) == [i \in DOMAIN groups |-> <<groups[i].key, FinalizeState(call.op, groups[i].state)>>]

-----------------------------------------------------------------------------
(* The rows a unit adds to its state, batch by batch: a batch is the part of  *)
(* a group in a window, and a group that cannot match is passed over again.  *)
BatchesOf(unit) ==
  LET f == unit.file
      Batch(g, w) ==
        LET from == Max({StartOf(f)[g], w.from})
            to == Min({StartOf(f)[g + 1], w.to}) IN
        SubSeq(Group(f, g), from - StartOf(f)[g] + 1, to - StartOf(f)[g])
      IsRead(g, w) == StartOf(f)[g + 1] > w.from /\ StartOf(f)[g] < w.to /\ IsPlanned(f, g)
      InWindow(w) ==
        LET groups == InOrder({g \in DOMAIN call.table[f] : IsRead(g, w)}) IN
        [i \in DOMAIN groups |-> Selected(f, groups[i], Batch(groups[i], w))]
      windows == WindowsOf(unit) IN
  FlattenSeq([i \in DOMAIN windows |-> InWindow(windows[i])])

Partial(unit) ==
  FoldLeft(Update, Start(call.op), BatchesOf(unit))

-----------------------------------------------------------------------------
TasksInit ==
  /\ call \in Calls
  /\ phase = "plan"
  /\ units = <<>> /\ partials = <<>>
  /\ reduced = 0
  /\ merged = Start(call.op)

(* A row group of more rows than a unit may have is refused.                *)
IsRefused ==
  \E f \in DOMAIN call.table : \E g \in GroupsOf(TaskOf(f).ranges) : Exceeds(RowsOf(f)[g], call.maxRows)

IsSplit == call.maxGroups # NoLimit \/ call.maxRows # NoLimit

(* The work units of a call.                                                *)
Tasks == [f \in DOMAIN call.table |-> TaskOf(f)]
Parts == IF IsSplit THEN FlattenSeq([f \in DOMAIN Tasks |-> Split(Tasks[f])]) ELSE Tasks
WorkUnits == IF call.preserve THEN Parts ELSE Joined(Parts)

Plan ==
  /\ phase = "plan"
  /\ IF IsRefused
     THEN phase' = "refused" /\ UNCHANGED units
     ELSE phase' = "run" /\ units' = WorkUnits
  /\ UNCHANGED <<call, partials, reduced, merged>>

RunUnit(i) ==
  /\ phase = "run"
  /\ i \notin DOMAIN partials
  /\ partials' = (i :> Partial(units[i])) @@ partials
  /\ phase' = IF HasFailed(partials'[i]) THEN "failed" ELSE "run"
  /\ UNCHANGED <<call, units, reduced, merged>>

Reduce ==
  /\ phase = "run"
  /\ reduced + 1 \in DOMAIN partials
  /\ reduced' = reduced + 1
  /\ merged' = Merge(merged, partials[reduced + 1])
  /\ phase' = IF HasFailed(merged') THEN "failed" ELSE "run"
  /\ UNCHANGED <<call, units, partials>>

Finish ==
  /\ phase = "run"
  /\ reduced = Len(units)
  /\ phase' = "done"
  /\ UNCHANGED <<call, units, partials, reduced, merged>>

TasksNext == Plan \/ (\E i \in DOMAIN units : RunUnit(i)) \/ Reduce \/ Finish

TasksSpec == TasksInit /\ [][TasksNext]_tasksVars

-----------------------------------------------------------------------------
(* What the call asks for, row by row, in the order of the table.           *)
RowMatches(row) == call.expr = Everything \/ Matches(call.expr, row)
Answer == SelectSeq(FlattenSeq(FlattenSeq(call.table)), RowMatches)

FirstOf(xs) == IF xs = <<>> THEN Null ELSE Head(xs)
Occurrences(xs, x) == Cardinality({i \in DOMAIN xs : xs[i] = x})
AggregateOf(op, xs) ==
  LET ys == SelectSeq(xs, NotNull)
      sum == FoldLeft(LAMBDA n, y : n + y.at, 0, ys)
      IsMode(y) == \A z \in Range(ys) : Occurrences(ys, z) <= Occurrences(ys, y) IN
  CASE op = "count_rows" -> Len(xs)
    [] op = "count" -> Len(ys)
    [] op = "sum" -> sum
    [] op = "avg" -> IF ys = <<>> THEN Null ELSE <<sum, Len(ys)>>
    [] op = "min" -> FirstOf(SortSeq(ys, LAMBDA x, y : x.at < y.at))
    [] op = "max" -> FirstOf(SortSeq(ys, LAMBDA x, y : x.at > y.at))
    [] op \in {"first", "any"} -> FirstOf(xs)
    [] op = "last" -> FirstOf(Reverse(xs))
    [] op = "median" -> Middle(SortSeq(ys, LAMBDA x, y : x.at < y.at))
    [] op = "count_distinct" -> Cardinality(Range(ys))
    [] op = "mode" -> FirstOf(SelectSeq(ys, IsMode))

(* The keys in the order of their first rows, and the values of each.        *)
Keys == IF call.grouped THEN FoldLeft(LAMBDA ks, row : IF row.k \in Range(ks) THEN ks ELSE Append(ks, row.k), <<>>, Answer)
        ELSE <<TheTable>>
ValuesAt(key) ==
  LET IsAt(row) == KeyOf(row) = key
      rows == SelectSeq(Answer, IsAt) IN
  [i \in DOMAIN rows |-> rows[i].v]

(* An aggregate is that of the rows that match, key by key, in the order of   *)
(* the table, however the table is split, whichever unit is done first, and   *)
(* whether the rows of a row group are filtered or taken whole.             *)
AggregateIsOfTheRows ==
  phase = "done" =>
    Finalize(merged) = [i \in DOMAIN Keys |-> <<Keys[i], AggregateOf(call.op, ValuesAt(Keys[i]))>>]

(* How many values the aggregate has to hold at a key.                       *)
HeldAt(key) ==
  LET ys == SelectSeq(ValuesAt(key), NotNull) IN
  CASE call.op = "median" -> Len(ys)
    [] call.op \in {"count_distinct", "mode"} -> Cardinality(Range(ys))
BytesAt(key) == IF call.op \in Buffering THEN ListBytes(HeldAt(key)) ELSE 0

IsOverBudget ==
  \/ Exceeds(Len(Keys), call.maxKeys)
  \/ call.op \in Buffering /\ \E key \in Range(Keys) :
       Exceeds(HeldAt(key), call.maxBuffered) \/ Exceeds(BytesAt(key), call.maxBytes)
  \/ call.grouped /\ Exceeds(FoldLeft(LAMBDA n, key : n + GroupBytes + BytesAt(key), 0, Keys), call.maxBytes)

(* A budget of keys, of buffered rows or of bytes is exceeded by what the      *)
(* aggregate of the whole table has to hold: never by how it was split, and   *)
(* never passed over because a state was restored from a partial, whose bytes *)
(* nobody has counted.                                                      *)
BudgetIsOfTheRows == (phase = "failed" => IsOverBudget) /\ (phase = "done" => ~IsOverBudget)

(* A unit stays within the limits of the split, and every row that matches is *)
(* in exactly one window of one unit.                                       *)
IsWithinLimits(unit) ==
  LET groups == GroupsOf(unit.ranges) IN
  /\ ~Exceeds(Cardinality(groups), call.maxGroups)
  /\ ~Exceeds(MapThenSumSet(LAMBDA g : RowsOf(unit.file)[g], groups), call.maxRows)

WindowsAt(f, at) ==
  {w \in UNION {{n} \X DOMAIN WindowsOf(units[n]) : n \in DOMAIN units} :
     LET window == WindowsOf(units[w[1]])[w[2]] IN
     units[w[1]].file = f /\ window.from <= at /\ at < window.to}

UnitsCoverOnce ==
  phase \in {"run", "done"} =>
    /\ call.preserve /\ IsSplit => \A n \in DOMAIN units : IsWithinLimits(units[n])
    /\ \A f \in DOMAIN call.table : \A g \in DOMAIN call.table[f] : \A i \in DOMAIN Group(f, g) :
         RowMatches(Group(f, g)[i]) => Cardinality(WindowsAt(f, StartOf(f)[g] + i - 1)) = 1
=============================================================================
