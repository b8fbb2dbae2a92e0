-------------------------------- MODULE Windows --------------------------------
(***************************************************************************)
(* Window functions (core/src/window-*.ts): rows are sorted by partition and *)
(* order keys, and each row gets a value computed from its partition or from *)
(* a frame of it.  A row is a record; a value of a row is an integer or Null.*)
(*                                                                         *)
(* A window names its function and the columns it is over:                  *)
(*   [alias, fn, column, n, default, ignoreNulls, distinct, filter,          *)
(*    partitionBy, orderBy, frame]                                          *)
(* where n is the literal argument of ntile, lag, lead and nth_value, filter  *)
(* the values of the column that pass, orderBy a list of [column, direction, *)
(* nulls], and frame is NoFrame or [mode, start, end, exclude] with bounds    *)
(* [kind, offset].                                                         *)
(***************************************************************************)
EXTENDS Integers, SequencesExt, FiniteSetsExt

CONSTANTS
  Null,   \* the value that is none
  Error,  \* what a window that cannot be evaluated makes of a query
  NoFrame \* the frame of a window that names none

-----------------------------------------------------------------------------
(* The order of values under a term, and of lists of them under a list.      *)
Before(x, y, term) ==
  \/ x = Null /\ y # Null /\ term.nulls = "first"
  \/ x # Null /\ y = Null /\ term.nulls = "last"
  \/ Null \notin {x, y} /\ IF term.direction = "asc" THEN x < y ELSE x > y

KeyBefore(xs, ys, terms) ==
  \E i \in DOMAIN xs : Before(xs[i], ys[i], terms[i]) /\ \A j \in 1..(i - 1) : xs[j] = ys[j]

ByDefault(xs) == [i \in DOMAIN xs |-> [direction |-> "asc", nulls |-> "last"]]

(* The rows of a run with their keys; index is the row's place in the run.   *)
WindowRows(run, rows, w) ==
  [i \in DOMAIN rows |->
     [row |-> rows[i], run |-> run, index |-> i,
      partition |-> [c \in DOMAIN w.partitionBy |-> rows[i][w.partitionBy[c]]],
      order |-> [c \in DOMAIN w.orderBy |-> rows[i][w.orderBy[c].column]]]]

SameKeys(l, r) == l.partition = r.partition /\ l.order = r.order

Precedes(l, r, terms) ==
  \/ KeyBefore(l.partition, r.partition, ByDefault(l.partition))
  \/ l.partition = r.partition /\ KeyBefore(l.order, r.order, terms)
  \/ SameKeys(l, r) /\ l.index < r.index

(* Sorted runs are merged by the same comparison: the first run goes first    *)
(* among rows that tie in everything, their place in their runs included.    *)
Merged(runs, w) ==
  SortSeq(FlattenSeq([n \in DOMAIN runs |-> WindowRows(n, runs[n], w)]),
          LAMBDA l, r : Precedes(l, r, w.orderBy) \/ (SameKeys(l, r) /\ l.index = r.index /\ l.run < r.run))

(* The maximal stretches of equal keys, as sets of places.                   *)
Stretches(keys) ==
  LET start(i) == Max({j \in 1..i : j = 1 \/ keys[j - 1] # keys[j]}) IN
  {{i \in DOMAIN keys : start(i) = j} : j \in {start(i) : i \in DOMAIN keys}}

Partitions(rows) ==
  LET stretches == SetToSortSeq(Stretches([i \in DOMAIN rows |-> rows[i].partition]), LAMBDA s, t : Min(s) < Min(t)) IN
  [n \in DOMAIN stretches |-> SubSeq(rows, Min(stretches[n]), Max(stretches[n]))]

-----------------------------------------------------------------------------
(* Windows over the same partitions share a sort if one's order is a prefix   *)
(* of the other's: the longest is sorted by, and serves the others.         *)
Compatible(w, x) ==
  w.partitionBy = x.partitionBy /\ (IsPrefix(w.orderBy, x.orderBy) \/ IsPrefix(x.orderBy, w.orderBy))

(* The windows that are sorted by, in the order their groups are made.        *)
SortWindows(windows) ==
  LET longer == SortSeq([i \in DOMAIN windows |-> <<i, windows[i]>>],
                  LAMBDA a, b : \/ Len(a[2].orderBy) > Len(b[2].orderBy)
                                \/ Len(a[2].orderBy) = Len(b[2].orderBy) /\ a[1] < b[1])
      Add(sorts, entry) ==
        IF \E s \in ToSet(sorts) : Compatible(s, entry[2]) THEN sorts ELSE Append(sorts, entry[2]) IN
  FoldLeft(Add, <<>>, longer)

SortOf(sorts, w) == sorts[Min({i \in DOMAIN sorts : Compatible(sorts[i], w)})]

(* A defect: the rows keep the places the longer order gave them. *)
RowsForExprUnstable(sorted, w, sort) ==
  [i \in DOMAIN sorted |-> [sorted[i] EXCEPT !.order = SubSeq(@, 1, Len(w.orderBy))]]

(* The rows sorted for another window, with this one's keys: its peers go      *)
(* back to the order of their places.                                       *)
RowsForExpr(sorted, w, sort) ==
  LET keyed == [i \in DOMAIN sorted |-> [sorted[i] EXCEPT !.order = SubSeq(@, 1, Len(w.orderBy))]]
      peers == Stretches([i \in DOMAIN keyed |-> <<keyed[i].partition, keyed[i].order>>])
      Stable(l, r) ==
        LET s == CHOOSE p \in peers : l \in p
            t == CHOOSE p \in peers : r \in p IN
        IF s # t THEN Min(s) < Min(t)
        ELSE keyed[l].index < keyed[r].index \/ (keyed[l].index = keyed[r].index /\ l < r) IN
  IF Len(w.orderBy) = Len(sort.orderBy) THEN keyed
  ELSE LET places == SortSeq([i \in DOMAIN keyed |-> i], Stable) IN [i \in DOMAIN keyed |-> keyed[places[i]]]

-----------------------------------------------------------------------------
(* Frames.  A span [from, to] holds no row if from > to.                     *)
EffectiveFrame(w) ==
  LET From(mode, end) ==
        [mode |-> mode, start |-> [kind |-> "unbounded-preceding", offset |-> 0], end |-> [kind |-> end, offset |-> 0],
         exclude |-> "no-others"] IN
  CASE w.frame # NoFrame -> w.frame
    [] w.frame = NoFrame /\ w.orderBy = <<>> -> From("rows", "unbounded-following")
    [] OTHER -> From("range", "current-row")

PeerSpan(part, i) ==
  [from |-> Min({j \in 1..i : \A m \in j..i : part[m].order = part[i].order}),
   to |-> Max({j \in i..Len(part) : \A m \in i..j : part[m].order = part[i].order})]
PeerGroups(part) ==
  SetToSortSeq({PeerSpan(part, i) : i \in DOMAIN part}, LAMBDA g, h : g.from < h.from)

Clamp(x, least, most) == Max({least, Min({most, x})})
Nothing == [from |-> 1, to |-> 0]
Normalized(part, span) == [from |-> Clamp(span.from, 1, Len(part) + 1), to |-> Clamp(span.to, 0, Len(part))]

(* Where a bound is, for the row or the group at a place of so many.          *)
BoundAt(count, place, bound) ==
  CASE bound.kind = "unbounded-preceding" -> 1
    [] bound.kind = "unbounded-following" -> count
    [] bound.kind = "current-row" -> place
    [] bound.kind = "preceding" -> place - bound.offset
    [] bound.kind = "following" -> place + bound.offset

RowsSpan(part, i, frame) ==
  Normalized(part, [from |-> BoundAt(Len(part), i, frame.start), to |-> BoundAt(Len(part), i, frame.end)])

GroupOf(groups, i) == CHOOSE g \in DOMAIN groups : i \in groups[g].from..groups[g].to
SpanOfGroups(groups, first, last) ==
  IF last < 1 \/ first > Len(groups) THEN Nothing
  ELSE [from |-> groups[Clamp(first, 1, Len(groups))].from, to |-> groups[Clamp(last, 1, Len(groups))].to]
GroupsSpan(groups, i, frame) ==
  SpanOfGroups(groups, BoundAt(Len(groups), GroupOf(groups, i), frame.start), BoundAt(Len(groups), GroupOf(groups, i), frame.end))

RangeSpan(part, peers, frame) ==
  Normalized(part, [from |-> BoundAt(Len(part), peers.from, frame.start), to |-> BoundAt(Len(part), peers.to, frame.end)])

(* RANGE with an offset goes by the distance of the key, which is turned      *)
(* around when it descends.                                                *)
RangePoint(windowRow, w) == IF w.orderBy[1].direction = "asc" THEN windowRow.order[1] ELSE -windowRow.order[1]
RangeBound(points, point, bound) ==
  CASE bound.kind = "unbounded-preceding" -> Min(points) - 1
    [] bound.kind = "unbounded-following" -> Max(points) + 1
    [] bound.kind = "current-row" -> point
    [] bound.kind = "preceding" -> point - bound.offset
    [] bound.kind = "following" -> point + bound.offset
SpanOfPoints(point, least, most) ==
  [from |-> 1 + Cardinality({j \in DOMAIN point : point[j] < least}),
   to |-> Cardinality({j \in DOMAIN point : point[j] < least \/ point[j] <= most})]
RangeOffsetSpan(point, i, frame) ==
  SpanOfPoints(point, RangeBound(Range(point), point[i], frame.start), RangeBound(Range(point), point[i], frame.end))

HasDistance(frame) == frame.mode = "range" /\ {frame.start.kind, frame.end.kind} \cap {"preceding", "following"} # {}

(* A key that is no number, or more than one, has no distance.               *)
Unframeable(part, w) ==
  /\ w.fn \notin {"row_number", "rank", "dense_rank", "percent_rank", "cume_dist", "ntile", "lag", "lead"}
  /\ HasDistance(EffectiveFrame(w))
  /\ Len(w.orderBy) # 1 \/ \E r \in ToSet(part) : r.order[1] = Null

SpanOf(part, i, w, frame) ==
  CASE frame.mode = "rows" -> RowsSpan(part, i, frame)
    [] frame.mode = "groups" -> GroupsSpan(PeerGroups(part), i, frame)
    [] HasDistance(frame) -> RangeOffsetSpan([j \in DOMAIN part |-> RangePoint(part[j], w)], i, frame)
    [] frame.mode = "range" /\ ~HasDistance(frame) -> RangeSpan(part, PeerSpan(part, i), frame)

FrameSpan(part, i, w) == SpanOf(part, i, w, EffectiveFrame(w))

Excluded(peers, i, exclude) ==
  CASE exclude = "no-others" -> {}
    [] exclude = "current-row" -> {i}
    [] exclude = "group" -> peers.from..peers.to
    [] exclude = "ties" -> (peers.from..peers.to) \ {i}

RowsAt(part, places) ==
  LET list == SetToSortSeq(places, <) IN [n \in DOMAIN list |-> part[list[n]].row]

Places(span) == span.from..span.to
FrameRows(part, i, w) ==
  RowsAt(part, Places(FrameSpan(part, i, w)) \ Excluded(PeerSpan(part, i), i, EffectiveFrame(w).exclude))

-----------------------------------------------------------------------------
(* Aggregates over the rows of a frame: those that pass the filter and are    *)
(* not null, a value once if it is to be distinct.                          *)
Inputs(rows, w) ==
  LET Add(xs, row) ==
        IF \/ row[w.column] = Null \/ row[w.column] \notin w.filter
           \/ (w.distinct \/ w.fn = "count_distinct") /\ row[w.column] \in ToSet(xs)
        THEN xs ELSE Append(xs, row[w.column]) IN
  FoldLeft(Add, <<>>, rows)

Sum(xs) == FoldLeft(LAMBDA n, x : n + x, 0, xs)
MiddleOf(xs) ==
  LET sorted == SortSeq(xs, <) IN {sorted[(Len(xs) + 1) \div 2], sorted[Len(xs) \div 2 + 1]}
Count(xs, x) == Cardinality({i \in DOMAIN xs : xs[i] = x})
ModeOf(xs) == Min({x \in ToSet(xs) : \A y \in ToSet(xs) : Count(xs, y) <= Count(xs, x)})

SegmentOps == {"count", "sum", "avg", "min", "max"}
AggregateOps == SegmentOps \cup {"first", "last", "median", "mode", "count_distinct"}

AggregateValue(op, xs) ==
  CASE op \in {"count", "count_distinct"} -> Len(xs)
    [] op \notin {"count", "count_distinct"} /\ xs = <<>> -> Null
    [] op = "sum" -> Sum(xs)
    [] op = "avg" -> <<Sum(xs), Len(xs)>>
    [] op = "min" -> Min(ToSet(xs))
    [] op = "max" -> Max(ToSet(xs))
    [] op = "first" -> Head(xs)
    [] op = "last" -> Last(xs)
    [] op = "median" -> MiddleOf(xs)
    [] op = "mode" -> ModeOf(xs)

(* The segment tree: a node of a power of two of leaves sums up its children. *)
EmptyNode == [count |-> 0, sum |-> 0, min |-> Null, max |-> Null]
LeafNode(row, w) ==
  LET x == row[w.column] IN
  IF x = Null \/ x \notin w.filter THEN EmptyNode ELSE [count |-> 1, sum |-> x, min |-> x, max |-> x]

MergeNodes(l, r) ==
  CASE l.count = 0 -> r
    [] l.count # 0 /\ r.count = 0 -> l
    [] OTHER -> [count |-> l.count + r.count, sum |-> l.sum + r.sum, min |-> Min({l.min, r.min}), max |-> Max({l.max, r.max})]

SizeFor(n) == CHOOSE p \in {2 ^ e : e \in 0..n} : p >= n /\ (p = 1 \/ p \div 2 < n)

SegmentTree(leaves) ==
  LET size == SizeFor(Len(leaves))
      node[k \in 1..(2 * size - 1)] ==
        CASE k < size -> MergeNodes(node[2 * k], node[2 * k + 1])
          [] k >= size /\ k - size < Len(leaves) -> leaves[k - size + 1]
          [] OTHER -> EmptyNode IN
  node

(* From the leaves up, an odd end is taken as it is.                        *)
QueryTree(tree, span) ==
  LET size == (Cardinality(DOMAIN tree) + 1) \div 2
      over[l \in 0..(2 * size), r \in 0..(2 * size)] ==
        IF l >= r THEN EmptyNode
        ELSE MergeNodes(IF l % 2 = 1 THEN tree[l] ELSE EmptyNode,
                        MergeNodes(over[(l + 1) \div 2, r \div 2], IF r % 2 = 1 THEN tree[r - 1] ELSE EmptyNode)) IN
  over[span.from - 1 + size, span.to + size]

NodeValue(op, node) ==
  CASE op = "count" -> node.count
    [] op # "count" /\ node.count = 0 -> Null
    [] op = "sum" -> node.sum
    [] op = "avg" -> <<node.sum, node.count>>
    [] op = "min" -> node.min
    [] op = "max" -> node.max

UsesTree(w) == w.fn \in SegmentOps /\ ~w.distinct /\ EffectiveFrame(w).exclude = "no-others"

AggregateValues(part, w) ==
  IF UsesTree(w)
  THEN LET tree == SegmentTree([i \in DOMAIN part |-> LeafNode(part[i].row, w)]) IN
       [i \in DOMAIN part |-> NodeValue(w.fn, QueryTree(tree, FrameSpan(part, i, w)))]
  ELSE [i \in DOMAIN part |-> AggregateValue(w.fn, Inputs(FrameRows(part, i, w), w))]

-----------------------------------------------------------------------------
(* The other functions.                                                    *)
Respected(rows, w) == IF w.ignoreNulls THEN SelectSeq(rows, LAMBDA row : row[w.column] # Null) ELSE rows
ValueAt(rows, n, w) == IF n \in DOMAIN rows THEN rows[n][w.column] ELSE Null

(* The first n % buckets of them hold one row more than the others.          *)
Ntile(n, buckets, i) ==
  LET base == n \div buckets
      extra == n % buckets IN
  IF i - 1 < (base + 1) * extra THEN ((i - 1) \div (base + 1)) + 1
  ELSE extra + ((i - 1 - (base + 1) * extra) \div base) + 1

(* The row that is so many rows away, rows with a null passed over if so asked.*)
Offset(part, i, w, step) ==
  LET Counts(j) == ~w.ignoreNulls \/ part[j].row[w.column] # Null
      passed(j) == {m \in DOMAIN part : Counts(m) /\ IF step = 1 THEN m \in (i + 1)..j ELSE m \in j..(i - 1)}
      targets == {j \in DOMAIN part : (j - i) * step > 0 /\ Counts(j) /\ Cardinality(passed(j)) = w.n} IN
  CASE w.n = 0 -> part[i].row[w.column]
    [] w.n > 0 /\ targets # {} -> part[CHOOSE j \in targets : TRUE].row[w.column]
    [] OTHER -> w.default

FrameValue(rows, w) ==
  CASE w.fn = "first_value" -> ValueAt(rows, 1, w)
    [] w.fn = "last_value" -> ValueAt(rows, Len(rows), w)
    [] w.fn = "nth_value" -> ValueAt(rows, w.n, w)

PlaceValue(part, i, w, peers) ==
  CASE w.fn = "row_number" -> i
    [] w.fn = "rank" -> peers.from
    [] w.fn = "dense_rank" -> GroupOf(PeerGroups(part), i)
    [] w.fn = "percent_rank" -> IF Len(part) <= 1 THEN <<0, 1>> ELSE <<peers.from - 1, Len(part) - 1>>
    [] w.fn = "cume_dist" -> <<peers.to, Len(part)>>
    [] w.fn = "ntile" -> Ntile(Len(part), w.n, i)
    [] w.fn = "lag" -> Offset(part, i, w, -1)
    [] w.fn = "lead" -> Offset(part, i, w, 1)

EvaluatePartition(part, w) ==
  CASE w.fn \in AggregateOps -> AggregateValues(part, w)
    [] w.fn \in {"first_value", "last_value", "nth_value"} ->
         [i \in DOMAIN part |-> FrameValue(Respected(FrameRows(part, i, w), w), w)]
    [] OTHER -> [i \in DOMAIN part |-> PlaceValue(part, i, w, PeerSpan(part, i))]

(* The values of a window, with where their rows came from, or an error: a      *)
(* frame that cannot be, or a partition of more rows than are allowed.       *)
PartitionAnswers(part, values) == {[run |-> part[i].run, index |-> part[i].index, value |-> values[i]] : i \in DOMAIN part}

WindowOnPartitions(parts, w, maxPartition) ==
  IF \E part \in ToSet(parts) : Unframeable(part, w) \/ (maxPartition > 0 /\ Len(part) > maxPartition) THEN Error
  ELSE UNION {PartitionAnswers(part, EvaluatePartition(part, w)) : part \in ToSet(parts)}

WindowOnRuns(runs, w, sort, maxPartition) ==
  WindowOnPartitions(Partitions(RowsForExpr(Merged(runs, sort), w, sort)), w, maxPartition)

(* The rows of the runs, one after another, with the values of the windows.   *)
WithValues(runs, values) ==
  LET Value(n, r, i) == (CHOOSE v \in values[n] : v.run = r /\ v.index = i).value
      Out(r) == [i \in DOMAIN runs[r] |-> [row |-> runs[r][i], values |-> [n \in DOMAIN values |-> Value(n, r, i)]]] IN
  IF Error \in ToSet(values) THEN Error ELSE FlattenSeq([r \in DOMAIN runs |-> Out(r)])

ApplyWindowsToRuns(runs, windows, maxPartition) ==
  WithValues(runs, [n \in DOMAIN windows |-> WindowOnRuns(runs, windows[n], SortOf(SortWindows(windows), windows[n]), maxPartition)])

ApplyWindowsToRows(rows, windows, maxPartition) == ApplyWindowsToRuns(<<rows>>, windows, maxPartition)

-----------------------------------------------------------------------------
(* Windows over the tasks of a table: if all windows have one PARTITION BY,    *)
(* the tasks' rows are spread over buckets by their partition, each bucket    *)
(* evaluated in the order of the table, and the rows put back in that order. *)
TasksAvailable(windows) ==
  LET specs == {w.partitionBy : w \in ToSet(windows)} IN Cardinality(specs) = 1 /\ <<>> \notin specs

BucketKey(row, windows) == [n \in DOMAIN windows |-> [c \in DOMAIN windows[n].partitionBy |-> row[windows[n].partitionBy[c]]]]
BucketKeys(tasks, windows) == UNION {{BucketKey(row, windows) : row \in ToSet(task)} : task \in ToSet(tasks)}

RowAt(tasks, at) == tasks[at[1]][at[2]]
Earlier(a, b) == a[1] < b[1] \/ (a[1] = b[1] /\ a[2] < b[2])
Ordinals(tasks) == UNION {{<<t, i>> : i \in DOMAIN tasks[t]} : t \in DOMAIN tasks}
Bucket(tasks, windows, bucketOf, b) ==
  SetToSortSeq({at \in Ordinals(tasks) : bucketOf[BucketKey(RowAt(tasks, at), windows)] = b}, Earlier)

(* The answers of the buckets, with the places of their rows.                *)
FromBuckets(tasks, buckets, answers) ==
  LET all == SetToSortSeq(Ordinals(tasks), Earlier)
      Of(at) == CHOOSE x \in UNION {{<<b, i>> : i \in DOMAIN buckets[b]} : b \in DOMAIN buckets} : buckets[x[1]][x[2]] = at
      Answer(x) == answers[x[1]][x[2]] IN
  IF \E b \in DOMAIN answers : answers[b] = Error THEN Error ELSE [i \in DOMAIN all |-> Answer(Of(all[i]))]

EvaluateTasks(tasks, windows, bucketOf) ==
  LET buckets == [b \in {bucketOf[key] : key \in DOMAIN bucketOf} |-> Bucket(tasks, windows, bucketOf, b)]
      RowsIn(b) == [i \in DOMAIN buckets[b] |-> RowAt(tasks, buckets[b][i])] IN
  FromBuckets(tasks, buckets, [b \in DOMAIN buckets |-> ApplyWindowsToRows(RowsIn(b), windows, 0)])

-----------------------------------------------------------------------------
(* What a window means, said of the row at place i of all rows: its partition  *)
(* are the rows with its partition keys, ordered by the order keys and, where *)
(* these are equal, by tie.                                                *)
PartitionOf(row, w) == [c \in DOMAIN w.partitionBy |-> row[w.partitionBy[c]]]
OrderOf(row, w) == [c \in DOMAIN w.orderBy |-> row[w.orderBy[c].column]]

PartitionAt(rows, w, tie, i) ==
  LET Under(l, r) == KeyBefore(l.key, r.key, w.orderBy) \/ (l.key = r.key /\ tie[l.place] < tie[r.place]) IN
  SetToSortSeq({[place |-> j, row |-> rows[j], key |-> OrderOf(rows[j], w)] :
                  j \in {k \in DOMAIN rows : PartitionOf(rows[k], w) = PartitionOf(rows[i], w)}}, Under)

Less(part, w, p, q) == KeyBefore(part[p].key, part[q].key, w.orderBy)
Lesser(part, w, p) == {q \in DOMAIN part : Less(part, w, q, p)}
GroupNumber(part, w, p) == Cardinality({part[q].key : q \in Lesser(part, w, p)})

(* How far a row is from this one: in rows, in key, or in groups of peers.     *)
Away(part, w, frame, here, p) ==
  CASE frame.mode = "rows" -> p - here
    [] HasDistance(frame) /\ w.orderBy[1].direction = "asc" -> part[p].key[1] - part[here].key[1]
    [] HasDistance(frame) /\ w.orderBy[1].direction = "desc" -> part[here].key[1] - part[p].key[1]
    [] OTHER -> GroupNumber(part, w, p) - GroupNumber(part, w, here)

Distance(bound) == CASE bound.kind = "preceding" -> -bound.offset [] bound.kind = "following" -> bound.offset [] OTHER -> 0
InFrame(frame, away) ==
  /\ frame.start.kind = "unbounded-preceding" \/ away >= Distance(frame.start)
  /\ frame.end.kind = "unbounded-following" \/ away <= Distance(frame.end)

Stays(exclude, isRow, isTied) ==
  CASE exclude = "no-others" -> TRUE
    [] exclude = "current-row" -> ~isRow
    [] exclude = "group" -> ~isTied
    [] exclude = "ties" -> isRow \/ ~isTied

FrameAt(part, w, frame, here) ==
  RowsAt(part, {p \in DOMAIN part : InFrame(frame, Away(part, w, frame, here, p))
                                    /\ Stays(frame.exclude, p = here, part[p].key = part[here].key)})

(* The row that is m rows away among those that count.                      *)
Near(rows, w, row, m) == IF w.n = 0 THEN row[w.column] ELSE IF m \in DOMAIN rows THEN rows[m][w.column] ELSE w.default

MeaningIn(part, w, here) ==
  LET n == Len(part)
      Beside(places) == Respected(RowsAt(part, places), w) IN
  CASE w.fn = "row_number" -> here
    [] w.fn = "rank" -> 1 + Cardinality(Lesser(part, w, here))
    [] w.fn = "dense_rank" -> 1 + GroupNumber(part, w, here)
    [] w.fn = "percent_rank" -> IF n = 1 THEN <<0, 1>> ELSE <<Cardinality(Lesser(part, w, here)), n - 1>>
    [] w.fn = "cume_dist" -> <<Cardinality({p \in 1..n : ~Less(part, w, here, p)}), n>>
    [] w.fn = "ntile" -> Min({b \in 1..w.n : b * (n \div w.n) + Min({b, n % w.n}) >= here})
    [] w.fn = "lag" -> Near(Reverse(Beside(1..(here - 1))), w, part[here].row, w.n)
    [] w.fn = "lead" -> Near(Beside((here + 1)..n), w, part[here].row, w.n)
    [] w.fn \in {"first_value", "last_value", "nth_value"} ->
         FrameValue(Respected(FrameAt(part, w, EffectiveFrame(w), here), w), w)
    [] w.fn \in AggregateOps -> AggregateValue(w.fn, Inputs(FrameAt(part, w, EffectiveFrame(w), here), w))

Meaning(rows, w, tie, i) ==
  LET part == PartitionAt(rows, w, tie, i) IN MeaningIn(part, w, CHOOSE p \in DOMAIN part : part[p].place = i)

(* Whether a window cannot be evaluated on rows.                             *)
IsMeaningless(rows, w, maxPartition) ==
  \E i \in DOMAIN rows :
    LET part == {row \in ToSet(rows) : PartitionOf(row, w) = PartitionOf(rows[i], w)} IN
    \/ maxPartition > 0 /\ Cardinality(part) > maxPartition
    \/ /\ w.fn \in AggregateOps \cup {"first_value", "last_value", "nth_value"}
       /\ HasDistance(EffectiveFrame(w))
       /\ Len(w.orderBy) # 1 \/ Null \in {OrderOf(row, w)[1] : row \in part}
=============================================================================
