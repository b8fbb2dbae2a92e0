----------------------------- MODULE OperatorState -----------------------------
(***************************************************************************)
(* Queries over slices of a table that carry their operator's state from one *)
(* call to the next (core/src/query.ts: topKWithState, sortWithState,         *)
(* aggregateWithState; core/src/window-runner.ts: windowWithState).  A call    *)
(* restores the state of the slices before, adds the rows of its slice,       *)
(* answers for all of them, and writes the new state: with a spill adapter,   *)
(* sorted or window runs one by one, then the state that refers to them.      *)
(*                                                                         *)
(* The caller keeps the last state it was given, as bytes or as a reference.  *)
(* A call may be lost at any of its steps, its caller then makes it again; or  *)
(* it may only seem lost, and go on beside the call that replaces it.        *)
(***************************************************************************)
EXTENDS Windows

(* A plan is what is asked of which slices, and how:                        *)
(*   requests, slices  what each call may ask; the rows of the slices        *)
(*   capacity          maxBufferedRows; maxPartition maxWindowPartitionRows   *)
(*   spill, maxSpill   whether there is a spill adapter, and what it may hold *)
(*   ids, holds        whether calls share a spill id; what the caller keeps  *)
(*   retries, buckets  how many calls may be lost; buckets of window tasks    *)
CONSTANTS Plans

VARIABLES
  plan,    \* one of Plans
  spill,   \* the entries of the spill adapter
  calls,   \* the calls so far
  current, \* the call its caller waits for, or NoCall
  slice,   \* how many slices the caller has answers for
  handle,  \* the state the caller was given with the last of them
  answer   \* that last answer, or the failure after it

vars == <<plan, spill, calls, current, slice, handle, answer>>

NoCall == 0
Unlimited == 0
Exceeds(n, limit) == limit # Unlimited /\ n > limit
NoHandle == [kind |-> "none"]
NoAnswer == [request |-> [op |-> "none"], slice |-> 0, rows |-> <<>>]

Page(rows, request) ==
  SubSeq(rows, request.offset + 1, IF request.limit = Unlimited THEN Len(rows) ELSE Min({Len(rows), request.offset + request.limit}))

RowBefore(terms, l, r) ==
  KeyBefore([i \in DOMAIN terms |-> l[terms[i].column]], [i \in DOMAIN terms |-> r[terms[i].column]], terms)

Sorted(rows, terms) ==
  LET places == SortSeq([i \in DOMAIN rows |-> i],
                  LAMBDA i, j : RowBefore(terms, rows[i], rows[j]) \/ (~RowBefore(terms, rows[j], rows[i]) /\ i < j)) IN
  [i \in DOMAIN rows |-> rows[places[i]]]

-----------------------------------------------------------------------------
(* Top k: a row takes the place of the first of the worst rows.             *)
AddOrderedMatch(kept, row, terms, k) ==
  LET worst == Min({i \in DOMAIN kept : \A j \in DOMAIN kept : ~RowBefore(terms, kept[i], kept[j])}) IN
  CASE k = 0 -> kept
    [] k > 0 /\ Len(kept) < k -> Append(kept, row)
    [] OTHER -> IF RowBefore(terms, row, kept[worst]) THEN [kept EXCEPT ![worst] = row] ELSE kept

-----------------------------------------------------------------------------
(* Sort: runs of at most so many rows, each sorted, merged through a heap.    *)
Chunks(rows, capacity) ==
  IF capacity = Unlimited THEN IF rows = <<>> THEN <<>> ELSE <<rows>>
  ELSE [n \in 1..((Len(rows) + capacity - 1) \div capacity) |->
          SubSeq(rows, (n - 1) * capacity + 1, Min({Len(rows), n * capacity}))]

SortRuns(rows, terms, capacity) ==
  LET chunks == Chunks(rows, capacity) IN [n \in DOMAIN chunks |-> Sorted(chunks[n], terms)]

Swap(heap, i, j) == [heap EXCEPT ![i] = heap[j], ![j] = heap[i]]

RECURSIVE SiftUp(_, _, _)
SiftUp(heap, i, terms) ==
  IF i = 1 \/ ~RowBefore(terms, heap[i].row, heap[i \div 2].row) THEN heap
  ELSE SiftUp(Swap(heap, i, i \div 2), i \div 2, terms)

RECURSIVE SiftDown(_, _, _)
SiftDown(heap, i, terms) ==
  LET Smaller(a, b) == IF b \in DOMAIN heap /\ RowBefore(terms, heap[b].row, heap[a].row) THEN b ELSE a
      least == Smaller(Smaller(i, 2 * i), 2 * i + 1) IN
  IF least = i THEN heap ELSE SiftDown(Swap(heap, i, least), least, terms)

HeapPush(heap, item, terms) == SiftUp(Append(heap, item), Len(heap) + 1, terms)
HeapPop(heap, terms) ==
  IF Len(heap) = 1 THEN <<>> ELSE SiftDown([Front(heap) EXCEPT ![1] = Last(heap)], 1, terms)

(* The least head leaves the heap, and the next row of its run enters.        *)
MergeSortRuns(runs, terms) ==
  LET Enter(heap, r, i) == IF i \in DOMAIN runs[r] THEN HeapPush(heap, [run |-> r, at |-> i, row |-> runs[r][i]], terms) ELSE heap
      Step(merge, n) ==
        LET head == merge.heap[1] IN
        [heap |-> Enter(HeapPop(merge.heap, terms), head.run, head.at + 1), out |-> Append(merge.out, head.row)]
      heads == FoldLeft(LAMBDA heap, r : Enter(heap, r, 1), <<>>, [r \in DOMAIN runs |-> r]) IN
  FoldLeft(Step, [heap |-> heads, out |-> <<>>], [n \in 1..Len(FlattenSeq(runs)) |-> n]).out

-----------------------------------------------------------------------------
(* Aggregates, row by row, in a state per group.                            *)
Listing == {"median", "mode", "count_distinct"}
EmptyState(fn) ==
  CASE fn \in {"count", "sum", "avg"} -> [sum |-> 0, count |-> 0]
    [] fn \in {"min", "max"} -> [value |-> Null]
    [] fn \in {"first", "last"} -> [value |-> Null, seen |-> FALSE]
    [] fn \in {"median", "mode"} -> [values |-> <<>>]
    [] fn = "count_distinct" -> [values |-> {}]

AddValue(fn, state, x) ==
  CASE fn = "last" \/ (fn = "first" /\ ~state.seen) -> [value |-> x, seen |-> TRUE]
    [] (fn = "first" /\ state.seen) \/ (fn # "last" /\ x = Null) -> state
    [] fn \in {"count", "sum", "avg"} /\ x # Null -> [sum |-> state.sum + x, count |-> state.count + 1]
    [] fn \in {"min", "max"} /\ x # Null ->
         IF state.value = Null \/ (IF fn = "min" THEN x < state.value ELSE x > state.value) THEN [value |-> x] ELSE state
    [] fn = "count_distinct" /\ x # Null -> [values |-> state.values \cup {x}]
    [] fn = "median" /\ x # Null -> [values |-> Append(state.values, x)]
    [] fn = "mode" /\ x # Null ->
         IF \E i \in DOMAIN state.values : state.values[i].value = x
         THEN [values |-> [i \in DOMAIN state.values |->
                 IF state.values[i].value = x THEN [state.values[i] EXCEPT !.count = @ + 1] ELSE state.values[i]]]
         ELSE [values |-> Append(state.values, [value |-> x, count |-> 1])]

Finish(fn, state) ==
  CASE fn = "count" -> state.count
    [] fn = "sum" -> state.sum
    [] fn = "avg" -> IF state.count = 0 THEN Null ELSE <<state.sum, state.count>>
    [] fn \in {"min", "max", "first", "last"} -> state.value
    [] fn = "count_distinct" -> Cardinality(state.values)
    [] fn = "median" -> IF state.values = <<>> THEN Null ELSE MiddleOf(state.values)
    [] fn = "mode" ->
         IF state.values = <<>> THEN Null
         ELSE LET counts == {e.count : e \in ToSet(state.values)} IN
              state.values[Min({i \in DOMAIN state.values : state.values[i].count = Max(counts)})].value

Buffered(fn, groups) ==
  IF fn \notin Listing THEN 0
  ELSE FoldLeft(LAMBDA n, g : n + (IF fn = "count_distinct" THEN Cardinality(g.state.values) ELSE Len(g.state.values)), 0, groups)

AddToGroups(groups, row, request, capacity) ==
  LET key == IF request.grouped THEN row.p ELSE Null
      at == {i \in DOMAIN groups : groups[i].key = key}
      added == IF at = {} THEN Append(groups, [key |-> key, state |-> AddValue(request.fn, EmptyState(request.fn), row.v)])
               ELSE [i \in DOMAIN groups |->
                       IF i \in at THEN [groups[i] EXCEPT !.state = AddValue(request.fn, @, row.v)] ELSE groups[i]] IN
  IF groups = Error \/ (at = {} /\ Exceeds(Len(groups) + 1, request.maxGroups)) \/ Exceeds(Buffered(request.fn, added), capacity)
  THEN Error ELSE added

-----------------------------------------------------------------------------
(* A state is made for a request, and refused to one that differs in what it   *)
(* depends on.  Its parts are rows, or references to entries that hold them.  *)
StateOf(h) == IF h.kind = "ref" THEN spill[h.id].state ELSE h.state

(* A defect: a state of top k is taken whatever its limit. *)
IdentityOfOrder(request) ==
  CASE request.op \in {"topk", "sort"} -> <<request.orderBy>>
    [] request.op = "window" -> <<request.windows>>
    [] request.op = "aggregate" -> <<request.grouped, request.fn>>

Identity(request) ==
  CASE request.op = "topk" -> <<request.orderBy, request.offset, request.limit>>
    [] request.op = "sort" -> <<request.orderBy>>
    [] request.op = "window" -> <<request.windows>>
    [] request.op = "aggregate" -> <<request.grouped, request.fn>>

SpillsRuns(request) == plan.spill /\ request.op \in {"sort", "window"}

PartitionLimit == IF plan.maxPartition # Unlimited THEN plan.maxPartition ELSE plan.capacity

(* Rows that pass QUALIFY, ordered and cut to a page.                        *)
PostWindow(request, answers) ==
  LET Passes(a) == request.qualify = {} \/ a.values[1] \in request.qualify
      kept == SelectSeq(answers, Passes)
      places == SortSeq([i \in DOMAIN kept |-> i],
                  LAMBDA i, j : \/ RowBefore(request.orderBy, kept[i].row, kept[j].row)
                                \/ ~RowBefore(request.orderBy, kept[j].row, kept[i].row) /\ i < j) IN
  Page([i \in DOMAIN kept |-> kept[places[i]]], request)

AnswerWindows(request, answers) == IF answers = Error THEN Error ELSE PostWindow(request, answers)

(* A defect: the runs of the slices before are cut anew with those of this one. *)
SortPartsCutAnew(request, loaded, rows) == SortRuns(FlattenSeq(loaded) \o rows, request.orderBy, plan.capacity)

SortParts(request, loaded, rows) == loaded \o SortRuns(rows, request.orderBy, plan.capacity)

(* The rows of the slices before are one list again, and are cut into runs.   *)
WindowParts(loaded, rows) ==
  IF plan.spill THEN Chunks(FlattenSeq(loaded), plan.capacity) \o Chunks(rows, plan.capacity)
  ELSE <<FlattenSeq(loaded) \o rows>>

TopKPart(request, loaded, rows) ==
  LET k == request.offset + request.limit IN
  Sorted(FoldLeft(LAMBDA kept, row : AddOrderedMatch(kept, row, request.orderBy, k), FlattenSeq(loaded), rows), request.orderBy)

(* What a call makes of the parts it loaded and the rows of its slice: the new *)
(* parts, in memory still, and the rows it answers.                         *)
Collected(request, loaded, rows) ==
  CASE request.op = "topk" ->
         LET kept == TopKPart(request, loaded, rows) IN
         [parts |-> <<kept>>, rows |-> IF Exceeds(Len(kept), plan.capacity) THEN Error ELSE Page(kept, request)]
    [] request.op = "sort" ->
         LET runs == SortParts(request, loaded, rows) IN
         [parts |-> runs, rows |-> Page(MergeSortRuns(runs, request.orderBy), request)]
    [] request.op = "window" ->
         LET runs == WindowParts(loaded, rows) IN
         [parts |-> runs,
          rows |-> IF ~plan.spill /\ Exceeds(Len(runs[1]), plan.capacity) THEN Error
                   ELSE AnswerWindows(request, ApplyWindowsToRuns(runs, request.windows, PartitionLimit))]
    [] request.op = "aggregate" ->
         LET groups == FoldLeft(LAMBDA gs, row : AddToGroups(gs, row, request, plan.capacity), FlattenSeq(loaded), rows) IN
         IF groups = Error THEN [parts |-> <<>>, rows |-> Error]
         ELSE [parts |-> <<SortSeq(groups, LAMBDA g, h : g.key < h.key)>>,
               rows |-> [i \in DOMAIN groups |-> [key |-> groups[i].key, value |-> Finish(request.fn, groups[i].state)]]]

-----------------------------------------------------------------------------
Init ==
  /\ plan \in Plans
  /\ spill = <<>> /\ calls = <<>>
  /\ current = NoCall
  /\ slice = 0
  /\ handle = NoHandle /\ answer = NoAnswer

(* A call that is over, or that nothing is heard of any more.               *)
Gone == [phase |-> "gone"]

Begin(request) ==
  /\ current = NoCall /\ slice < Len(plan.slices)
  /\ request.op # "tasks"
  /\ Len(calls) < Len(plan.slices) + plan.retries
  /\ current' = Len(calls) + 1
  /\ calls' = Append(calls, [phase |-> "open", slice |-> slice + 1, request |-> request, handle |-> handle,
                             refs |-> <<>>, loaded |-> <<>>, parts |-> <<>>, written |-> 0, rows |-> <<>>])
  /\ UNCHANGED <<plan, spill, slice, handle, answer>>

Fail(c, rows) ==
  /\ calls' = [calls EXCEPT ![c] = Gone]
  /\ IF c # current THEN UNCHANGED <<current, answer>>
     ELSE /\ current' = NoCall
          /\ answer' = IF rows = Error THEN [request |-> calls[c].request, slice |-> calls[c].slice, rows |-> Error] ELSE answer
  /\ UNCHANGED <<plan, spill, slice, handle>>

(* The state is read, and checked against the request.                      *)
Open(c) ==
  /\ calls[c].phase = "open"
  /\ IF calls[c].handle = NoHandle
     THEN calls' = [calls EXCEPT ![c].phase = "scan"] /\ UNCHANGED <<plan, spill, current, slice, handle, answer>>
     ELSE LET state == StateOf(calls[c].handle) IN
          IF state.identity # Identity(calls[c].request) THEN Fail(c, <<>>)
          ELSE /\ calls' = [calls EXCEPT ![c].phase = "load", ![c].refs = state.parts]
               /\ UNCHANGED <<plan, spill, current, slice, handle, answer>>

(* One part is read at a time.                                              *)
Load(c) ==
  /\ calls[c].phase = "load"
  /\ LET n == Len(calls[c].loaded) + 1 IN
     IF n > Len(calls[c].refs) THEN calls' = [calls EXCEPT ![c].phase = "scan"]
     ELSE LET part == calls[c].refs[n] IN
          calls' = [calls EXCEPT ![c].loaded = Append(@, IF part.kind = "ref" THEN spill[part.id].rows ELSE part.rows)]
  /\ UNCHANGED <<plan, spill, current, slice, handle, answer>>

Take(c, result) ==
  IF result.rows = Error THEN Fail(c, Error)
  ELSE /\ calls' = [calls EXCEPT ![c].phase = "write", ![c].parts = result.parts, ![c].rows = result.rows]
       /\ UNCHANGED <<plan, spill, current, slice, handle, answer>>

Scan(c) ==
  /\ calls[c].phase = "scan"
  /\ Take(c, Collected(calls[c].request, calls[c].loaded, plan.slices[calls[c].slice]))

-----------------------------------------------------------------------------
(* The entries of a call are named after the id it was given: the same for all *)
(* calls, or one of its own.  An entry takes the place of one of its name.   *)
EntryId(c, n) == <<IF plan.ids = "fixed" THEN 0 ELSE c, n>>
Entries(new) == new @@ spill
SpillUsage(entries) == FoldLeft(LAMBDA n, id : n + entries[id].size, 0, SetToSeq(DOMAIN entries))
Write(c, n, entry) == Entries(EntryId(c, n) :> entry)

PartStates(c) ==
  [n \in DOMAIN calls[c].parts |->
     IF SpillsRuns(calls[c].request) THEN [kind |-> "ref", id |-> EntryId(c, n)]
     ELSE [kind |-> "rows", rows |-> calls[c].parts[n]]]
NewState(c) == [identity |-> Identity(calls[c].request), parts |-> PartStates(c)]
StateSize(c) == IF SpillsRuns(calls[c].request) THEN 1 ELSE 1 + Len(calls[c].parts[1])

(* An entry that is more than the adapter may hold is an error.              *)
Put(c, n, entry, next) ==
  IF Exceeds(SpillUsage(Write(c, n, entry)), plan.maxSpill) THEN Fail(c, <<>>)
  ELSE /\ spill' = Write(c, n, entry)
       /\ calls' = [calls EXCEPT ![c] = next]
       /\ UNCHANGED <<plan, current, slice, handle, answer>>

WriteRun(c) ==
  /\ calls[c].phase = "write"
  /\ SpillsRuns(calls[c].request)
  /\ calls[c].written < Len(calls[c].parts)
  /\ LET n == calls[c].written + 1 IN
     Put(c, n, [rows |-> calls[c].parts[n], size |-> Len(calls[c].parts[n])], [calls[c] EXCEPT !.written = n])

WriteState(c) ==
  /\ calls[c].phase = "write"
  /\ plan.spill
  /\ SpillsRuns(calls[c].request) => calls[c].written = Len(calls[c].parts)
  /\ Put(c, 0, [state |-> NewState(c), size |-> StateSize(c)], [calls[c] EXCEPT !.phase = "done"])

(* The caller takes the answer, and the state as it likes to keep it.         *)
Deliver(c) ==
  /\ c = current
  /\ calls[c].phase = IF plan.spill THEN "done" ELSE "write"
  /\ slice' = calls[c].slice
  /\ handle' = IF plan.holds = "ref" THEN [kind |-> "ref", id |-> EntryId(c, 0)] ELSE [kind |-> "bytes", state |-> NewState(c)]
  /\ answer' = [request |-> calls[c].request, slice |-> calls[c].slice, rows |-> calls[c].rows]
  /\ current' = NoCall
  /\ calls' = [calls EXCEPT ![c] = Gone]
  /\ UNCHANGED <<plan, spill>>

(* The caller waits no longer: the call is lost, or it only seems to be.      *)
Crash(c) ==
  /\ c = current
  /\ Len(calls) < Len(plan.slices) + plan.retries
  /\ calls' = [calls EXCEPT ![c] = Gone]
  /\ current' = NoCall
  /\ UNCHANGED <<plan, spill, slice, handle, answer>>

Abandon(c) ==
  /\ c = current
  /\ Len(calls) < Len(plan.slices) + plan.retries
  /\ current' = NoCall
  /\ UNCHANGED <<plan, spill, calls, slice, handle, answer>>

(* A window query without state, over the files of a table as its slices.      *)
WindowTasks(request, tasks, bucketOf) ==
  LET units == IF TasksAvailable(request.windows) THEN tasks ELSE <<FlattenSeq(tasks)>> IN
  IF \E unit \in ToSet(units) : Exceeds(Len(unit), plan.capacity) THEN Error
  ELSE IF TasksAvailable(request.windows) THEN EvaluateTasks(units, request.windows, bucketOf)
  ELSE ApplyWindowsToRows(units[1], request.windows, PartitionLimit)

Execute(request) ==
  /\ request.op = "tasks" /\ slice = 0
  /\ \E bucketOf \in [BucketKeys(plan.slices, request.windows) -> 1..plan.buckets] :
       answer' = [request |-> request, slice |-> Len(plan.slices),
                  rows |-> AnswerWindows(request, WindowTasks(request, plan.slices, bucketOf))]
  /\ slice' = Len(plan.slices)
  /\ UNCHANGED <<plan, spill, calls, current, handle>>

Step(c) == Open(c) \/ Load(c) \/ Scan(c) \/ WriteRun(c) \/ WriteState(c) \/ Deliver(c) \/ Crash(c) \/ Abandon(c)
Next == (\E request \in plan.requests : Begin(request) \/ Execute(request)) \/ (\E c \in DOMAIN calls : Step(c))

Spec == Init /\ [][Next]_vars

-----------------------------------------------------------------------------
AllRows(n) == FlattenSeq(SubSeq(plan.slices, 1, n))

(* Rows of a page of the sorted rows: some rows with the keys of that page.   *)
IsPage(request, all, rows) ==
  LET page == Page(Sorted(all, request.orderBy), request)
      SameKey(l, r) == ~RowBefore(request.orderBy, l, r) /\ ~RowBefore(request.orderBy, r, l) IN
  /\ Len(rows) = Len(page) /\ \A i \in DOMAIN rows : SameKey(rows[i], page[i])
  /\ ToSet(rows) \subseteq ToSet(all) /\ Cardinality(ToSet(rows)) = Len(rows)

ScanOrder(all) == {[i \in DOMAIN all |-> i]}
AnyOrder(all) == ScanOrder(all) \cup Permutations(DOMAIN all)

(* The windows mean what they say under some order of the rows that tie.      *)
AreWindows(request, all, rows, ties) ==
  LET place(row) == CHOOSE i \in DOMAIN all : all[i] = row IN
  /\ \E tie \in ties :
       LET value(i) == Meaning(all, request.windows[1], tie, i)
           meant == PostWindow(request, [i \in DOMAIN all |-> [row |-> all[i], values |-> <<value(i)>>]]) IN
       /\ Len(rows) = Len(meant)
       /\ \A n \in DOMAIN rows : rows[n].row = meant[n].row /\ rows[n].values[1] = meant[n].values[1]
  /\ \A m \in 2..Len(request.windows) : \E tie \in ties : \A n \in DOMAIN rows :
       rows[n].values[m] = Meaning(all, request.windows[m], tie, place(rows[n].row))

GroupAnswer(fn, xs) ==
  LET ys == SelectSeq(xs, LAMBDA x : x # Null) IN
  CASE fn = "first" -> Head(xs)
    [] fn = "last" -> Last(xs)
    [] fn = "sum" -> Sum(ys)
    [] fn = "count_distinct" -> Cardinality(ToSet(ys))
    [] fn = "mode" /\ ys # <<>> -> ys[Min({i \in DOMAIN ys : \A j \in DOMAIN ys : Count(ys, ys[j]) <= Count(ys, ys[i])})]
    [] OTHER -> AggregateValue(fn, ys)

KeyIn(request, row) == IF request.grouped THEN row.p ELSE Null
KeysOf(request, all) == {KeyIn(request, row) : row \in ToSet(all)}
ValuesOf(request, all, key) ==
  LET rows == SelectSeq(all, LAMBDA row : KeyIn(request, row) = key) IN [i \in DOMAIN rows |-> rows[i].v]
AreGroups(request, all, rows) ==
  /\ Len(rows) = Cardinality(KeysOf(request, all))
  /\ ToSet(rows) = {[key |-> key, value |-> GroupAnswer(request.fn, ValuesOf(request, all, key))] : key \in KeysOf(request, all)}

(* How many values an aggregate must hold.                                  *)
MustHold(request, all) ==
  LET Held(key) ==
        LET ys == SelectSeq(ValuesOf(request, all, key), LAMBDA x : x # Null) IN
        IF request.fn = "median" THEN Len(ys) ELSE Cardinality(ToSet(ys)) IN
  IF request.fn \notin Listing THEN 0 ELSE MapThenSumSet(Held, KeysOf(request, all))

(* When a query has to fail: a budget, or a window that cannot be evaluated.   *)
MustFail(request, all) ==
  LET meaningless(limit) == \E w \in ToSet(request.windows) : IsMeaningless(all, w, limit) IN
  CASE request.op = "topk" -> Exceeds(Min({Len(all), request.offset + request.limit}), plan.capacity)
    [] request.op = "sort" -> FALSE
    [] request.op = "window" -> (~plan.spill /\ Exceeds(Len(all), plan.capacity)) \/ meaningless(PartitionLimit)
    [] request.op = "aggregate" ->
         Exceeds(Cardinality(KeysOf(request, all)), request.maxGroups) \/ Exceeds(MustHold(request, all), plan.capacity)
    [] request.op = "tasks" ->
         IF TasksAvailable(request.windows)
         THEN (\E task \in ToSet(plan.slices) : Exceeds(Len(task), plan.capacity)) \/ meaningless(Unlimited)
         ELSE Exceeds(Len(all), plan.capacity) \/ meaningless(PartitionLimit)

(* No call was lost so far.                                                 *)
Quiet == Len(calls) = slice + (IF current = NoCall THEN 0 ELSE 1)

(* Calls can be made again if their entries are their own, or if their caller  *)
(* keeps bytes: the entries these refer to are only ever written again as they *)
(* are.  Windows do cut their runs anew.                                    *)
Repeatable == plan.ids = "fresh" \/ (plan.holds = "bytes" /\ ~(plan.spill /\ \E r \in plan.requests : r.op = "window"))

Trusted == Repeatable \/ Quiet

(* A call answers for all rows of the slices up to its own, as one query over  *)
(* them would, and fails for what they need and not for how they were sliced: *)
(* pages, groups and windows, whatever calls were lost or went on, if calls   *)
(* are repeatable; and in any case if no call was lost.                     *)
SlicesAddUp ==
  answer # NoAnswer /\ Trusted =>
    LET all == AllRows(answer.slice)
        request == answer.request IN
    IF answer.rows = Error THEN MustFail(request, all)
    ELSE /\ ~MustFail(request, all)
         /\ CASE request.op \in {"topk", "sort"} -> IsPage(request, all, answer.rows)
              [] request.op \in {"window", "tasks"} -> AreWindows(request, all, answer.rows, AnyOrder(all))
              [] request.op = "aggregate" -> AreGroups(request, all, answer.rows)

(* Rows that tie under a window's ORDER BY keep the order they are scanned in, *)
(* by whichever way the window is evaluated that does not spill runs.        *)
TiesFollowTheScan ==
  answer # NoAnswer /\ answer.rows # Error /\ answer.request.op \in {"window", "tasks"} /\ ~plan.spill =>
    AreWindows(answer.request, AllRows(answer.slice), answer.rows, ScanOrder(AllRows(answer.slice)))

(* The state a caller holds can be restored at any time: what it refers to is  *)
(* there, and makes up the rows of the slices up to it, even while calls that *)
(* were given up go on writing.                                            *)
HeldStatesAreWhole ==
  handle # NoHandle /\ (Repeatable \/ (Quiet /\ current = NoCall)) =>
    LET state == StateOf(handle)
        held == [n \in DOMAIN state.parts |-> IF state.parts[n].kind = "ref" THEN spill[state.parts[n].id].rows ELSE state.parts[n].rows]
        all == AllRows(slice)
        request == answer.request IN
    CASE answer.rows = Error -> TRUE
      [] answer.rows # Error /\ request.op = "topk" -> IsPage([request EXCEPT !.offset = 0, !.limit = @ + request.offset], all, held[1])
      [] answer.rows # Error /\ request.op = "sort" ->
           /\ \A n \in DOMAIN held : held[n] = Sorted(held[n], request.orderBy)
           /\ Len(FlattenSeq(held)) = Len(all) /\ ToSet(FlattenSeq(held)) = ToSet(all)
      [] answer.rows # Error /\ request.op = "window" -> FlattenSeq(held) = all
      [] answer.rows # Error /\ request.op = "aggregate" ->
           AreGroups(request, all, [i \in DOMAIN held[1] |-> [key |-> held[1][i].key, value |-> Finish(request.fn, held[1][i].state)]])
=============================================================================
