----------------------------- MODULE QuerySlices -----------------------------
(***************************************************************************)
(* Paging through a query: slice and resumableBatches of QueryResult, and    *)
(* ResumedQuery, of packages/core/src/query.ts, over the Parquet scanner.     *)
(*                                                                         *)
(* A slice lists the objects of its source, compares the fingerprint of     *)
(* their tasks with the one of its bookmark, lists them again, scans them    *)
(* batch by batch along one of six routes, and stops when it has seen one     *)
(* row more than its page holds.  Each of these awaits the store, where      *)
(* another process puts and deletes objects.                               *)
(*                                                                         *)
(* A row is its identity, the rank of its sort key, which is also what a     *)
(* distinct query selects, and whether it satisfies the where clause.  Paths  *)
(* are numbered as localeCompare sorts them.  Hive partitions, sidecar       *)
(* indexes, windows and accelerators are left out, and every object has an    *)
(* etag that is not used again.                                            *)
(***************************************************************************)
EXTENDS Integers, FiniteSets, SequencesExt

CONSTANTS NFiles,       \* paths that the source matches
          Contents,     \* of each path, its versions: sequences of row groups
          Queries,      \* query shapes, with the lake's scanner, caches and budget
          NoLimit,      \* the limit of a query without one
          PageSizes,    \* values of maxRows
          MaxWrites,    \* bound: puts and deletes of the other process
          MaxCalls      \* bound: calls of slice

Files == 1..NFiles
Row == [id : Nat \ {0}, key : Nat, match : BOOLEAN]

(* ordered, where, distinct: the clauses; scalar: hive, or an expression     *)
(* without a vector form; vector: the scanner has vector batches; late: the   *)
(* select has a column that the predicate or the sort does not read; cached:  *)
(* the lake has a planning cache; reused: pages come from one QueryResult.   *)
QueryShape ==
  [ordered : BOOLEAN, where : BOOLEAN, distinct : BOOLEAN, scalar : BOOLEAN, vector : BOOLEAN,
   late : BOOLEAN, cached : BOOLEAN, reused : BOOLEAN, limit : Nat \cup {NoLimit}, offset : Nat,
   batchSize : Nat \ {0}, maxFiles : Nat, maxOutputRows : Nat, maxBufferedRows : Nat]

ASSUME NFilesAssumption == NFiles \in Nat
ASSUME ContentsAssumption ==
  Contents \in [Files -> Seq(Seq(Seq(Row)))] /\ \A f \in Files : Contents[f] # <<>>
ASSUME QueriesAssumption == NoLimit \notin Nat /\ Queries \subseteq QueryShape
ASSUME PageSizesAssumption == PageSizes \subseteq Nat \ {0}
ASSUME PagesBoundsAssumption == MaxWrites \in Nat /\ MaxCalls \in Nat

VARIABLES store,      \* of each path: its last version, and whether it is there
          planCache,  \* the planning cache: the listing it has, if any
          query,      \* the shape of the query
          counted,    \* filesRead and rowsReturned of the QueryResult
          call,       \* the slice that runs
          bookmarks,  \* bookmarks that were handed out
          reply,      \* how the last slice ended
          writes,     \* how many times the other process has put and deleted
          calls       \* how many slices were called

pagesVars == <<store, planCache, query, counted, call, bookmarks, reply, writes, calls>>

Smaller(a, b) == IF a <= b THEN a ELSE b
Larger(a, b) == IF a >= b THEN a ELSE b
Cut(s, from, to) == SubSeq(s, from, Smaller(to, Len(s)))

(* The n-th of a set of numbers.                                            *)
NthOf(S, n) == CHOOSE i \in S : Cardinality({j \in S : j <= i}) = n

(***************************************************************************)
(* Objects, their row groups and the batches a scan of one is cut into.      *)
(***************************************************************************)
Groups(f, v) == Contents[f][v]
FileRows(f, v) == FlattenSeq(Groups(f, v))
Selected(row) == ~query.where \/ row.match

(* rowGroupMayMatch, by statistics that are there and exact.                *)
GroupMayMatch(f, v, g) == \E i \in DOMAIN Groups(f, v)[g] : Selected(Groups(f, v)[g][i])
Ranges(f, v) == {g \in DOMAIN Groups(f, v) : GroupMayMatch(f, v, g)}

(* The index of the last row before the row group.                          *)
RowStart(f, v, g) == Len(FlattenSeq(SubSeq(Groups(f, v), 1, g - 1)))

(* The index ranges of the batches from a row group, up to rowEnd.           *)
GroupBatches(f, v, g, size, rowEnd) ==
  LET first == RowStart(f, v, g)
      end == Smaller(first + Len(Groups(f, v)[g]), rowEnd)
      count == IF end <= first THEN 0 ELSE ((end - first) + size - 1) \div size
  IN [k \in 1..count |-> [from |-> first + (k - 1) * size + 1, to |-> Smaller(first + k * size, end)]]
Batches(f, v, size, rowEnd) ==
  FlattenSeq([g \in DOMAIN Groups(f, v) |->
    IF GroupMayMatch(f, v, g) THEN GroupBatches(f, v, g, size, rowEnd) ELSE <<>>])

Unbounded(f, v) == Len(FileRows(f, v))

(***************************************************************************)
(* Sorting, and the rows a top-k retains.                                   *)
(***************************************************************************)
(* Array.prototype.sort is stable.  Ref is a row and where it was found.     *)
SortedBy(s, Before(_, _)) ==
  LET goesBefore(i, j) == Before(s[i], s[j]) \/ (~Before(s[j], s[i]) /\ i < j)
      place(i) == 1 + Cardinality({j \in DOMAIN s : j # i /\ goesBefore(j, i)})
  IN [p \in DOMAIN s |-> s[CHOOSE i \in DOMAIN s : place(i) = p]]

(* compareRows, and compareRankedRefs, that breaks ties by position.         *)
KeyBefore(a, b) == a.row.key < b.row.key
RefBefore(a, b) ==
  \/ KeyBefore(a, b)
  \/ a.row.key = b.row.key /\ a.file < b.file
  \/ a.row.key = b.row.key /\ a.file = b.file /\ a.index < b.index

(* addOrderedMatch and addRankedRef: a full buffer gives up the first of its  *)
(* worst rows for a better one.                                             *)
WithCandidate(kept, ref, topK, Before(_, _)) ==
  LET worst == CHOOSE i \in DOMAIN kept :
                 /\ \A j \in DOMAIN kept : ~Before(kept[i], kept[j])
                 /\ \A j \in 1..(i - 1) : Before(kept[j], kept[i])
  IN IF topK = NoLimit \/ Len(kept) < topK THEN Append(kept, ref)
     ELSE IF topK = 0 \/ ~Before(ref, kept[worst]) THEN kept
     ELSE [kept EXCEPT ![worst] = ref]

(* vectorTopKBatch.                                                         *)
FirstK(s, k) == Cut(SortedBy(s, KeyBefore), 1, k)

(* The first of the rows with each key: addDistinctRow over all of them.     *)
DistinctRows(s) ==
  FoldLeft(LAMBDA seen, ref : IF \E i \in DOMAIN seen : seen[i].row.key = ref.row.key
                              THEN seen ELSE Append(seen, ref), <<>>, s)

(***************************************************************************)
(* The routes.                                                              *)
(***************************************************************************)
Limited == query.limit # NoLimit
TopK == query.offset + query.limit

(* batches, tryColumnarProjectedBatches, orderedBatches, tryColumnarTopKRows   *)
(* and the conditions of the late routes.                                    *)
Route ==
  LET simple == query.vector /\ ~query.distinct /\ ~query.scalar
  IN IF query.ordered
     THEN IF ~simple \/ ~Limited THEN "collect" ELSE IF query.late THEN "rankedRefs" ELSE "columnTopK"
     ELSE IF ~simple THEN "rows"
     ELSE IF Limited /\ query.where /\ query.late THEN "lateLimit" ELSE "columnar"

(* A defect: a query with a limit buffers every match. *)
BufferRowsAll == NoLimit

(* The number of rows a buffer keeps: the top-k is given up for distinct.     *)
BufferRows == IF query.distinct \/ ~Limited THEN NoLimit ELSE TopK

(* limitAwareBatchSize, and columnarBatchSize.                              *)
DefaultColumnarBatchSize == 262144
ScanBatchSize ==
  CASE Route \in {"rows", "columnar"} ->
         IF Limited THEN Smaller(query.batchSize, Larger(1, TopK)) ELSE query.batchSize
    [] Route = "collect" -> query.batchSize
    [] OTHER -> Larger(query.batchSize, DefaultColumnarBatchSize)

(* The columnar route asks for no row past a limit, when it needs no others.  *)
RowEnd(f, v) ==
  IF Route = "columnar" /\ ~query.where /\ query.offset = 0 /\ Limited
  THEN query.limit - call.returned
  ELSE Unbounded(f, v)

(***************************************************************************)
(* The store, its listing, and the planning cache.                          *)
(***************************************************************************)
There(f) == store[f].there
Object(f) == [file |-> f, v |-> store[f].v]

(* expandPathsUncached, and its sort.                                       *)
NoListing == <<>>
Listing ==
  LET present == {f \in Files : There(f)}
  IN [i \in 1..Cardinality(present) |-> Object(NthOf(present, i))]
Expanded == IF query.cached /\ planCache # NoListing THEN planCache ELSE Listing

(***************************************************************************)
(* A slice.  phase: listing (the objects of the bookmark's plan), tasks (read  *)
(* their footers), relisting, scan, footer (of the object it opened), fetch   *)
(* (the late columns of the refs).                                          *)
(* quiet, listed and the given rows of a bookmark are history: what the call   *)
(* listed, whether that was the store and has been since (of a bookmark: for  *)
(* all pages so far), and what the pages before it gave.                     *)
(***************************************************************************)
FirstPage == [plan |-> <<>>, offset |-> 0, given |-> <<>>, listed |-> NoListing, quiet |-> TRUE]
NoFile == [file |-> 0, v |-> 0]
IdleCall ==
  [phase |-> "idle", at |-> FirstPage, maxRows |-> 0, listed |-> NoListing, plan |-> <<>>,
   quiet |-> TRUE, objects |-> <<>>, open |-> NoFile, batches |-> <<>>, kept |-> <<>>,
   offsetSkipped |-> 0, returned |-> 0, windows |-> <<>>, skipped |-> 0, page |-> <<>>]

NoReply == [kind |-> "none", call |-> IdleCall, more |-> FALSE]
Ended(c, kind, more) ==
  /\ reply' = [kind |-> kind, call |-> c, more |-> more]
  /\ call' = IdleCall

(* slice returns its page: with a bookmark, if it has seen one row more.      *)
Return(c, more) ==
  /\ Ended(c, "page", more)
  /\ bookmarks' =
       IF more
       THEN bookmarks \cup {[plan |-> c.plan, offset |-> c.at.offset + Len(c.page),
                             given |-> c.at.given \o c.page, listed |-> c.listed,
                             quiet |-> c.quiet /\ c.at.quiet]}
       ELSE bookmarks

(* The loop of slice over a batch of rows that the query yields.            *)
Deliver(c, refs) ==
  LET skip == Smaller(Len(refs), c.at.offset - c.skipped)
      rest == [i \in 1..(Len(refs) - skip) |-> refs[skip + i].row]
      room == c.maxRows - Len(c.page)
  IN [call |-> [c EXCEPT !.skipped = c.skipped + skip, !.page = c.page \o Cut(rest, 1, room)],
      more |-> Len(rest) > room]

(* run with a slice, resume, and the turns of resumableBatches.              *)
Slice(at, maxRows) ==
  /\ call.phase = "idle" /\ calls < MaxCalls
  /\ call' = [IdleCall EXCEPT !.phase = "listing", !.at = at, !.maxRows = maxRows]
  /\ counted' = IF query.reused THEN counted ELSE [files |-> 0, returned |-> 0]
  /\ reply' = NoReply
  /\ calls' = calls + 1
  /\ UNCHANGED <<store, planCache, query, bookmarks, writes>>

(* expandPaths: no object, more than the budget allows, or a listing.        *)
Expand(ListedCall(_)) ==
  /\ IF Expanded = NoListing
     THEN Ended(call, "failed", FALSE) /\ UNCHANGED planCache
     ELSE IF Len(Expanded) > query.maxFiles
     THEN Ended(call, "budget", FALSE) /\ UNCHANGED planCache
     ELSE /\ call' = ListedCall(Expanded)
          /\ planCache' = IF query.cached THEN Expanded ELSE planCache
          /\ UNCHANGED reply
  /\ UNCHANGED <<store, query, counted, bookmarks, writes, calls>>

ListPlan ==
  /\ call.phase = "listing"
  /\ Expand(LAMBDA listed : [call EXCEPT !.phase = "tasks", !.listed = listed, !.quiet = (listed = Listing)])

ListScan ==
  /\ call.phase = "relisting"
  /\ Expand(LAMBDA listed : [call EXCEPT !.phase = "scan", !.objects = listed])

(* The versions of an object that a read may return: the one that was there   *)
(* before, out of a cache, or the one that is there.                        *)
Readable(object) == {object.v} \cup {store[f].v : f \in {g \in {object.file} : There(g)}}
Unchanged(object) == There(object.file) /\ Object(object.file) = object

(* A defect: the fingerprint leaves the etags out. *)
ManifestWithoutEtags(listed, footer) ==
  [i \in DOMAIN listed |->
    [object |-> [listed[i] EXCEPT !.v = 0], ranges |-> Ranges(listed[i].file, footer[i])]]

(* tasksFromObjects and createTaskManifest, then assertBookmarkMatches: the   *)
(* plan has the etag of each object and the ranges its footer gave.          *)
Manifest(listed, footer) ==
  [i \in DOMAIN listed |->
    [object |-> listed[i], ranges |-> Ranges(listed[i].file, footer[i])]]

Compare(planned) ==
  IF call.at # FirstPage /\ call.at.plan # planned.plan
  THEN Ended(planned, "stale", FALSE)
  ELSE call' = [planned EXCEPT !.phase = "relisting"] /\ UNCHANGED reply

Footers ==
  {footer \in [DOMAIN call.listed -> UNION {Readable(call.listed[i]) : i \in DOMAIN call.listed}] :
     \A i \in DOMAIN call.listed : footer[i] \in Readable(call.listed[i])}
PlanTasks ==
  /\ call.phase = "tasks"
  /\ \E footer \in Footers : Compare([call EXCEPT !.plan = Manifest(call.listed, footer)])
  /\ UNCHANGED <<store, planCache, query, counted, bookmarks, writes, calls>>

(* A read of an object that is gone, or of bytes of two versions, may reject.   *)
(* Several objects have their footers read, and schemas compared, up front.    *)
ReadFails ==
  /\ \/ call.phase = "tasks" /\ \E i \in DOMAIN call.listed : ~Unchanged(call.listed[i])
     \/ call.phase = "scan" /\ call.open = NoFile /\ Len(call.objects) > 1
        /\ \E i \in DOMAIN call.objects : ~Unchanged(call.objects[i])
     \/ (call.phase = "footer" \/ call.batches # <<>>) /\ ~Unchanged(call.open)
     \/ call.phase = "fetch" /\ call.windows # <<>> /\ ~call.quiet
  /\ Ended(call, "failed", FALSE)
  /\ UNCHANGED <<store, planCache, query, counted, bookmarks, writes, calls>>

(* The next object of the scan: the file budget, and a head.                 *)
OpenFile ==
  /\ call.phase = "scan" /\ call.batches = <<>> /\ call.objects # <<>>
  /\ counted' = [counted EXCEPT !.files = @ + 1]
  /\ LET f == Head(call.objects).file
     IN IF counted.files + 1 > query.maxFiles THEN Ended(call, "budget", FALSE)
        ELSE IF ~There(f) THEN Ended(call, "failed", FALSE)
        ELSE /\ call' = [call EXCEPT !.phase = "footer", !.objects = Tail(@), !.open = Object(f)]
             /\ UNCHANGED reply
  /\ UNCHANGED <<store, planCache, query, bookmarks, writes, calls>>

(* Its metadata, that the batches are cut by.                               *)
CutBy(f, v) == [call EXCEPT !.phase = "scan", !.batches = Batches(f, v, ScanBatchSize, RowEnd(f, v))]
ReadFooter ==
  /\ call.phase = "footer"
  /\ \E v \in Readable(call.open) : call' = CutBy(call.open.file, v)
  /\ UNCHANGED <<store, planCache, query, counted, bookmarks, reply, writes, calls>>

(* The rows of the next batch, each with its place.                         *)
RefsAt(f, v, from, to) ==
  LET rows == FileRows(f, v)
  IN [i \in 1..Larger(0, Smaller(to, Len(rows)) - from + 1) |->
       [file |-> f, index |-> from + i - 1, row |-> rows[from + i - 1]]]
IsSelected(ref) == Selected(ref.row)
SelectedOf(refs) ==
  FoldLeft(LAMBDA found, ref : IF IsSelected(ref) THEN Append(found, ref) ELSE found, <<>>, refs)
BatchRefs(v) ==
  SelectedOf(RefsAt(call.open.file, v, Head(call.batches).from, Head(call.batches).to))

(* A defect: each batch has a set of distinct rows of its own. *)
StreamedPerBatch(refs) ==
  LET new == IF query.distinct THEN DistinctRows(refs) ELSE refs
      due == query.offset - call.offsetSkipped
      room == IF Limited THEN query.limit - call.returned ELSE Len(new)
      processed == Cut(new, 1, due + room + 1)
  IN [out |-> Cut(new, due + 1, due + room),
      seen |-> IF query.distinct THEN processed ELSE <<>>,
      skipped |-> call.offsetSkipped + Smaller(due, Len(new))]

(* The row loop of the rows and columnar routes: distinct, offset and limit.  *)
(* kept has the first row of each distinct one.                             *)
Streamed(refs) ==
  LET new == IF query.distinct
             THEN SubSeq(DistinctRows(call.kept \o refs), Len(call.kept) + 1,
                         Len(DistinctRows(call.kept \o refs)))
             ELSE refs
      due == query.offset - call.offsetSkipped
      room == IF Limited THEN query.limit - call.returned ELSE Len(new)
      processed == Cut(new, 1, due + room + 1)
  IN [out |-> Cut(new, due + 1, due + room),
      seen |-> IF query.distinct THEN call.kept \o processed ELSE <<>>,
      skipped |-> call.offsetSkipped + Smaller(due, Len(new))]

StreamedCall(rows) ==
  [call EXCEPT !.batches = Tail(@), !.kept = rows.seen, !.offsetSkipped = rows.skipped,
               !.returned = @ + Len(rows.out)]
GiveOut(rows) ==
  LET returned == counted.returned + Len(rows.out)
      next == Deliver(StreamedCall(rows), rows.out)
  IN /\ counted' = [counted EXCEPT !.returned = returned]
     /\ IF returned > query.maxOutputRows \/ Len(rows.seen) > query.maxBufferedRows
        THEN Ended(call, "budget", FALSE) /\ UNCHANGED bookmarks
        ELSE IF next.more \/ (Limited /\ next.call.returned >= query.limit)
        THEN Return(next.call, next.more)
        ELSE call' = next.call /\ UNCHANGED <<bookmarks, reply>>
StreamBatch ==
  /\ call.phase = "scan" /\ call.batches # <<>> /\ Route \in {"rows", "columnar"}
  /\ \E v \in Readable(call.open) : GiveOut(Streamed(BatchRefs(v)))
  /\ UNCHANGED <<store, planCache, query, writes, calls>>

(* The buffers of the other routes: collectOrderedMatches, the retained batch  *)
(* of the column top-k, the ranked refs, and the refs up to the limit.        *)
Collected(refs) ==
  FoldLeft(LAMBDA kept, ref : WithCandidate(kept, ref, BufferRows, KeyBefore), call.kept, refs)
RankedRefs(refs) ==
  FoldLeft(LAMBDA kept, ref : WithCandidate(kept, ref, TopK, RefBefore), call.kept, refs)
Retained(refs) ==
  CASE Route = "collect" -> Collected(refs)
    [] Route = "columnTopK" -> FirstK(call.kept \o FirstK(refs, TopK), TopK)
    [] Route = "rankedRefs" -> RankedRefs(refs)
    [] Route = "lateLimit" -> Cut(call.kept \o refs, 1, Larger(TopK, Len(call.kept) + 1))

Keep(kept) ==
  LET enough == Route = "lateLimit" /\ Len(kept) >= TopK
  IN IF Len(kept) > query.maxBufferedRows
     THEN Ended(call, "budget", FALSE)
     ELSE /\ call' = [call EXCEPT !.kept = kept,
                        !.batches = IF enough THEN <<>> ELSE Tail(@),
                        !.objects = IF enough THEN <<>> ELSE @]
          /\ UNCHANGED reply
KeepBatch ==
  /\ call.phase = "scan" /\ call.batches # <<>> /\ Route \notin {"rows", "columnar"}
  /\ \E v \in Readable(call.open) : Keep(Retained(BatchRefs(v)))
  /\ UNCHANGED <<store, planCache, query, counted, bookmarks, writes, calls>>

(* The rows of a buffer go to slice, that stops when its page is full.  used   *)
(* is how many of them had been counted by then.                            *)
Give(refs, used, seen) ==
  LET next == Deliver(call, refs)
  IN /\ counted' = [counted EXCEPT !.returned = @ + used]
     /\ IF counted.returned + used > query.maxOutputRows \/ seen > query.maxBufferedRows
        THEN Ended(call, "budget", FALSE) /\ UNCHANGED bookmarks
        ELSE Return(next.call, next.more)

(* orderedBatches after the scan: it counts and yields batch after batch.     *)
GiveSorted ==
  LET sorted == SortedBy(call.kept, KeyBefore)
      all == IF query.distinct THEN DistinctRows(sorted) ELSE sorted
      out == Cut(all, query.offset + 1, IF Limited THEN TopK ELSE Len(all))
      asked == call.at.offset + call.maxRows + 1
      used == Smaller(Len(out), ((asked + query.batchSize - 1) \div query.batchSize) * query.batchSize)
      seen == IF query.distinct
              THEN Smaller(Len(all), query.offset + used + IF used = Len(out) THEN 1 ELSE 0)
              ELSE 0
  IN Give(out, used, seen)

(* materializationWindows: the refs by position, in windows of the batch size. *)
WindowRows ==
  IF Route = "lateLimit" THEN query.batchSize ELSE Larger(query.batchSize, DefaultColumnarBatchSize)
PositionBefore(a, b) == a.file < b.file \/ (a.file = b.file /\ a.index < b.index)
WindowsAlong(refs) ==
  FoldLeft(LAMBDA out, ref :
             IF /\ out # <<>> /\ Last(out).file = ref.file
                /\ ref.index - Last(out).from < WindowRows
             THEN [out EXCEPT ![Len(out)].to = ref.index]
             ELSE Append(out, [file |-> ref.file, from |-> ref.index, to |-> ref.index]), <<>>, refs)
Windows(refs) == WindowsAlong(SortedBy(refs, PositionBefore))

(* The late columns, of which id stands for all: none until they are read.    *)
Missing == 0
WithoutLateColumns(refs) == [i \in DOMAIN refs |-> [refs[i] EXCEPT !.row.id = Missing]]

GiveTop == LET out == Cut(FirstK(call.kept, TopK), query.offset + 1, TopK) IN Give(out, Len(out), 0)
BeginFetch ==
  LET ranked == IF Route = "rankedRefs" THEN SortedBy(call.kept, RefBefore) ELSE call.kept
      chosen == Cut(ranked, query.offset + 1, TopK)
  IN /\ call' = [call EXCEPT !.phase = "fetch", !.kept = WithoutLateColumns(chosen),
                             !.windows = Windows(chosen)]
     /\ UNCHANGED <<counted, bookmarks, reply>>

EndScan ==
  /\ call.phase = "scan" /\ call.batches = <<>> /\ call.objects = <<>>
  /\ CASE Route \in {"rows", "columnar"} -> Return(call, FALSE) /\ UNCHANGED counted
       [] Route = "collect" -> GiveSorted
       [] Route = "columnTopK" -> GiveTop
       [] OTHER -> BeginFetch
  /\ UNCHANGED <<store, planCache, query, writes, calls>>

(* materializeRowRefs: the rows of a window that refs point to.              *)
Fetched(refs, found) ==
  [i \in DOMAIN refs |->
    LET at == {j \in DOMAIN found : found[j].file = refs[i].file /\ found[j].index = refs[i].index}
    IN IF at = {} THEN refs[i] ELSE [refs[i] EXCEPT !.row.id = found[CHOOSE j \in at : TRUE].row.id]]
Fetch ==
  /\ call.phase = "fetch" /\ call.windows # <<>>
  /\ LET window == Head(call.windows)
         found == RefsAt(window.file, store[window.file].v, window.from, window.to)
     IN IF ~There(window.file) THEN Ended(call, "failed", FALSE)
        ELSE /\ call' = [call EXCEPT !.windows = Tail(@), !.kept = Fetched(@, found)]
             /\ UNCHANGED reply
  /\ UNCHANGED <<store, planCache, query, counted, bookmarks, writes, calls>>

GiveFetched ==
  /\ call.phase = "fetch" /\ call.windows = <<>>
  /\ Give(call.kept, Len(call.kept), 0)
  /\ UNCHANGED <<store, planCache, query, writes, calls>>

(* The other process.                                                       *)
Write(f, object) ==
  /\ writes.puts + writes.deletes < MaxWrites
  /\ store' = [store EXCEPT ![f] = object]
  /\ call' = IF call.phase = "idle" THEN call ELSE [call EXCEPT !.quiet = FALSE]
  /\ UNCHANGED <<planCache, query, counted, bookmarks, reply, calls>>
Put(f) ==
  /\ store[f].v < Len(Contents[f])
  /\ Write(f, [v |-> store[f].v + 1, there |-> TRUE])
  /\ writes' = [writes EXCEPT !.puts = @ + 1]
Delete(f) ==
  /\ There(f)
  /\ Write(f, [store[f] EXCEPT !.there = FALSE])
  /\ writes' = [writes EXCEPT !.deletes = @ + 1]

PagesInit ==
  /\ store \in [Files -> {[v |-> 0, there |-> FALSE], [v |-> 1, there |-> TRUE]}]
  /\ planCache = NoListing
  /\ query \in Queries
  /\ counted = [files |-> 0, returned |-> 0]
  /\ call = IdleCall /\ reply = NoReply
  /\ bookmarks = {}
  /\ writes = [puts |-> 0, deletes |-> 0]
  /\ calls = 0

PagesNext ==
  \/ \E at \in {FirstPage} \cup bookmarks, maxRows \in PageSizes : Slice(at, maxRows)
  \/ ListPlan \/ PlanTasks \/ ListScan
  \/ OpenFile \/ ReadFooter \/ StreamBatch \/ KeepBatch \/ EndScan \/ Fetch \/ GiveFetched
  \/ ReadFails
  \/ \E f \in Files : Put(f) \/ Delete(f)

PagesSpec == PagesInit /\ [][PagesNext]_pagesVars

(***************************************************************************)
(* What a query promises.                                                   *)
(***************************************************************************)
(* The rows of a listing, where they are found.                             *)
Found(listed) ==
  FlattenSeq([i \in DOMAIN listed |->
    RefsAt(listed[i].file, listed[i].v, 1, Unbounded(listed[i].file, listed[i].v))])
Matching(refs) == {i \in DOMAIN refs : IsSelected(refs[i])}

(* Those that the query selects, in the order it gives them, without those     *)
(* that a distinct query leaves out, from its offset to its limit.           *)
RowsIn(refs, places) == [n \in 1..Cardinality(places) |-> refs[NthOf(places, n)].row]
InOrder(refs) == IF query.ordered THEN SortedBy(refs, KeyBefore) ELSE refs
Chosen(refs) ==
  LET matches == Matching(refs)
  IN IF query.distinct
     THEN {i \in matches : \A j \in matches : j < i => refs[j].row.key # refs[i].row.key}
     ELSE matches
Whole(listed) ==
  LET ordered == InOrder(Found(listed))
      all == RowsIn(ordered, Chosen(ordered))
  IN Cut(all, query.offset + 1, IF Limited THEN TopK ELSE Len(all))

(* The bounded buffer of the collect route keeps any of the rows with the      *)
(* last of its keys: another choice is as good, if no row is given twice.     *)
AgreesWith(rows, expected, listed) ==
  IF Route # "collect" \/ query.distinct \/ ~Limited THEN rows = expected
  ELSE /\ Len(rows) = Len(expected)
       /\ \A i \in DOMAIN rows :
            /\ rows[i].key = expected[i].key
            /\ rows[i] \in {Found(listed)[j].row : j \in Matching(Found(listed))}
            /\ \A j \in 1..(i - 1) : rows[j].id # rows[i].id

PagesTypeOK ==
  /\ store \in [Files -> [v : Nat, there : BOOLEAN]]
  /\ \A f \in Files : store[f].v \in 0..Len(Contents[f]) /\ (There(f) => store[f].v > 0)
  /\ query \in Queries
  /\ counted \in [files : Nat, returned : Nat]
  /\ call.phase \in {"idle", "listing", "tasks", "relisting", "scan", "footer", "fetch"}
  /\ call.at \in bookmarks \cup {FirstPage} /\ call.maxRows \in PageSizes \cup {0}
  /\ call.skipped \in 0..call.at.offset /\ call.offsetSkipped \in 0..query.offset
  /\ Len(call.page) <= call.maxRows
  /\ reply.kind \in {"none", "page", "stale", "failed", "budget"}
  /\ writes \in [puts : Nat, deletes : Nat] /\ writes.puts + writes.deletes <= MaxWrites /\ calls \in 0..MaxCalls

(* A slice during which the store is what it listed gives the page of the      *)
(* reference result after its bookmark, along every route, and a bookmark if   *)
(* and only if rows are left; with the pages before, if they were of the same  *)
(* listing and as quiet, it gives the result up to there and no row twice.    *)
QuietPagesAreExact ==
  reply.kind = "page" /\ reply.call.quiet =>
    LET c == reply.call
        whole == Whole(c.listed)
        end == c.at.offset + c.maxRows
    IN /\ AgreesWith(c.page, Cut(whole, c.at.offset + 1, end), c.listed)
       /\ c.at.quiet /\ c.at.listed \in {NoListing, c.listed} =>
            AgreesWith(c.at.given \o c.page, Cut(whole, 1, end), c.listed)
       /\ reply.more <=> Len(whole) > end

(* A bookmark pins a snapshot: a slice that gets past the fingerprint follows   *)
(* pages that were right, all together, whatever the store did meanwhile.      *)
IsPastFingerprint == call.phase \in {"relisting", "scan", "footer", "fetch"}
PaginationIsConsistent ==
  ~query.cached /\ IsPastFingerprint =>
    /\ call.at.offset = Len(call.at.given)
    /\ AgreesWith(call.at.given, Cut(Whole(call.at.listed), 1, call.at.offset), call.at.listed)

(* That is so unless an object was deleted, which may have come and gone: puts  *)
(* alone change the listing for good, and what a page got of a changing store  *)
(* is never continued.                                                      *)
ResumedPagesFollowExactOnes == writes.deletes = 0 => PaginationIsConsistent

(* A QueryResult that is used once, on a quiet store, is rejected for its      *)
(* budget only if the objects, the whole result, or what a buffer has to keep,  *)
(* exceed it.                                                               *)
FreshCallsAreServed ==
  reply.kind = "budget" /\ reply.call.quiet /\ ~query.reused /\ reply.call.listed # NoListing =>
    LET found == Found(reply.call.listed)
        keys == {found[i].row.key : i \in Matching(found)}
        matches == Cardinality(Matching(found))
        kept == CASE Route = "columnar" -> 0
                  [] Route = "rows" -> IF query.distinct THEN Cardinality(keys) ELSE 0
                  [] OTHER -> IF query.distinct \/ ~Limited THEN matches
                              ELSE Smaller(matches, Larger(1, TopK))
    IN \/ Len(reply.call.listed) > query.maxFiles
       \/ Len(Whole(reply.call.listed)) > query.maxOutputRows
       \/ kept > query.maxBufferedRows

(* A bounded buffer never keeps more rows than the offset and the limit.       *)
BuffersAreBounded ==
  call.phase \in {"scan", "footer", "fetch"} /\ Limited /\ ~query.distinct => Len(call.kept) <= Larger(1, TopK)
=============================================================================
