# LakeQL, specified in TLA+

LakeQL is a query engine in TypeScript over Parquet, Iceberg and Lance data in object storage. It has
no server: a query or a write runs on one event loop, and everything durable is an object in a store.
What is hard to get right in it is what happens between two awaits, between two processes that share a
store, and after one of them dies; and, in what is sequential, that the several ways to the same rows
(pruned or not, by rows or by vectors, whole or in parts, with deletes or without) agree. The modules here
model those parts, TLC checks them on small instances, and TLAPS proves what matters most of them for
every instance.

Module names, actions and variables keep the names of the code; PROJECT.json says for every definition
which lines it stands for.

## The system

| Part | State it keeps | Operations | What is hard |
|---|---|---|---|
| Checkpointed write tasks (`core/manifest.ts`, `parquet/index.ts`) | a checkpoint per task in an adapter, output objects in the store | `writePartitionedParquetTask`, `advanceTaskCheckpoint`, `createOutputManifestFromCheckpoints`, `createParquetTableAs` | a get and a put per stage, not atomic; crashes between any two; retries; takeovers of stale tasks by another key |
| Read controls (`core/store.ts`) | `ReadSemaphore.active` and `queue`, an abort signal | get, getRange, head, list, put, delete | wake-ups of waiters run later than the release; an abort at any moment |
| Work-unit fan-in (`core/work-unit.ts`) | next input, next to reduce, units in flight, buffered partials, failure | `fanInWorkUnits` | out-of-order completion under two bounds; one notification slot; failures |
| Iceberg commits (`iceberg/index.ts`) | metadata files, manifests and a version hint in the store; a loaded table per writer | load by hint, listing or path; `appendFiles`; `commitAppend` | optimistic commits, stale bases, half-done commits, lost answers |
| Iceberg scans (`iceberg/index.ts`, `lakeql/engine.ts`) | hydrated snapshots with delete files tied to data files; the plan of a scan | `mergeIcebergDeleteManifests`, `planFiles`, `applyIcebergDeletes`, `scanBatches` | deletes of other engines, by position, vector and key; compactions; appends that write hydrated manifests back |
| Cached object store (`core/object-store-cache.ts`) | a Map in LRU order, the bytes it holds | get, getRange, head, put, delete | a fill that follows an await, invalidation on both sides of a put, accounting |
| Parquet caches (`parquet/range-cache.ts` and neighbours) | entries, pending reads, bytes | ranged reads, prefetch | shared pending reads, coalesced ranges, eviction |
| Predicates (`core/evaluator.ts`, `batch.ts`, `sidecar-index.ts`, `parquet/row-group-pruning.ts`) | none | evaluate, mask, may match, must match | six readings of one predicate, over rows, vectors, statistics, an index and a path, which must agree on nulls, types and negation |
| Parquet tasks and aggregates (`parquet/task*.ts`, `aggregate-task.ts`, `core/vector-aggregate*.ts`, `vector-group-by.ts`) | work units, partial states, bytes of what they buffer | planning, splitting, windows, partial aggregates, merging | a split must cover the rows once; states merged, restored and cut by budgets must not depend on it |
| Query execution (`core/query.ts`, joins) | budget counters, a planning cache, bookmarks | scans, filters, slices and their resumption | a page is continued by offset into rows computed again, over a store that changes; limits, budgets and ties on six routes |
| Operator state and windows (`core/query.ts`, `query-sort.ts`, `window-*.ts`, `runtime.ts`, `parquet/window-task.ts`) | the state of a top k, sort, aggregate or window as bytes of the caller, and its runs in a spill adapter | `topKWithState`, `sortWithState`, `aggregateWithState`, `windowWithState`, `windowParquetTasks` | state that is restored between calls, rewritten run by run, and asked for again; frames, ties and shared sorts by several implementations |
| WebGPU backend (`webgpu/runtime.ts`, `backend.ts`, `core/physical.ts`) | a shared device and its generation, a scope, resident entries with leases, bytes | execute, cache, lease, release, close; repetition on the CPU | device loss at any moment; checks before a wait and use after it; bytes of uploads under way |
| SQL (`sql`, `lakeql`) | none of its own | parse, plan, route | size |
| Lance reader (`lance`) | a read context: requests, bytes and memory counted, leases, budgets, a deadline | `takeRows` by stable row id: row ids, deletion files, pages and encodings | reads that fail while others are under way; ids found over holes and bitmaps; offsets, bits and merged ranges |
| Store adapters (`s3`, `r2`, `http`, `fs`, `opfs`) | none, or a client | the store interface | external services |
| Formats and tools (`csv`, `json`, `arrow`, `geo`, `cli`) | none | conversions | none of the above |

They interact through one interface, `ObjectStore`. A query reads Parquet through read controls and a
range cache over a store that may itself be cached; its predicate first prunes files and row groups, then
filters what is left. A write puts Parquet files and records them in a checkpoint; a manifest is made of
the checkpoints of a job, and `appendOutputManifest` hands it to an Iceberg table, whose commit is a
conditional put of the version hint, and whose scans hide what its delete files name. The fan-in runs work
units, each a scan of its own, and reduces their partial aggregates in order. A fragment of a plan may run
on a GPU, over vectors that stay resident there, and on the CPU if the device is lost.

## Modules

| Module | Models | Checked by | Proofs |
|---|---|---|---|
| `TaskCheckpoint` | the checkpoint state machine, its adapter and the driver that writes a task's files | `MCTaskCheckpoint` | `TaskCheckpointProofs` |
| `ReadControls` | the controlled store and its semaphore | `MCReadControls` | `ObjectStoreProofs` |
| `OrderedReduce` | what a fan-in promises: results in order, and an end | as a property of `WorkUnit` | |
| `WorkUnit` | `fanInWorkUnits` | `MCWorkUnit` | `QueryProofs` |
| `IcebergCommit` | loading, appending and committing to one table in an object store | `MCTables`, with `MCIcebergCommit` | `TableProofs` |
| `IcebergScan` | the deletes of a table: hydration, planning, scanning, and appends in between | `MCIcebergScan`, with `IcebergScan.cfg` and `IcebergDeletes.cfg` | `TableProofs`, `SumsAndFolds` |
| `ObjectCache` | `cachedObjectStore` over `SharedMemoryCache` | `MCObjectCache` | `ObjectStoreProofs`, `SumsAndFolds` |
| `RangeCache` | ranged reads of a Parquet file through `cachedRangeBuffer` | `MCRangeCache` | `RangeCacheProofs`, `SumsAndFolds` |
| `QuerySlices` | pages of a query: `slice`, `resumableBatches`, `ResumedQuery` over the Parquet scanner | `MCQuerySlices` | `QueryProofs`, `SumsAndFolds` |
| `Predicates` | a predicate and its readings | as part of the next two | `PredicateScanProofs` |
| `PredicateScan` | a file on its way through a query with a predicate | `MCScans`, with `MCPredicateScan` | `PredicateScanProofs` |
| `TaskAggregates` | an aggregate over the tasks of a table: split, partial states, merge, budgets | `MCScans` | `PredicateScanProofs`, `SumsAndFolds` |
| `Windows` | window functions: sorting, frames, aggregates, buckets, and what a window means | as part of the next | |
| `OperatorState` | queries over slices that carry their operator's state, in memory or spilled | `MCOperatorState` | |
| `WebGpuBackend` | the device, its scope, the residency cache and the fragments executed with them | `MCWebGpuBackend` | `WebGpuBackendProofs`, `SumsAndFolds` |
| `LanceRows` | ranges, row ids, pages and encodings of Lance files, as functions | as part of the next | |
| `LanceReader` | a call of `takeRows` with its read context | `MCTables`, with `MCLanceData` | `TableProofs`, `SumsAndFolds` |

`TaskAggregates` and `PredicateScan` are built on `Predicates`; `WorkUnit` implements `OrderedReduce`, and the
merge of `TaskAggregates` takes the partials in the order it promises. `OperatorState` answers windows by `Windows`. The other modules meet in their
assumptions: `IcebergScan` starts where `IcebergCommit` ends, with a table whose snapshots are committed.

The MC modules give TLC its constants and symmetries and define nothing else, but for `MCScans` and `MCTables`, which each put two modules that do not
meet side by side in one run, and `MCLanceData`, which writes the datasets the reader is given, as the writer outside the repository does. Except where the table says
otherwise, a module's configuration has its name. A definition whose comment begins with "A defect" is not the code: it is a
plausible mistake in the definition that follows it. No action uses one; PROJECT.json's mutants put each in
the place of that definition, and the property it is meant for must then fail.

A step of a module is what the event loop runs between two awaits. So everything between an `await` and the
next belongs to one action, and every await is a point where any other actor may step in.

### TaskCheckpoint

`ck` is the checkpoint adapter (`MemoryCheckpointAdapter`), `objs` the objects in the store, `call` the
call of `writePartitionedParquetTask` each worker process runs, `acked` what calls have returned. A call is
`Start` (the first get and the decision where to begin), then per stage `Advance` (the get inside
`advanceTaskCheckpoint` and the acceptance of the transition) and `Persist` (its put), and between running
and output-written one `WriteFile` per file, in create mode preceded by `CheckAbsent`. `Crash` ends a call
anywhere; as no step undoes anything, it also stands for a store operation that throws. `Tick` moves the
clock that staleness is measured by. Rows are abstracted to the number of files they fall into; a file is
named by task, key and ordinal, as `partitionOutputPath` names it. `OutputManifest` is
`createOutputManifestFromCheckpoints` over `list(jobId)`, whose job is read out of the task id.

### ReadControls

`pc` is where the operation of each reader stands, `active` and `queue` are the semaphore's. `Read` is a
call up to its first await, `Resume` the continuation of a resumed waiter, `Issue` and `Answer` the read
with its slot, `Unmetered` and `UnmeteredAnswer` the operations that pass no semaphore, `Abort` the signal
(the caller's, or the deadline's: the code merges them).

### WorkUnit and OrderedReduce

`main` is the loop of `fanInWorkUnits`, `unit` each `runInput`. `Begin`, `Wake` and `ReduceResolves` run the
loop to its next await (`Turn`), `RunResolves`, `RunRejects` and `Crosses` settle a unit. `OrderedReduce`
says what the caller is promised: the partials reach reduce one at a time, in the order of the inputs, and
the call resolves after the last or rejects. Inputs are not undefined and rejections carry a value, as in
the callers (`lakeql/src/sql.ts`, `parquet/src/window-task.ts`).

### IcebergCommit

Appends are numbered in the order they begin, and `appends` keeps the snapshot id each was given: the number 0 stands for what made the base.
`files` are the metadata files by snapshot id, each the list of appends it holds, `manifests` the appends
whose manifest is in the store, `hint` the version hint with its etag. A writer loads (`ReadHint`, then
`ListMetadata` if there is none, or `OpenPath`; then `LoadMetadata`) and appends: `AppendFiles` picks
the snapshot id, `CheckBase`, `HeadHint`, `PutManifest`, `PutMetadata` and one of `UpdateHint`,
`UpdateHintUnanswered` and `Conflict` are the awaits of `commitAppend`. `StoreFails` and `Crash` may strike
at each. An id is drawn at random or given by the caller (`nextSnapshotId`), and the code looks for it only in the table the writer holds
(`validateNewSnapshotId`). So in the model it is any id new to that table, two appends may have one id, and with it one metadata file that the later put
writes over. So are their manifests, unless their job ids differ (`appendManifestPath`): `manifests` says that the manifest of an append was put, not that no other was put over it. A
load does not open the manifests of appends, as the metadata file lists their data files itself.

### IcebergScan

`data` and `deletes` are the files there are, `snapshots` the manifests of each snapshot of the current
metadata, `live` the rows each snapshot means, by which the scan is judged; `table` is how far the reader has
loaded, `scan` its one scan. The `Engine` actions are what other engines commit: appends, deletes of rows of one file
by position or vector, deletes of a key in a partition, upserts, and compactions, which leave entries of another
status in the manifests. `Load`, `AppendOwnFile`, `Plan`, `ReadBatch`, `EndFile` and `EndScan` are the reader;
`Hydrated` is a snapshot as `loadIcebergTable` holds it, with deletes tied to data files by `MergeDeletes`. An append of the
reader writes hydrated manifests back for every snapshot, which is how deletes stay tied to the files that were there. A batch may start
past the last one, as pruned row groups are passed over. Other engines do not touch a table that the reader has appended to: its
metadata is read by lakeql alone. Projection by field id, Avro and the validation of metadata are left out.

### ObjectCache

`entries` is the Map in its order, `cachedBytes` its count, `version` what the inner store holds. `Hit`,
`Miss`, `InnerRead` and `Fill` are a read; `Write`, `InnerWrite` and `Written` a put or delete with its two
invalidations; the `Fails` actions are throws of the inner store. A time-to-live needs no clock: `Miss` may
find an entry it deletes as expired. All writes pass the cache.

### RangeCache

`version` is the file in the store, `etag` what the head of each buffer saw, `cache` and `bytes` the shared
cache, `pending` the windows each buffer reads, `call` the slices. `Hit`, `Share` and `Read` are the three
ways a slice goes up to its first await, `Serve` is the store, `Arrive` the continuation with everything it
settles, `Fail` a read that throws, `Rewrite` another process that replaces the file, `Open` a scan that
opens a buffer anew. With a private cache there is one buffer that is never reopened. A file keeps its
length, which the key holds too. Expiry of the shared cache is in `ObjectCache`.

### QuerySlices

`store` is what each path holds (its version, and whether it is there), `planCache` the listing the
planning cache has, `query` the shape of the query, `counted` the budget counters of the `QueryResult`,
`call` the slice that runs and `bookmarks` those handed out. A slice is `Slice` (the call, by a fresh
result, a resumed one, or a reused one as in `resumableBatches`), `ListPlan` and `PlanTasks` (the listing
and the footers its fingerprint is made of, then `assertBookmarkMatches`), `ListScan` (the second listing,
by `rows`), `OpenFile`, `ReadFooter` and one batch at a time `StreamBatch` or `KeepBatch`, `EndScan`, and on the two
late-materialising routes `Fetch` per window and `GiveFetched`. `Put` and `Delete` are another process;
`ReadFails` is a read of an object that is gone or has been replaced. `Route` chooses among the row route,
the columnar one, the ordered buffer, the columnar top-k, ranked references and the late limit, by the
conditions of the code.

A row is its identity, the rank of its sort key and whether it matches. Row groups are pruned by exact
statistics; a scan that opened an object may get bytes of a later version of it, as the ranged reads are not
conditional. A listing is one step. Etags are not used again. Hive partitions, sidecar indexes, windows,
aggregates and accelerators are left out.

`Whole` is the reference: the matching rows of a listing, sorted stably, distinct, from the offset to the
limit. Every page of a call whose listing stood still is compared with it, alone and joined with the pages before it when
those are of the same listing (`given` and `quiet` of a bookmark are history, which no step reads).
A file in the bucket has at least one version (`ContentsAssumption`).

### Predicates and PredicateScan

A scalar is its type, its place in the order of that type and, for a timestamp or a string that reads as one, its
instant. A predicate is a sequence of nodes, operands before the nodes that use them, the last one the root: a leaf is a
comparison of a column with a literal on either side, IN, BETWEEN, LIKE or a null check, and an inner node AND, OR or NOT. The six
readings are `Evaluate` (`evaluator.ts`, per row), `Mask` (`batch.ts`, per vector), `RowGroupMayMatch` and `RowGroupMustMatch`
(statistics), `FileMayMatch` (the sidecar index) and `PartitionEval` (the hive path). Each is `Reading` of a logic (SQL's
three values with errors, the path's unknown, and the two of statistics) over what it says of the leaves.
`PredicateScan` takes one file with one row group through them: `PlanHive`, `PlanUnindexed` or `PlanSidecar`,
`PlanGroup`, and one of `ScanRows`, `ScanVectors` and `ScanWhole`, the last without looking at a row because the statistics
imply the predicate. Its assumptions are the bounds of the model (`IsPredicate`, `IsColumn`, `IsLiteral` of `Predicates`): a
literal is no NaN and no finer than its timestamp column, a column has values of one type and no strings in ISO form. Expressions of
functions, arithmetic and CASE, boxes and H3 cells are left out.

### TaskAggregates

`call` is a table (files of row groups of rows), a predicate, an aggregate and its options, `units` what `Plan` makes of it: row
groups planned by `RowGroupMayMatch`, `Split` under limits of groups and rows, and `Joined` again unless the call keeps
units apart. `RunUnit` reads a unit window by window into a partial state, in any order among the units; `Reduce` merges
partials in the order of the units; a budget that is exceeded ends either. The states are those of
`vector-aggregate.ts` for count, sum, avg, min, max, first, last, any, median, mode and count_distinct, with the
bytes of what they buffer as they are counted, lost by a snapshot and measured again. `AggregateOf` is the reference, over the rows of the
table that match. A call is as `CallsAssumption` says: the rows of a group have a column of values of one type and none that is NaN (which is equal to
everything row by row, and not in the statistics), and its predicate is one of that column. The variance family, ranks of quantiles, errors of types and budgets of time are left out.

### Windows and OperatorState

A window is its function, the column it is over, PARTITION BY, ORDER BY and a frame; a row is a record. `ApplyWindowsToRuns` is
`window-backend.ts`: windows whose orders are prefixes of one another share a sort (`SortWindows`), whose rows go back to the order of
the scan where the shorter order ties (`RowsForExpr`), partitions are cut out of the sorted rows, and each is evaluated, aggregates by the
segment tree where the code uses it (`QueryTree`) and frame by frame elsewhere. `EvaluateTasks` is the distributed way: rows spread over
buckets by any hash of their keys, evaluated bucket by bucket and put back in the order of the table. `Meaning` is the reference: it says what each
function is in SQL's words, from the rows of the partition in their order and a distance for each frame mode. It uses the comparison of keys and
`Inputs` and `AggregateValue` of the code, and none of its spans, groups, trees or sorts.

`plan` is what is asked of which slices and with which options, `spill` the entries of the adapter, `calls` the calls made so far,
`current` the one the caller waits for, `slice`, `handle` and `answer` what it has been given. A call is `Begin`, `Open` (the state is read
and compared with the request), `Load` (one spilled run at a time), `Scan` (the slice's rows and the answer), `WriteRun` per run,
`WriteState`, and `Deliver`. `Crash` ends the call its caller waits for, `Abandon` leaves it running while the caller makes it again. `Execute`
is a window query without state, over tasks or over rows. Each run of a sort is merged by the heap of `query-sort.ts`; top k, aggregates
and their buffers follow the code's states. Rows carry small integers, so that what a snapshot does to a value (a bigint
becomes a number or a string) is left out, as are DISTINCT, HAVING, operator memory in bytes, quantiles and the variance family.

### WebGpuBackend

`device` and `generation` are the manager's lease and `frames` the error scopes pushed on the device, `scopes` the
callers from the holder of the scope to the last waiter, `entries`, `recency`, `cached`, `residentBytes`, `reserved` and `openings` the
residency of the backend, `call` where each caller stands and `lease` the entry it holds. A fragment is `StartBatch` or `StartResident`, a
block `StartCache` (granted, joined, refused for want of room, or opened). Then the operation waits for the scope (`Enter`, or
`WaitAborted`), opens a device if there is none (`Opened`), works (`Execute`, `Upload`), pops its error scopes (`Pop`) and
settles (`Settle`, which repeats a batch fragment on the CPU when the loss of the device allows it); an upload is then
cached (`Cached`) and its caller and those who joined it go on (`Finish`). `LoseDevice` and `LostHandled` are
the loss and the handler that runs later, `Close` the owner. A read-back from buffers that are destroyed or of
another device is garbage and raises an error on the device. A caller asks for a block only when it holds none; calls
that joined an opening resume with its owner. Pipelines, kernels, reductions and the capture of attempts are left out.

### LanceReader

`take` is the call (dataset, ids, columns, budget), `phase` what it awaits, `cursor` the fragment whose row ids are next, `addresses` where the ids were found,
`deleted` the ids of them that turned out to be deleted, which the answer reports besides the missing ones, `tasks` the
reads under way by what they read, and `io` the counters of the read context. `Begin`, `ReadIds`, `ResolveIds`, `ReadDeletions`, `ReadFiles`, `Return` and
`Reject` are the continuations of `takeRowsWithStats`; each task (the ids or the deletions of a fragment, a data file) goes through its `Stages`, a read each.
`Deliver` and `Fail` settle a request, `Continue` is what a task does with all of its answers: it decodes (`executeCellPlans`), accounts for what it has
decoded, gives its lease back and sends the next read. As soon as a stage has told what an object is, `IsIntact` asks of it what the code does, in its order: that the row ids are inside
their file, that no more rows are deleted than there are and as many as the deletion file says, that the tables, columns and metadata of a data file are inside it. A deletion file
that is a bitmap is refused before a read (`Opened`). `ReadFiles` goes through the fragments in order; at one whose columns are supplied by no file, by two, or by tables of different length (`Objections`), it throws, and the tasks of
those before it go on. After a failure the call is over (`Reject`) and the other tasks go on. `Expire` is the deadline or the signal. Values behind one
that cannot be decoded are accounted for here too, as the call throws then. Opening a dataset, protocol buffers and the indexes are left out; how many reads are sent at a time is in
`ReadControls`. Files that are too short for their own framing are left out too (a deletion file under 18 bytes, a data file smaller than its footer), with nested projections, the
versions of files and the validation of the manifest: each is an error thrown from bytes that no other part reads.

## Runs

| Run | Instance | Shows |
|---|---|---|
| `task_checkpoint` | two workers, two keys, one task of two files, two readings of the clock | outputs are whole, lone retries go through, manifests are sound, only a lost update skips a stage |
| `reads` | four readers, two slots | the slots balance, no waiter is lost, everything settles |
| `fan_in` | six units, three in flight, four in flight or buffered | no lost wake-up, complete results, the refinement with its liveness |
| `tables` | two writers, three appends, two snapshot ids to give, with and without a hint; or a Lance dataset of two fragments, whole or corrupt, one failing read, budgets around what a call needs | whole tables, real conflicts, nothing uncommitted in sight; rows as they were written, errors for a reason, memory that is given back |
| `iceberg_scan` | three snapshots and files of two rows in two partitions and that of null; every mode, predicates on the partition | no deleted row is shown; every row that is lost was deleted by key |
| `iceberg_deletes` | the same, with paths written as URIs | a deleted row that is shown (a disagreement with the docs) |
| `object_cache` | two clients, two paths, one rewrite each, three bytes | exact accounting, explained staleness |
| `range_cache` | three slices on two buffers, one rewrite, windows of two bytes in a file of five | one read per window, exact answers, current readers |
| `query_slices` | eleven query shapes, two paths of two versions, two writes, three calls, pages of one or two rows | exact pages, pages that continue right ones, budgets that reject only what exceeds them |
| `scans` | seven hundred predicates of up to two leaves, columns of two values; and tables of four rows in three or four row groups, every aggregate, splits and budgets | no pruning of a file that matches, exact scans by all three readers; aggregates are those of the rows, budgets depend on the rows alone, units cover them once |
| `operator_state` | every window function, sixty frames, five rows; six rows in three slices, one or two lost calls, runs of two rows, budgets that do not hold | answers are those of one query over all slices, ties follow the scan, held states can be restored |
| `webgpu` | two callers, two blocks of two bytes in three, three calls, one loss | bounded residency, nothing of an earlier device, no garbage, leases that pin, an end to every call |

Why these bounds are enough. What goes wrong in these parts goes wrong between two actors; a third is there
where one has to overtake two others (readers) or share with two (slices). Two keys are an owner and a
successor, two files a task that can be half-written, and the clock need only be before or after the
timeout. Six units exceed the buffer of four, so that the loop blocks, drains and launches again while units
end out of order. Three appends are two that race and one that follows, and two ids for them let every two share one; the hint may be missing, and the base
lies in the middle of the ids so that a later snapshot may have a smaller one. Three snapshots are a file, a delete of
it, and an append, an upsert or a compaction after it; the partition of null is the one that deletes match like none.
The caches hold fewer bytes than the objects have, so that every fill evicts; requests lie within a window, across a boundary and past
the end of the file. The query shapes have at least one for each route, clause and budget, with limits and
offsets that end within a batch and beyond a file; the objects have ties within and across files, a row group
that the predicate rules out, and versions of different length. Two writes are the least that let an object
come and go; three calls are a page, its continuation and a third that could disagree. The literals lie below, at, between and above
the values of a column, among them null and those of another type; what two leaves show of a column of two values is, by the
proofs, so for all. Four rows are one row group cut in the middle, groups pruned on either side and a second file. Three slices are a state made, restored and made again over, of which one
lost call may overwrite entries the next reads; runs of two rows make one slice two runs; five rows have a partition with peers, a null key and a
row alone. Two blocks do
not fit together, so that one is evicted or refused, leased or under way while the device is lost. Of the Lance fragments one has three rows in two files and a deletion, the other
two rows and its ids in a file of its own; bytes have two bits, so that a bitmap needs a second; every memory budget from less than one read needs to enough is tried. Every bound is a
constant: `Instant` (the readings of the clock), `MaxId`, `MaxAppends`, `MaxVersion`, `NInputs`, `MaxWrites`, `MaxCalls`,
`MaxFiles`, `MaxSnapshots`, `MaxGeneration`, `MaxFailures`, `MaxRows`, `MaxWrappers` (two nested wrappers of values that may be null).

Symmetry is used where no liveness is checked. In `TaskCheckpoint` and `ObjectCache` an idle operation has
a task, key or path picked by `CHOOSE` out of a symmetric set; nothing reads those fields while it is idle.

Deadlock is checked in `task_checkpoint`, `reads`, `tables`, `object_cache` and `range_cache`; in `tables` a Lance call that is over, with nothing
under way behind it, stutters, so that what is checked is that it does not stop before. The others stop: a fan-in that
has resolved or rejected has nothing left to do once its units have settled (that it does not stop before is
`ImplementsOrderedReduce`), a client that has made its calls stops paging, a file is scanned once, an aggregate is computed
once, slices are used up, and a backend whose callers have made their calls and that is closed rests.

### Fairness

Three modules have any. `ReadControls` assumes, for each reader, that a queued
continuation runs and that the store answers: an event loop runs every microtask, and a request to a store
ends, by its answer or a network error. No reader has to call again and no signal has to fire. `WorkUnit`
assumes that the continuations of the loop run and that the promises of `run`, `boundary` and `reduce`
settle, which is all a fan-in can wait for. `WebGpuBackend` assumes for each caller that its turn, once it has
come, is taken, and that the promises of the GPU settle (`Resume`), which WebGPU guarantees even on a lost device; it does
not assume that a lost device is noticed, that a signal fires or that anybody closes. None is strong fairness: no step is
assumed that must be taken because it is possible now and then.

### Disagreements with the documentation

One run expects a violation, and its finding in PROJECT.json quotes the sentence: in a table whose engines write URIs, position deletes never
apply (`iceberg_deletes`), as `applyIcebergDeletes` compares the path in the delete file with one that
`normalizeManifestSourcedPath` has made relative to the store.

What else was met while modelling, where the code and a document, or two parts of the code, disagree. The models follow the code, and
the properties say what holds in spite of it.

Tasks, stores and queries.

- A replay under the same key can write files again: `advanceTaskCheckpoint` is a get and a
  put, and a slow call can put an older stage over a complete checkpoint.
- A task whose id has no `-task-` marker is in the manifest of no job (`jobIdFromTaskId`), and the ids of the
  documentation's example and of `createParquetTableAs` have none.
- In create mode a path is checked by a head and then put (`parquet/src/index.ts:922`): two writers may both find it absent.
- The read semaphore is not a hard limit: between a release and the continuation of the
  waiter it resumed, a new read takes the slot. The controlled store has no `conditionalPut` (`core/src/store.ts:146`), so a table loaded
  with read controls cannot be appended to.
- A unit of the fan-in that rejects with undefined (`core/src/work-unit.ts:63`) is not taken for a failure; no caller's does.
- A bookmark does not pin a snapshot: a slice takes its fingerprint from one listing and
  its rows from another, so rows of an object that is put in between and deleted again are in a page whose
  bookmark is accepted. `ResumedPagesFollowExactOnes` says that this is all: if no object is deleted, what
  a slice continues was right. With a planning cache the documentation gives up freshness.
- Cache keys of ranges hold no etag (`core/src/object-store-cache.ts:201`), so ranges of an object from before and after a rewrite by another process may
  meet. Objects of no bytes are cached without limit of number. The JSON cache and the caches on a file system check an
  expiry and then delete, and may delete what was written in between. The D1 adapter keeps a rejected promise of its table; the http adapter's cache of
  full objects is not invalidated.
- A file's own column overrides the hive value of the same name in rows (`{...partitionValues, ...rawRow}`), after the path
  has pruned by the hive value.

Iceberg.

- A stale base is not always rejected: a table object that has appended once appends
  again from the snapshot it was loaded at, and the first append disappears from the table.
- Two appends that are given one snapshot id (`nextSnapshotId`, `iceberg/src/index.ts:499-501`) put one metadata file, the later over the earlier, as
  `validateNewSnapshotId` (1182-1195) knows only the snapshots of the writer's own table. An acknowledged append may then be replaced by one of the same id, and one that was refused be
  seen through the hint. `OnlyCommitsAreVisible` is therefore of snapshots, not of appends; `FilesChangeByReuse` says that this is the only way a metadata file changes.
- Without a hint the highest metadata file is loaded, that of an append that failed or is not over too, and what is appended to it commits that append with it; `OnlyCommitsAreVisible` is of loads through the hint.
- Equality deletes apply regardless of sequence numbers, so rows that are written again after the delete are hidden
  (`LostRowsAreExplained` names this as the only cause; `docs/compatibility.md:30` lists them as supported). One in the partition of null
  applies to every partition, and a null sequence number is read as 0.
- A scan as of a timestamp looks among all snapshots, those of other branches too, and of two at one instant takes the older. An
  equality delete on a column that was renamed since throws.
- The REST commit (`iceberg/src/index.ts:746`) leaves its files behind when the answer is lost, and a retry after a conflict leaves more.

Predicates.

- The sidecar index reads a comparison with the literal on the left as if it were on the right, and may skip a file that
  matches (`docs/why-not-duckdb-wasm.md:9` calls pruning conservative). `IndexedExprs` leaves these comparisons to queries without an index.
- Row groups order strings in ISO form by instant, while the evaluator and the statistics order them by text; a list in IN is compared with the statistics only in
  its values of the type of the least. A literal finer than its timestamp column is cut to the column's unit by the masks. NaN equals everything to the
  evaluator and nothing to the masks. Each is a bound of `PredicateScan`, and `ScanIsExact` says nothing of NaN.

Aggregates.

- Tasks are read without a look at the etag they were planned from, so a rewritten object is read by the ranges of the old one.
- Without `preserveWorkUnits`, later units of a file are joined to its first, in whose place their rows are then merged; `docs/performance.md:43` says "in task order".
- `mergeVectorAggregateStates` leaves out the sorted runs of a state it merges from; its callers in the repository restore states from snapshots, which have none.

Operator state and windows.

- Rows that tie keep the order of their places in their runs when runs are spilled (`mergeWindowPartitions`), so the second row of the first
  run comes after the first row of the second; `docs/sql-dialect.md:221` says ties are broken by stable scan order. `TiesFollowTheScan` is of queries that
  do not spill runs.
- `windowWithState` with a spill adapter cuts the rows of all slices into runs anew and overwrites the entries of its spill id before it returns the
  new state: if it is lost in between, the state the caller has refers to entries that hold other rows, and row counts and sizes in it are never compared
  (`docs/compatibility.md:46` promises restore from spill references). A caller of a fixed spill id that keeps a reference, not bytes, has its state replaced
  by a call it never heard of, and counts that slice twice. `Repeatable` is the rest: ids of one's own, or bytes without windows. Entries are never deleted.
- Window tasks do not enforce the budget of partition rows that `docs/compatibility.md:46` lists, only that of buffered rows, per task.
- The sum of no value is 0 in aggregates by rows and null in windows; groups come back in the order of their keys once they have been in a state.

WebGPU.

- An upload that runs out of memory, or whose device is lost, leaves four buffers that nobody destroys until the device goes
  (`docs/webgpu-accelerated-execution.md:441`: "destroy unreferenced buffers deterministically").
- Between the continuation that caches an entry and that of the call that leases it, the entry has no references and may be
  evicted; the call then leases an entry that is gone, and its fragments are refused, which `docs/webgpu.md:117` promises for stale descriptors.

Lance.

- The read context counts a read when it starts and gives it back when it fails or is aborted (`lance/src/io.ts:139`), while other requests of it may still arrive.
- A column in dictionary encoding that has an empty string cannot be read where that string is asked for alone: its range of no bytes is planned,
  dropped when ranges are merged, and not found when it is sliced out ("Planned Lance range is not present"), while `packages/lance/README.md:119` lists the
  encoding as supported. `RowsAreAsWritten` names this as the one cause of that error (`hasEmptyItem`).
- Of what is not modelled: a range query on an index without a lower bound includes null keys; a vector search drops deleted rows after it has taken the k nearest;
  fragments that were appended after an index was made are not searched through it.

## Proofs

TLAPS checks every proof, for every value of the constants under the named assumptions. They say no more
than the code does: sizes and counts are naturals, limits positive, sets of readers, of callers and of blocks finite, `Base` an id, requests start
in range; a Lance call names finitely many ids and columns and has a budget of memory; in `PredicateScan` and `TaskAggregates` they are the bounds named above. TLC evaluates them in every run.

Each proof module of a component with steps has one inductive invariant `IInv`, its initial case, a lemma per action and a lemma
`Next... => IInv'`; each theorem is then a consequence.

- `TaskCheckpointProofs`. That recorded outputs are whole is not inductive: it needs what each call in
  flight knows (`CallSound`): which files are written by now, and that the checkpoint a put is decided from,
  however stale it is, was itself whole, and stays whole as objects are never removed. From it follow
  `RecordedOutputsAreWhole`, `ReturnedOutputsExist`, `ManifestIsSound` and `FreshPutsMoveOneStage`. `LoneRetrySucceeds` has an invariant of its own
  (`LoneInv`): at each of its awaits a call that runs alone knows the checkpoint as it is, in a stage from which its next put is allowed, and only a
  call in create mode stops to look for a file.
- `ObjectStoreProofs`, of both wrappers around a store. `NoLostWaiter` needs that an abort empties the queue: an aborted waiter drops the
  wake-up it was given, which is harmless only as no one is left waiting. `ActiveCountsHolders` is an argument on
  cardinalities. Of `ObjectCache`, that bytes are counted needs that no two entries have a key (the sum over the entries is one over their
  keys) and that an eviction ends: it is a recursive function of the number of entries, shown by induction to leave a part of them that fits.
  `StaleIsExplained` is inductive with the types of what calls know; a fill that starts before a write and ends after it is where it could fail.
  `EvictionsAreFair` is an action property no run checks: it follows from the same induction, which of the entries goes next.
- `QueryProofs`, of the fan-in and of paging. That a waiting loop is owed a wake-up needs that units are launched in order, that what
  has ended is either reduced or buffered (`NoneLost`), and that the next input in line is therefore never
  locked out by a full buffer. The safety part of the refinement, `ReducesInOrder`, rests on the same
  invariant.
  Of `QuerySlices`, the invariant `PagesTyped` says what each variable holds for any contents: along each route, that the rows a batch leaves
  are references to rows of the open object, that a stable sort moves rows and neither adds nor loses one (each place is taken once, by a
  count of what goes before), and that each heap stays within its limit at every row of the fold (`ByKeySteps`). `PagesTypeCorrect` and
  `BuffersBounded` are parts of it.
  `SnapshotsPinned` says that, as long as no object is deleted, a call that gets past the fingerprint has the listing its bookmark was made of, and that no
  page before it saw the store change. It needs that a plan tells the listing it was made of (`PlansHold`), and that a page that did see a change has
  a listing which lacks the last version of some object, for good (`Outdated`: versions only grow, and without deletes each is listed).
  `ResumedPagesFollow` concludes from it that `ResumedPagesFollowExactOnes` follows from `QuietPagesAreExact` in every behaviour, so
  what is left to TLC of paging is that one scan of a store that stands still is right. When the invariant was first tried it failed: one writer that puts, deletes and puts
  again makes a changed store look like the old one, so the property assumes that no object was deleted, and not only that none is missing now.
- `TableProofs`, of the modules about tables. Of `IcebergCommit`, `RacersConflict` needs that an etag grows with each commit and that a commit under
  way still holds the current one or has been overtaken; `HintIsWhole` that a metadata file in the store
  ends in an append of its own id and has put its manifests, whichever append of that id was the last to put it; `OnlyCommitsAreVisible` that the snapshots in a file loaded by the hint are of
  commits. All of them need that an append is its writer's alone, and in no file before its metadata is put (`AppendIsOwn`, `IsUnlisted`). `OnlyReuseWritesOver` says which step changes a
  metadata file that is there: the put of another append with the same id.
  Of `IcebergScan`, the invariant (`ScanIInv`) says of every snapshot that no delete in it names a row that is in the table, and that each
  row of its files that is not is removed by a delete that hydration ties to the file (`IsSound`). It must hold of manifests as engines
  wrote them and of manifests as the reader wrote them back: hydrating a snapshot keeps it (`HydIsSound`), and so does hydrating it twice, as what is
  hydrated has no delete manifest left (`OwnersAreSound`). A compaction is the hard step: it takes a file out together with the deletes that name no other.
  Of the scan, it says that what is left was planned from that snapshot, and that each row of it in a file already read was shown, pruned, or deleted by its key.
  `LostRowsAreExplained` follows for all constants. `DeletedRowsStayHidden` is proved for `~Absolute`, the paths of the run that passes;
  with absolute paths it is false, which `iceberg_deletes` shows.
  Of `LanceReader`, `LeasesAreReturned` takes one task at a time: while the others hold some bytes, every outcome a task can have (`Fails`, `Finishes`,
  `Send`, `Account`, ...) changes the context by what it changes of what this task holds (`Balanced`); what all hold is a sum, which splits into
  one task and the others (`TaskIsOne`, `TaskIsPut`). It is not inductive alone. A request reserves for its own ranges only, so it needs that a
  task has no lease when it sends (`Idles`); giving back takes a maximum with zero, so that nothing is lost in it needs that what is given back
  was counted; a call that throws among the fragments keeps what the tasks it has started hold; and starting tasks must not start one twice, which needs that those of a kind start in one phase (`PhasesFollow`), when the fold
  over a set of them meets each once (`AllAreStarted`, an induction along the sequence). The memory is within the budget as it is reserved before it
  is counted, for a value at a time while there is room (`FittingHasRoom`).
- `RangeCacheProofs`. `CurrentReadersAreCurrent` needs that the bytes kept or read under an etag are of that
  version or a later one the file has had (`Kept`, `Stands`), so that with a current etag only the current
  version is left; `AnswersAreExact` that a window holds its request (`WindowHoldsRequest`, an argument
  about division). That its bytes are counted needs, beyond `SumsAndFolds`, that evicting from the front of a sequence is a suffix of it, whose sum is what is left.
- `PredicateScanProofs`. `PruningHolds` and `ScanHolds` say of predicates of any depth, and columns of any length, what the run checks of
  small ones. The argument has two halves. Leaf by leaf, it is arithmetic: the statistics of a column enclose its values
  (`ExtremesExist`, an induction over the column), and what is true of a value is not ruled out by what encloses it
  (`GroupLeafMaySound`, `GroupLeafMustSound`, `FileLeafMaySound`), while masks and evaluator say the same (`MasksAgree`). Node by node,
  it is an induction over the nodes: each reading is the function its recursion says it is (`ReadingIsItsRecursion`), and what relates two readings of the
  leaves relates them at the root (`MayFollows`, `MustDecides`, `PathFollows`); a negation is where it would break, were it not that
  statistics say nothing of one. Both inductions go through sets: if a set of naturals has every number whose predecessors it has, it
  has all of them, as there is no least one it lacks (`LeastNatural` of `SumsAndFolds`, from the library's theorem on well-founded relations).
  Of `TaskAggregates`, `UnitsCover` says `UnitsCoverOnce` of tables, predicates and limits of any size. Its invariant (`UnitsArePlanned`) says of the units that
  their ranges are in order (`Tidy`), hold planned groups only, are disjoint within a file, and hold every planned group of every file. `Plan` establishes it
  along the loops of the planner: adding a group after all others leaves ranges tidy (`AppendTidy`, and `RangesOfSet` along the fold);
  a split that has taken some groups holds each in one closed unit or in the open one, whose counters are the cardinality and the sum of rows of its groups
  (`SplitFits`), so that `IsFull` is asked of the right numbers and a group that is not refused fits an empty unit (`RoomForGroup`, `TakeFits`); the units of one file more cover one file
  more (`NextFileCovers`); and joining keeps one unit per file with the groups of all its parts (`JoinKeeps`). From groups to rows it is arithmetic: a group
  starts where the one before ends (`StartSteps`), so a row is between the starts of a range's ends just if its group is in the range (`RowsBetweenStarts`), and
  a group with a row that matches is planned (`MatchIsPlanned`, by the theorem on statistics that `PruningHolds` uses).
- `WebGpuBackendProofs`. Every safety property of the run, for any callers, blocks, sizes, devices and calls. `ResultsAreExact` needs that
  the scope is held by the first of the queue alone (`TurnsAreTaken`), so that the error a bad read left is still the last when its own call pops it
  (`ErrorsAreKept`). `CacheIsOfTheDevice` needs that a device that is gone has a generation that is over (`GenerationsPass`), and that an upload that is not
  cached yet is nobody else's (`UploadsAreOwned`). The counters need that a key is opened by one call and not cached meanwhile
  (`OpeningsAreCalls`), and `LeasesPin` that references count lessees (`RefsCountLessees`). The sums of bytes are the library's fold over a set;
  `SumsAndFolds` shows what such a sum does when sets join or part, when elements are renamed and along a sequence, by inductions over how many elements there are; the other two caches and `LanceReader` use it too.
- `SumsAndFolds` has, besides, what the folds of a query need: what `FoldLeft` gives is reached step by step along the sequence (`FoldIsResult`, `ResultSteps`), so that what each
  step keeps, the fold keeps; `FlattenSeq` puts sequences one after the other; and under a strict order each place from the first to the last is that of one element.

A theorem states a property by its name, so its module EXTENDS the component's; where two components share a proof module, the names of one are prefixed
(`CacheSpec`, `ScanSpec`, `TakeSpec`).

Only model-checked: liveness (`EveryOperationSettles`, `EveryCallSettles` and the fairness of `ImplementsOrderedReduce`), which
is beyond the prover; `OperatorState`, whose heap is recursive; that the rows of `LanceReader` are those that were written, which is what a decoder computes of a page's bytes;
of `QuerySlices`, `QuietPagesAreExact` and `FreshCallsAreServed`, which compare whole scans with a reference, batch by batch; the references of `TaskAggregates` (`AggregateIsOfTheRows`,
`BudgetIsOfTheRows`), which are sorts and folds of data of any length; and the
violation, which is a single behaviour.

## Plan

What is done was ordered by what a mistake would cost: durable state first (checkpoints, commits), then what
everything reads through (controls, fan-in, caches), then queries, and then the parts that must agree with them (predicates, aggregates, deletes,
windows, the GPU). What is left, in this order:

1. The joins, against a reference over bounded inputs, as `Windows` has one.
2. The REST commit of Iceberg, as a second commit catalog under `IcebergCommit`.
3. The JSON cache, whose expiry is a check followed by a delete, and the indexes of Lance datasets.

## Not modelled

Most of the repository's lines compute values without state: the parsers and printers of SQL and its plans, the encoders
and decoders of Parquet, Avro, Arrow, CSV, JSON and geometry, the expression library, the shader text of the GPU kernels and
the command line. Nothing in them is concurrent, and whether they are right is a matter of data that tests reach better than a
model of them would; a specification of them would repeat them line by line. What is modelled is where control decides.

- The adapters of object stores: thin clients. What the rest relies on (get, getRange, head, put,
  conditionalPut) is modelled where it is used.
- The catalogs behind REST, Glue and Nessie: services, of which the repository has clients or stubs.
- Joins: functions of sorted or hashed rows, without state between calls; quantiles, the variance family and RANGE over timestamps and intervals.
- The parts the plan lists, until they are done.

PROJECT.json has the list of components with their status, and of hazards with the properties that cover
them; a hazard without a property says why.
