------------------------------ MODULE LanceReader ------------------------------
(***************************************************************************)
(* A call of takeRows on a Lance dataset (packages/lance/src/index.ts): it    *)
(* resolves stable row ids fragment by fragment, then reads the deletions of *)
(* all fragments at once, and then the cells of all data files at once, each *)
(* in several dependent reads.  One read context counts the requests, the    *)
(* bytes and the memory of all of them (io.ts): reads lease their bytes and  *)
(* give them back, on every path; decoded values stay until the call ends.   *)
(*                                                                         *)
(* When one read fails, the call fails, and the reads of its other tasks go   *)
(* on behind it.  How many reads are sent at a time is the subject of        *)
(* ReadControls.                                                           *)
(***************************************************************************)
EXTENDS LanceRows

CONSTANTS
  Takes,           \* the calls: dataset, ids, select, orNull and budget
  CoalesceGap,     \* the gap that is read rather than left out
  MaxCoalesced,    \* the longest request that comes of it
  EdgeBytes,       \* bytes of the magic and of the footer of a deletion file
  MatchBytes,      \* what a deleted row that was asked for counts for (8)
  MaxFailures,     \* bound: how many reads fail
  MaxRows          \* bound: how many rows a fragment has

(* A call has finitely many ids and columns, of finitely many files, and its   *)
(* budget of memory is a number of bytes.                                   *)
ASSUME TakesAssumption ==
  \A call \in Takes :
    /\ call.budget.memory \in Nat
    /\ IsFiniteSet(DOMAIN call.ids) /\ IsFiniteSet(DOMAIN call.select)
    /\ \A f \in DOMAIN call.dataset.fragments : IsFiniteSet(DOMAIN call.dataset.fragments[f].files)

VARIABLES
  take,       \* the call
  phase,      \* what it awaits: start, ids, deletions, files or nothing, when it is over
  cursor,     \* the fragment whose row ids are next
  addresses,  \* where the ids were found: a function to fragment and row
  deleted,    \* the ids that were found in deleted rows
  tasks,      \* the reads under way, by what they read
  io,         \* the counters of the read context
  expired,    \* whether the signal is aborted, or the time is over
  failures,   \* how many reads have failed
  answer      \* what the call returned or threw

takeVars == <<take, phase, cursor, addresses, deleted, tasks, io, expired, failures, answer>>

NoAnswer == [kind |-> "none"]
Thrown(why) == [kind |-> "error", why |-> why]

Fragments == take.dataset.fragments
FieldNamed(name) == CHOOSE field \in take.dataset.fields : field.name = name
Known == {field.name : field \in take.dataset.fields}
Missing == ToSet(take.ids) \ DOMAIN addresses

-----------------------------------------------------------------------------
(* The context.  Reads are counted when they are sent; memory is reserved for *)
(* the bytes of a lease and for what is decoded, if they are a number of bytes. *)
NoReads == [requests |-> 0, bytes |-> 0, memory |-> 0, decoded |-> 0]

Reserved(context, bytes) == [context EXCEPT !.memory = @ + bytes]
HasRoom(context, bytes) == bytes \in Nat /\ context.memory + bytes <= take.budget.memory
releaseMemory(context, bytes) == [context EXCEPT !.memory = Max({0, @ - bytes})]
accountDecodedMemory(context, bytes) == [context EXCEPT !.memory = @ + bytes, !.decoded = @ + bytes]
releaseDecodedMemory(context) == [releaseMemory(context, context.decoded) EXCEPT !.decoded = 0]

Counted(context, physical) == [context EXCEPT !.requests = @ + Len(physical), !.bytes = @ + TotalBytes(physical)]
WithinReads(context) == context.requests <= take.budget.requests /\ context.bytes <= take.budget.bytes

(* Values decoded one by one, until there is no room for the next.           *)
SumOf(costs) == FoldLeft(LAMBDA sum, cost : sum + cost, 0, costs)
Fitting(context, costs) ==
  LET upTo(n) == SumOf(SubSeq(costs, 1, n))
  IN upTo(Max({n \in 0..Len(costs) : \A m \in 1..n : HasRoom(context, upTo(m))}))
AllFit(context, costs) == HasRoom(context, SumOf(costs))

-----------------------------------------------------------------------------
(* Tasks: the row ids of a fragment, the deletions of a fragment, and the      *)
(* selected columns of a data file of a fragment.  Each goes through stages,  *)
(* a read each, of which some are skipped.                                  *)
Stages(t) ==
  CASE t[1] = "ids" -> <<"head", "ids">>
    [] t[1] = "deletion" -> <<"head", "edges", "footer", "metadata", "validity", "values">>
    [] t[1] = "file" -> <<"head", "tail", "table", "metadata", "one", "two", "offsets", "items">>

FragmentOf(t) == Fragments[t[2]]
DeletionOf(t) == FragmentOf(t).deletion
FileOf(t) == FragmentOf(t).files[t[3]]

RowsIn(f) == {addresses[id][2] : id \in {x \in DOMAIN addresses : addresses[x][1] = f}}
SelectedIn(t) == {name \in ToSet(take.select) : \E p \in Places(FragmentOf(t), FieldNamed(name).id) : p[1] = t[3]}
ColumnsOf(t) == {ColumnOf(FragmentOf(t), t[3], FieldNamed(name).id) : name \in SelectedIn(t)}

CellPlan(t, name, row) ==
  LET field == FieldNamed(name)
      page == findPage(FileOf(t).pages[ColumnOf(FragmentOf(t), t[3], field.id)], row)
  IN [type |-> field.type, dimension |-> field.dimension, page |-> page, at |-> row - page.rowStart]
Cells(t) == SelectedIn(t) \X RowsIn(t[2])
PlanOf(t, cell) == CellPlan(t, cell[1], cell[2])

AllPagesFound(t) ==
  \A cell \in Cells(t) : PagesOf(FileOf(t).pages[ColumnOf(FragmentOf(t), t[3], FieldNamed(cell[1]).id)], cell[2]) # {}
AllPlansAreValid(t) == \A cell \in Cells(t) : ValidPlan(PlanOf(t, cell))

At(cells, step) == {cell \in DOMAIN cells : cells[cell].step = step}

(* What a stage reads.                                                     *)
Wanted(t, cells, stage) ==
  CASE stage = "head" -> {}
    [] stage = "ids" -> {FragmentOf(t).external}
    [] stage = "edges" -> {Span(0, EdgeBytes), Span(DeletionOf(t).size - EdgeBytes, EdgeBytes)}
    [] stage \in {"footer", "validity", "values"} -> {DeletionOf(t)[stage]}
    [] stage = "metadata" /\ t[1] = "deletion" -> {DeletionOf(t).metadata}
    [] stage = "tail" -> {readTail(FileOf(t).size)}
    [] stage = "table" -> TableRanges(FileOf(t), ColumnsOf(t))
    [] stage = "metadata" /\ t[1] = "file" -> MetadataRanges(FileOf(t), ColumnsOf(t))
    [] stage = "one" -> UNION {PhaseOneRanges(PlanOf(t, cell)) : cell \in Cells(t)}
    [] stage = "two" -> {cells[cell].range : cell \in At(cells, "bytes")}
    [] stage = "offsets" -> UNION {ItemRanges(PlanOf(t, cell), cells[cell]) : cell \in At(cells, "item")}
    [] stage = "items" -> {cells[cell].range : cell \in At(cells, "text")}

Requests(t, cells, stage) ==
  IF stage = "edges" THEN Physical(Wanted(t, cells, stage), 0, EdgeBytes)
  ELSE Physical(Wanted(t, cells, stage), CoalesceGap, MaxCoalesced)

Skipped(t, cells, stage) ==
  CASE stage = "head" /\ t[1] = "file" -> FileOf(t).sizeKnown
    [] stage \in {"table", "metadata"} /\ t[1] = "file" -> rangesCoveredBy(readTail(FileOf(t).size), Wanted(t, cells, stage))
    [] stage = "validity" -> DeletionOf(t).validity.length = 0
    [] stage = "two" -> At(cells, "bytes") = {}
    [] stage = "offsets" -> At(cells, "item") = {}
    [] stage = "items" -> At(cells, "text") = {}
    [] OTHER -> FALSE

(* A read of data may not be that of the whole file.                         *)
IsDataRead(stage) == stage \in {"one", "two", "offsets", "items", "validity", "values"}
SizeOf(t) == IF t[1] = "deletion" THEN DeletionOf(t).size ELSE FileOf(t).size
IsWhole(t, physical) == \E i \in DOMAIN physical : physical[i].offset = 0 /\ physical[i].length >= SizeOf(t)

(* A task that waits for a stage: for the answers to come, holding the lease  *)
(* of this read, and those of earlier ones that it keeps.                     *)
NoTask == [stage |-> "none", pending |-> {}, lease |-> <<>>, kept |-> 0, cells |-> <<>>, error |-> "none"]
Holds(task) == TotalBytes(task.lease) + task.kept

Settled(task) == task.stage = "done" \/ task.error # "none"

(* Outcomes of a step of a task: the task and the context after it.           *)
(* A defect: only the lease of the read that failed is given back.            *)
FailsOfOneLease(task, context, why) ==
  [task |-> [task EXCEPT !.error = why, !.pending = {}, !.lease = <<>>, !.kept = 0],
   io |-> releaseMemory(context, TotalBytes(task.lease))]

Fails(task, context, why) ==
  [task |-> [task EXCEPT !.error = why, !.pending = {}, !.lease = <<>>, !.kept = 0],
   io |-> releaseMemory(context, Holds(task))]
Finishes(task, context) ==
  [task |-> [task EXCEPT !.stage = "done", !.lease = <<>>, !.kept = 0], io |-> releaseMemory(context, Holds(task))]

Send(t, task, context, physical) ==
  IF ~HasRoom(context, TotalBytes(physical)) THEN Fails(task, context, "budget")
  ELSE [task |-> [task EXCEPT !.lease = physical, !.pending = ToSet(physical)],
        io |-> Reserved(context, TotalBytes(physical))]
Request(t, task, context, physical) ==
  IF IsDataRead(task.stage) /\ IsWhole(t, physical) THEN Fails(task, context, "whole")
  ELSE IF ~WithinReads(Counted(context, physical)) THEN Fails(task, context, "budget")
  ELSE Send(t, task, Counted(context, physical), physical)

readRanges(t, task, context) ==
  IF expired THEN Fails(task, context, "expired")
  ELSE IF task.stage = "head" THEN [task |-> [task EXCEPT !.pending = {Span(0, 0)}], io |-> context]
  ELSE Request(t, task, context, Requests(t, task.cells, task.stage))

(* On to the next stage that is not skipped, or the end.  The end of a data    *)
(* file is kept until the metadata of the columns is there.                   *)
StartCells(t, task, context) ==
  IF AllPagesFound(t) /\ AllPlansAreValid(t) THEN readRanges(t, task, context) ELSE Fails(task, context, "invalid")
EnterStage(t, task, context) ==
  IF task.stage = "one" THEN StartCells(t, [task EXCEPT !.kept = 0], releaseMemory(context, task.kept))
  ELSE readRanges(t, task, context)
StagesAfter(t, task, from) == {i \in DOMAIN Stages(t) : i > from /\ ~Skipped(t, task.cells, Stages(t)[i])}
EnterFirst(t, task, context, stages) ==
  IF stages = {} THEN Finishes(task, context)
  ELSE EnterStage(t, [task EXCEPT !.stage = Stages(t)[Min(stages)]], context)
Enter(t, task, context, from) == EnterFirst(t, task, context, StagesAfter(t, task, from))

Index(t, stage) == CHOOSE i \in DOMAIN Stages(t) : Stages(t)[i] = stage

(* The lease of a read is given back, or kept with the others.                *)
Released(task, context) == [task |-> [task EXCEPT !.lease = <<>>], io |-> releaseMemory(context, TotalBytes(task.lease))]
Kept(task, context) == [task |-> [task EXCEPT !.lease = <<>>, !.kept = @ + TotalBytes(task.lease)], io |-> context]

-----------------------------------------------------------------------------
(* What each stage makes of the bytes it has waited for.                      *)
(* Row ids are copied.                                                     *)
Copied(task, context) ==
  LET length == TotalBytes(task.lease)
  IN IF ~HasRoom(context, length) THEN Fails(task, context, "budget")
     ELSE Released(task, accountDecodedMemory(context, length))

(* A deletion file: valid row offsets, as many as the manifest says, and none  *)
(* of them null; only those that were asked for are remembered.               *)
DeletedOffsets(t) == ToSet(DeletionOf(t).rows)
ValidDeletions(t) ==
  /\ DeletedOffsets(t) \subseteq 0..(FragmentOf(t).rows - 1)
  /\ Len(DeletionOf(t).rows) = DeletionOf(t).expected
Decompressed(t, task, context, isValid) ==
  IF ~HasRoom(context, DeletionOf(t).decompressed) THEN Fails(task, context, "budget")
  ELSE IF ~isValid THEN Fails(task, context, "invalid")
  ELSE Released(task, context)

(* What is checked of an object as soon as a stage has told what it is: that   *)
(* the row ids are inside theirs; that no more rows are deleted than there     *)
(* are, and as many as the file says; that a data file has its tables, the     *)
(* selected columns and their metadata inside.                              *)
MetadataIsInside(t) == \A c \in ColumnsOf(t) : validateContainedRange(FileOf(t).metadata[c], FileOf(t))
FooterIsValid(t) ==
  /\ TableIsInside(FileOf(t))
  /\ ColumnsOf(t) \subseteq DOMAIN FileOf(t).metadata
  /\ Skipped(t, <<>>, "table") => MetadataIsInside(t)

IsIntact(t, stage) ==
  CASE stage = "head" /\ t[1] = "ids" -> End(FragmentOf(t).external) <= FragmentOf(t).idsSize
    [] stage = "head" /\ t[1] = "deletion" -> DeletionOf(t).expected <= FragmentOf(t).rows
    [] stage = "metadata" /\ t[1] = "deletion" -> DeletionOf(t).numRows = DeletionOf(t).expected
    [] stage = "tail" -> FooterIsValid(t)
    [] stage = "table" -> MetadataIsInside(t)
    [] OTHER -> TRUE

readRequestedDeletionOffsets(t, task, context) ==
  LET matches == DeletedOffsets(t) \cap RowsIn(t[2])
      bytes == Cardinality(matches) * MatchBytes
      outcome == Decompressed(t, task, context, ValidDeletions(t))
  IN IF outcome.task.error # "none" THEN outcome
     ELSE IF ~HasRoom(outcome.io, bytes) THEN Fails(outcome.task, outcome.io, "budget")
     ELSE Finishes([outcome.task EXCEPT !.cells = matches], accountDecodedMemory(outcome.io, bytes))

(* Cells: those that are decoded now are accounted for one by one, here also    *)
(* those behind a cell that cannot be decoded, which ends the call.          *)
Decoded(t, task, stage) ==
  LET bytes == FileOf(t).bytes
      cells == task.cells
  IN CASE stage = "one" -> [cell \in Cells(t) |-> PhaseOne(PlanOf(t, cell), task.lease, bytes)]
       [] stage = "two" -> [cell \in DOMAIN cells |->
            IF cells[cell].step = "bytes" THEN TextCell(cells[cell], task.lease, bytes) ELSE cells[cell]]
       [] stage = "offsets" -> [cell \in DOMAIN cells |->
            IF cells[cell].step = "item" THEN ItemCell(PlanOf(t, cell), cells[cell], task.lease, bytes) ELSE cells[cell]]
       [] stage = "items" -> [cell \in DOMAIN cells |->
            IF cells[cell].step = "text" THEN TextCell(cells[cell], task.lease, bytes) ELSE cells[cell]]

NewlyDone(before, after) == {cell \in At(after, "done") : cell \in DOMAIN before => before[cell].step # "done"}
CostsOf(t, cells, new) == [i \in DOMAIN new |-> estimateDecodedValueBytes(PlanOf(t, new[i]), cells[new[i]])]

Account(task, context, costs) ==
  LET accounted == accountDecodedMemory(context, Fitting(context, costs))
  IN IF At(task.cells, "lost") # {} THEN Fails(task, accounted, "lost")
     ELSE IF At(task.cells, "invalid") # {} THEN Fails(task, accounted, "invalid")
     ELSE IF ~AllFit(context, costs) THEN Fails(task, accounted, "budget")
     ELSE Released(task, accounted)
AccountCells(t, task, context, cells) ==
  Account([task EXCEPT !.cells = cells], context, CostsOf(t, cells, SetToSeq(NewlyDone(task.cells, cells))))
executeCellPlans(t, task, context) == AccountCells(t, task, context, Decoded(t, task, task.stage))

Gained(t, task, context) ==
  CASE task.stage = "head" -> [task |-> task, io |-> context]
    [] task.stage = "ids" -> Copied(task, context)
    [] task.stage \in {"edges", "footer", "tail"} \/ (task.stage = "metadata" /\ t[1] = "deletion") -> Kept(task, context)
    [] task.stage = "validity" -> Decompressed(t, task, context, ~DeletionOf(t).hasNulls)
    [] task.stage = "values" -> readRequestedDeletionOffsets(t, task, context)
    [] task.stage = "table" \/ (task.stage = "metadata" /\ t[1] = "file") -> Released(task, context)
    [] IsDataRead(task.stage) /\ t[1] = "file" -> executeCellPlans(t, task, context)

Processed(t, task, context) ==
  IF task.stage = "head" /\ expired THEN Fails(task, context, "expired")
  ELSE IF ~IsIntact(t, task.stage) THEN Fails(task, context, "invalid")
  ELSE Gained(t, task, context)

Continued(t, outcome) ==
  IF Settled(outcome.task) THEN outcome ELSE Enter(t, outcome.task, outcome.io, Index(t, outcome.task.stage))

-----------------------------------------------------------------------------
(* Starting all tasks of a phase, one after the other, up to their first read. *)
With(started, t, outcome) ==
  [tasks |-> [x \in (DOMAIN started.tasks) \cup {t} |-> IF x = t THEN outcome.task ELSE started.tasks[x]], io |-> outcome.io]
Opened(t, context) ==
  IF t[1] = "deletion" /\ DeletionOf(t).isRoaring THEN Fails(NoTask, context, "unsupported") ELSE Enter(t, NoTask, context, 0)
Started(started, t) == With(started, t, Opened(t, started.io))
StartedAll(ts) == FoldLeft(Started, [tasks |-> tasks, io |-> io], SetToSeq(ts))

Await(started, next) ==
  /\ phase' = next
  /\ tasks' = started.tasks
  /\ io' = started.io

ThrowsWith(context, why) ==
  /\ answer' = Thrown(why)
  /\ phase' = "over"
  /\ io' = releaseDecodedMemory(context)
Throws(why) == ThrowsWith(io, why)

(* The call: the snapshot is that of the dataset, ids count once against the   *)
(* budget of decoded rows, and as often as they are given against that of     *)
(* rows that are returned.                                                 *)
Begin ==
  /\ phase = "start"
  /\ LET why == IF ~take.isSnapshot THEN "snapshot"
                ELSE IF Len(take.ids) > take.budget.output THEN "budget"
                ELSE IF expired THEN "expired"
                ELSE IF Cardinality(ToSet(take.ids)) > take.budget.rows THEN "budget"
                ELSE "none"
     IN IF why # "none" THEN Throws(why) /\ UNCHANGED tasks ELSE phase' = "ids" /\ UNCHANGED <<answer, io, tasks>>
  /\ UNCHANGED <<take, cursor, addresses, deleted, expired, failures>>

(* The ids of one fragment after the other, until all are found.              *)
ReadIds ==
  /\ phase = "ids"
  /\ cursor \in DOMAIN Fragments
  /\ Missing # {}
  /\ Fragments[cursor].external.length > 0
  /\ <<"ids", cursor>> \notin DOMAIN tasks
  /\ Await(StartedAll({<<"ids", cursor>>}), "ids")
  /\ UNCHANGED <<take, cursor, addresses, deleted, expired, failures, answer>>

IdsAreRead == Fragments[cursor].external.length = 0 \/ (<<"ids", cursor>> \in DOMAIN tasks /\ tasks[<<"ids", cursor>>].stage = "done")

ResolveIds ==
  /\ phase = "ids"
  /\ cursor \in DOMAIN Fragments
  /\ Missing # {}
  /\ IdsAreRead
  /\ LET fragment == Fragments[cursor]
         found == resolveRequestedRowIds(Missing, fragment.segments)
     IN IF SequenceIsValid(fragment.segments, fragment.rows)
          THEN /\ addresses' = [id \in DOMAIN addresses \cup DOMAIN found |->
                                  IF id \in DOMAIN found THEN <<cursor, found[id]>> ELSE addresses[id]]
               /\ cursor' = cursor + 1
               /\ UNCHANGED <<phase, io, answer>>
          ELSE Throws("invalid") /\ UNCHANGED <<addresses, cursor>>
  /\ UNCHANGED <<take, deleted, tasks, expired, failures>>

(* The deletions of all fragments that have some of the rows, at once.        *)
ReadDeletions ==
  /\ phase = "ids"
  /\ Missing = {} \/ cursor \notin DOMAIN Fragments
  /\ LET fragments == {addresses[id][1] : id \in DOMAIN addresses}
     IN Await(StartedAll({<<"deletion", f>> : f \in {x \in fragments : Fragments[x].deletion.size > 0}}), "deletions")
  /\ UNCHANGED <<take, cursor, addresses, deleted, expired, failures, answer>>

Finished(kind) == \A t \in DOMAIN tasks : t[1] = kind => tasks[t].stage = "done" /\ tasks[t].error = "none"
IsDeleted(id) ==
  LET t == <<"deletion", addresses[id][1]>>
  IN t \in DOMAIN tasks /\ addresses[id][2] \in tasks[t].cells

(* Rows that are deleted are missing too.  Then the cells of all data files    *)
(* that have a selected column are read at once; a column that does not exist, *)
(* or that a fragment has in two of its files, is found out only if there is a  *)
(* row to read, and then the files of the other fragments are being read.      *)
FilesOf(ids) ==
  LET files == UNION {{<<"file", f, k>> : k \in DOMAIN Fragments[f].files} : f \in {addresses[id][1] : id \in ids}}
  IN {t \in files : SelectedIn(t) # {}}

ObjectionTo(f, name) ==
  IF name \notin Known THEN "column"
  ELSE IF ~IsLocated(Fragments[f], FieldNamed(name).id) THEN "invalid"
  ELSE "none"
Objections(f) == SelectSeq([i \in DOMAIN take.select |-> ObjectionTo(f, take.select[i])], LAMBDA why : why # "none")

ReadFiles ==
  /\ phase = "deletions"
  /\ Finished("deletion")
  /\ LET live == {id \in DOMAIN addresses : ~IsDeleted(id)}
         objected == {f \in {addresses[id][1] : id \in live} : Objections(f) # <<>>}
         started == StartedAll(FilesOf({id \in live : addresses[id][1] \notin objected}))
     IN /\ addresses' = [id \in live |-> addresses[id]]
        /\ deleted' = DOMAIN addresses \ live
        /\ IF live # ToSet(take.ids) /\ ~take.orNull THEN Throws("absent") /\ UNCHANGED tasks
           ELSE IF objected # {} THEN ThrowsWith(started.io, Head(Objections(Min(objected)))) /\ tasks' = started.tasks
           ELSE Await(started, "files") /\ UNCHANGED answer
  /\ UNCHANGED <<take, cursor, expired, failures>>

(* Rows in the order of the ids: a field that no file has is null.            *)
CellOf(id, name) ==
  LET at == addresses[id]
      places == Places(Fragments[at[1]], FieldNamed(name).id)
      t == <<"file", at[1], (CHOOSE p \in places : TRUE)[1]>>
  IN IF places = {} THEN Null ELSE tasks[t].cells[<<name, at[2]>>].value
NoRow == [row |-> FALSE]
RowOf(id) == IF id \in DOMAIN addresses THEN [name \in ToSet(take.select) |-> CellOf(id, name)] ELSE NoRow

Return ==
  /\ phase = "files"
  /\ Finished("file")
  /\ IF expired THEN answer' = Thrown("expired")
     ELSE answer' = [kind |-> "rows", rows |-> [i \in DOMAIN take.ids |-> RowOf(take.ids[i])], missing |-> Missing, deleted |-> deleted]
  /\ phase' = "over"
  /\ io' = releaseDecodedMemory(io)
  /\ UNCHANGED <<take, cursor, addresses, deleted, tasks, expired, failures>>

(* The first task that fails ends the call; the others do not know.           *)
Reject ==
  /\ phase # "over"
  /\ \E t \in DOMAIN tasks : tasks[t].error # "none" /\ Throws(tasks[t].error)
  /\ UNCHANGED <<take, cursor, addresses, deleted, tasks, expired, failures>>

-----------------------------------------------------------------------------
(* The answers of reads, in any order: bytes, or a failure, which gives the    *)
(* whole lease back while its other requests are under way.                   *)
Becomes(t, outcome) ==
  /\ tasks' = [tasks EXCEPT ![t] = outcome.task]
  /\ io' = outcome.io

Deliver(t) ==
  /\ \E range \in tasks[t].pending :
       LET received == [tasks[t] EXCEPT !.pending = @ \ {range}]
       IN Becomes(t, IF expired THEN Fails(tasks[t], io, "expired") ELSE [task |-> received, io |-> io])
  /\ UNCHANGED <<take, phase, cursor, addresses, deleted, expired, failures, answer>>

Fail(t) ==
  /\ tasks[t].pending # {}
  /\ failures < MaxFailures
  /\ failures' = failures + 1
  /\ Becomes(t, Fails(tasks[t], io, "failed"))
  /\ UNCHANGED <<take, phase, cursor, addresses, deleted, expired, answer>>

Continue(t) ==
  /\ tasks[t].pending = {}
  /\ ~Settled(tasks[t])
  /\ Becomes(t, Continued(t, Processed(t, tasks[t], io)))
  /\ UNCHANGED <<take, phase, cursor, addresses, deleted, expired, failures, answer>>

Expire ==
  /\ ~expired
  /\ take.mayExpire
  /\ phase # "over"
  /\ expired' = TRUE
  /\ UNCHANGED <<take, phase, cursor, addresses, deleted, tasks, io, failures, answer>>

TakeInit ==
  /\ take \in Takes
  /\ phase = "start"
  /\ cursor = 1
  /\ addresses = <<>>
  /\ deleted = {}
  /\ tasks = <<>>
  /\ io = NoReads
  /\ expired = FALSE
  /\ failures = 0
  /\ answer = NoAnswer

TakeNext ==
  \/ Begin \/ ReadIds \/ ResolveIds \/ ReadDeletions \/ ReadFiles \/ Return \/ Reject \/ Expire
  \/ \E t \in DOMAIN tasks : Deliver(t) \/ Fail(t) \/ Continue(t)

TakeSpec == TakeInit /\ [][TakeNext]_takeVars

-----------------------------------------------------------------------------
(* What the writer of the dataset put into a row: its fragment's ids and cells *)
(* by name and row, and the rows that are deleted.                           *)
WrittenAt(id) ==
  {at \in (DOMAIN Fragments) \X (1..MaxRows) : at[2] <= Fragments[at[1]].rows /\ Fragments[at[1]].ids[at[2]] = id}
LiveAt(id) == {at \in WrittenAt(id) : at[2] - 1 \notin ToSet(Fragments[at[1]].deletion.rows)}
Written(id) ==
  IF LiveAt(id) = {} THEN NoRow
  ELSE LET at == CHOOSE a \in LiveAt(id) : TRUE
       IN [name \in ToSet(take.select) |->
             IF name \in DOMAIN Fragments[at[1]].cells THEN Fragments[at[1]].cells[name][at[2]] ELSE Null]

(* Safety: rows come back in the order of their ids, each with what was        *)
(* written to it, whatever encodings, pages and files hold its cells and in    *)
(* whatever order their reads are answered; deleted and unknown ids have none. *)
(* The ids that are given for rows are those they are found by.              *)
(* Of those that have none, the ones that were written and deleted are told     *)
(* apart.                                                                  *)
(* A call throws for a reason: rows that are absent, a dataset that is corrupt, *)
(* deletions of a kind that is not read,                                    *)
(* a read that failed, time that is over, or a budget that is bounded.  A      *)
(* range that was not planned is asked for only where a dictionary has an      *)
(* empty text.                                                             *)
RowsAreAsWritten ==
  /\ answer.kind = "rows" =>
       /\ answer.rows = [i \in DOMAIN take.ids |-> Written(take.ids[i])]
       /\ answer.missing = {id \in ToSet(take.ids) : LiveAt(id) = {}}
       /\ answer.deleted = {id \in answer.missing : WrittenAt(id) # {}}
       /\ \A f \in DOMAIN Fragments : SequenceIsValid(Fragments[f].segments, Fragments[f].rows) =>
            \A row \in 1..Fragments[f].rows : stableRowIdAtOffset(Fragments[f].segments, row - 1) = Fragments[f].ids[row]
  /\ answer.kind = "error" =>
       CASE answer.why = "absent" -> ~take.orNull /\ \E id \in ToSet(take.ids) : LiveAt(id) = {}
         [] answer.why = "invalid" -> take.dataset.isCorrupt
         [] answer.why = "unsupported" -> \E f \in DOMAIN Fragments : Fragments[f].deletion.isRoaring
         [] answer.why = "lost" -> take.dataset.hasEmptyItem
         [] answer.why = "failed" -> failures > 0
         [] answer.why = "expired" -> expired
         [] answer.why = "budget" -> take.budget # take.dataset.ample
         [] OTHER -> answer.why \in {"snapshot", "column"}

(* What some tasks hold together.                                          *)
HeldBy(ts) == MapThenSumSet(LAMBDA t : Holds(ts[t]), DOMAIN ts)

(* Safety: the memory that is counted is that of the leases that are held and   *)
(* of the values that are decoded, whichever reads fail and whoever goes on     *)
(* after the call is over: nothing is given back twice, or forgotten.          *)
LeasesAreReturned == io.memory = io.decoded + HeldBy(tasks) /\ io.memory <= take.budget.memory
=============================================================================
