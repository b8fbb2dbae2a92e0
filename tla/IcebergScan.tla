------------------------------ MODULE IcebergScan ------------------------------
(***************************************************************************)
(* Reading an Iceberg table (packages/iceberg/src/index.ts): other engines   *)
(* append files, delete rows by position, by key and by deletion vector, and *)
(* compact files; a reader loads the metadata, hydrates the manifests of     *)
(* every snapshot, plans the files of one of them and scans these file by    *)
(* file and batch by batch (scanBatches of lakeql/src/engine.ts), hiding the  *)
(* rows that are deleted; and appends files of its own.                     *)
(*                                                                         *)
(* Files are numbered in the order of the plans.  Commits, and how they are  *)
(* lost, are the subject of IcebergCommit.                                  *)
(***************************************************************************)
EXTENDS Integers, Sequences, FiniteSets, SequencesExt, FiniteSetsExt

CONSTANTS
  MaxFiles,       \* bound: how many data files are written
  MaxSnapshots,   \* bound: how many snapshots are committed
  Contents,       \* what a file may hold: sequences of keys, one per row
  Partitions,     \* the values of the partition column
  NullPartition,  \* the null among them
  Wheres,         \* the predicates: sets of partition values they allow
  Absolute        \* whether the engines write paths as URIs of the table's location

ASSUME ContentsAssumption == \A rows \in Contents : rows \in Seq(Nat) /\ rows # <<>>
ASSUME PartitionsAssumption == NullPartition \in Partitions
ASSUME WheresAssumption == Wheres \subseteq SUBSET Partitions
ASSUME BoundsAssumption == MaxFiles \in Nat /\ MaxSnapshots \in Nat /\ Absolute \in BOOLEAN

VARIABLES
  data,       \* the data files: their partition and the keys of their rows
  deletes,    \* the delete files
  snapshots,  \* the snapshots of the current metadata: their manifests
  live,       \* what each snapshot means: the rows that are in the table
  ours,       \* the files the reader has appended: no other engine reads its metadata
  table,      \* how many snapshots the loaded metadata has, 0 when none is loaded
  scan        \* the scan, from its plan on

tableVars == <<data, deletes, snapshots, live, ours>>
scanVars == <<tableVars, table, scan>>

(* A row is its file and its position, which counts from 0.                 *)
RowsOf(f) == {<<f, i>> : i \in 0..(Len(data[f].rows) - 1)}
KeyOf(row) == data[row[1]].rows[row[2] + 1]
PartitionOf(row) == data[row[1]].partition

-----------------------------------------------------------------------------
(* Other engines.  A manifest has entries of data or of delete files, and an  *)
(* entry that is no longer valid keeps its place with another status.       *)
DataEntry(f) == [content |-> "data", id |-> f, status |-> "added", deletes |-> {}]
DeleteEntry(d) == [content |-> "delete", id |-> d, status |-> "added", deletes |-> {}]
LastManifests == IF snapshots = <<>> THEN {} ELSE Last(snapshots)
LastLive == IF snapshots = <<>> THEN {} ELSE Last(live)

CommitSnapshot(manifests, rows) ==
  /\ snapshots' = Append(snapshots, manifests)
  /\ live' = Append(live, rows)

IsOurs == ours # {}
CanCommit == Len(snapshots) < MaxSnapshots
AddsFile(f, partition, rows) ==
  f = Len(data) + 1 /\ f <= MaxFiles /\ data' = Append(data, [partition |-> partition, rows |-> rows])
NewRows(f, rows) == {<<f, i>> : i \in 0..(Len(rows) - 1)}

EngineAppend(f, partition, rows) ==
  /\ ~IsOurs /\ CanCommit
  /\ AddsFile(f, partition, rows)
  /\ CommitSnapshot(LastManifests \cup {{DataEntry(f)}}, LastLive \cup NewRows(f, rows))
  /\ UNCHANGED <<deletes, ours, table, scan>>

(* Rows of one file, by position or by a deletion vector.                   *)
EngineDeleteRows(kind, rows) ==
  /\ ~IsOurs /\ CanCommit
  /\ rows # {} /\ rows \subseteq LastLive /\ Cardinality({row[1] : row \in rows}) = 1
  /\ deletes' = Append(deletes, [kind |-> kind, partition |-> PartitionOf(CHOOSE row \in rows : TRUE),
                                 rows |-> rows, keys |-> {}])
  /\ CommitSnapshot(LastManifests \cup {{DeleteEntry(Len(deletes) + 1)}}, LastLive \ rows)
  /\ UNCHANGED <<data, ours, table, scan>>

(* Every row of a partition that has one of the keys.                       *)
RowsWith(keys, partition) == {row \in LastLive : PartitionOf(row) = partition /\ KeyOf(row) \in keys}
EqualityDelete(keys, partition) == [kind |-> "equality-delete", partition |-> partition, rows |-> {}, keys |-> keys]

EngineDeleteKey(key, partition) ==
  /\ ~IsOurs /\ CanCommit
  /\ RowsWith({key}, partition) # {}
  /\ deletes' = Append(deletes, EqualityDelete({key}, partition))
  /\ CommitSnapshot(LastManifests \cup {{DeleteEntry(Len(deletes) + 1)}}, LastLive \ RowsWith({key}, partition))
  /\ UNCHANGED <<data, ours, table, scan>>

(* An upsert deletes the keys of the rows it appends in the same snapshot.   *)
EngineUpsert(f, partition, rows) ==
  /\ ~IsOurs /\ CanCommit
  /\ AddsFile(f, partition, rows)
  /\ deletes' = Append(deletes, EqualityDelete(Range(rows), partition))
  /\ CommitSnapshot(LastManifests \cup {{DataEntry(f)}, {DeleteEntry(Len(deletes) + 1)}},
            (LastLive \ RowsWith(Range(rows), partition)) \cup NewRows(f, rows))
  /\ UNCHANGED <<ours, table, scan>>

(* The rows of a file are written anew without those that are deleted; its    *)
(* entry, and those of the position deletes that name no other file, are     *)
(* marked as deleted in the manifests that have them.                       *)
EngineCompact(f, g) ==
  LET left == RowsOf(f) \cap LastLive
      IsGone(e) == \/ e.content = "data" /\ e.id = f
                   \/ e.content = "delete" /\ deletes[e.id].kind # "equality-delete" /\ deletes[e.id].rows \subseteq RowsOf(f)
      Rewritten(m) == {[e EXCEPT !.status = IF IsGone(e) THEN "deleted" ELSE @] : e \in m} IN
  /\ ~IsOurs /\ CanCommit
  /\ f \in DOMAIN data /\ left # {}
  /\ \E kept \in SetToSeqs(left) :
       /\ \A i, j \in DOMAIN kept : i < j => kept[i][2] < kept[j][2]
       /\ AddsFile(g, data[f].partition, [i \in DOMAIN kept |-> KeyOf(kept[i])])
       /\ CommitSnapshot({Rewritten(m) : m \in LastManifests} \cup {{DataEntry(g)}},
                         (LastLive \ RowsOf(f)) \cup NewRows(g, kept))
  /\ UNCHANGED <<deletes, ours, table, scan>>

-----------------------------------------------------------------------------
(* The manifests of a snapshot, as they are loaded.                         *)
NoScan == [at |-> "idle", snapshot |-> 0, mode |-> "strict", where |-> {}, files |-> {},
           offset |-> 0, shown |-> {}, pruned |-> {}]

ScanInit ==
  /\ data = <<>> /\ deletes = <<>> /\ snapshots = <<>> /\ live = <<>> /\ ours = {}
  /\ table = 0
  /\ scan = NoScan

ValidEntries(m) == {e \in m : e.status # "deleted"}

DataEntries(m) == {e \in m : e.content = "data"}
DeleteIds(ms) == {e.id : e \in {x \in UNION ms : x.content = "delete"}}

(* A defect: the partitions are not looked at. *)
DeleteFileMayApplyAnywhere(d, f) == TRUE

(* A null in a partition is left out, so a delete in the null partition looks *)
(* like one of the whole table.  Nothing else of the delete file is compared. *)
DeleteFileMayApply(d, f) ==
  \/ deletes[d].partition = NullPartition
  \/ data[f].partition = deletes[d].partition

(* A defect: the deletes of manifests without data are lost with them. *)
MergeDeletesOfData(ms) ==
  LET dataManifests == {m \in ms : DataEntries(m) # {}}
      Merged(e) == [e EXCEPT !.deletes = @ \cup {d \in DeleteIds(dataManifests) : DeleteFileMayApply(d, e.id)}] IN
  {{Merged(e) : e \in DataEntries(m)} : m \in dataManifests}

MergeDeletes(ms) ==
  LET Merged(e) == [e EXCEPT !.deletes = @ \cup {d \in DeleteIds(ms) : DeleteFileMayApply(d, e.id)}] IN
  {{Merged(e) : e \in DataEntries(m)} : m \in {m \in ms : DataEntries(m) # {}}}

Hydrated(n) == MergeDeletes({ValidEntries(m) : m \in snapshots[n]})

Load ==
  /\ scan.at = "idle" /\ table # Len(snapshots)
  /\ table' = Len(snapshots)
  /\ UNCHANGED <<tableVars, scan>>

(* The reader appends a file: the new metadata holds the manifests of every   *)
(* snapshot as they were hydrated, with the deletes file by file.           *)
NextManifests(f) == Hydrated(table) \cup {{DataEntry(f)}}

AppendOwnFile(f, partition, rows) ==
  /\ scan.at = "idle" /\ CanCommit
  /\ table > 0 /\ table = Len(snapshots)
  /\ AddsFile(f, partition, rows)
  /\ ours' = ours \cup {f}
  /\ snapshots' = Append([n \in DOMAIN snapshots |-> Hydrated(n)], NextManifests(f))
  /\ live' = Append(live, LastLive \cup NewRows(f, rows))
  /\ table' = Len(snapshots')
  /\ UNCHANGED <<deletes, scan>>

-----------------------------------------------------------------------------
(* The plan: a predicate allows values of the partition column, and says      *)
(* nothing of the null, which is in no path.  All values stand for none.     *)
Modes == {"strict", "ignore-unsupported-deletes", "ignore-deletes"}
IsSupported(d) == deletes[d].kind \in {"position-delete", "equality-delete"}
PartitionMayMatch(where, f) == data[f].partition \in where \cup {NullPartition}

IsRefused(mode, entries) == mode = "strict" /\ \E e \in entries : \E d \in e.deletes : ~IsSupported(d)

PlannedDeletes(mode, e) == IF mode = "ignore-deletes" THEN {} ELSE {d \in e.deletes : IsSupported(d)}

Plan(n, mode, where) ==
  LET entries == {e \in UNION Hydrated(n) : PartitionMayMatch(where, e.id)}
      Planned(e) == [file |-> e.id, deletes |-> PlannedDeletes(mode, e)]
      started == [NoScan EXCEPT !.snapshot = n, !.mode = mode, !.where = where] IN
  /\ scan.at = "idle" /\ n \in 1..table
  /\ scan' = IF IsRefused(mode, entries) THEN [started EXCEPT !.at = "refused"]
             ELSE [started EXCEPT !.at = "scanning",
                     !.files = {Planned(e) : e \in entries}]
  /\ UNCHANGED <<tableVars, table>>

-----------------------------------------------------------------------------
(* The scan of a file; one that is aborted, or whose read fails, stops where  *)
(* it stands, as any behaviour may.  The path of the file is relative to the   *)
(* store once its manifest is read; in a position delete it is as the engine   *)
(* wrote it.                                                               *)
OpenFile == CHOOSE x \in scan.files : \A y \in scan.files : x.file <= y.file
File == OpenFile.file
DataFilePath(f) == [scheme |-> "none", file |-> f]
WrittenPath(f) == [scheme |-> IF Absolute THEN "s3" ELSE "none", file |-> f]

PositionsDeleted ==
  {row[2] : row \in {r \in UNION {deletes[d].rows : d \in OpenFile.deletes} :
                       WrittenPath(r[1]) = DataFilePath(File)}}
KeysDeleted == UNION {deletes[d].keys : d \in OpenFile.deletes}

RowOffset(from) == from

VisibleRows(from, to) ==
  {i \in from..(to - 1) :
     /\ RowOffset(from) + (i - from) \notin PositionsDeleted
     /\ data[File].rows[i + 1] \notin KeysDeleted}

(* A batch of rows from one position to another; a batch that carries its     *)
(* position may leave rows out before it, which the reader has pruned.       *)
ReadBatch(from, to) ==
  /\ scan.at = "scanning" /\ scan.files # {}
  /\ scan.offset <= from /\ from < to /\ to <= Len(data[File].rows)
  /\ scan' = [scan EXCEPT !.offset = to, !.shown = @ \cup {<<File, i>> : i \in VisibleRows(from, to)},
                          !.pruned = @ \cup {<<File, i>> : i \in scan.offset..(from - 1)}]
  /\ UNCHANGED <<tableVars, table>>

EndFile ==
  /\ scan.at = "scanning" /\ scan.files # {}
  /\ scan' = [scan EXCEPT !.files = @ \ {OpenFile}, !.offset = 0,
                          !.pruned = @ \cup {<<File, i>> : i \in scan.offset..(Len(data[File].rows) - 1)}]
  /\ UNCHANGED <<tableVars, table>>

EndScan ==
  /\ scan.at = "scanning" /\ scan.files = {}
  /\ scan' = [scan EXCEPT !.at = "done"]
  /\ UNCHANGED <<tableVars, table>>

-----------------------------------------------------------------------------
Writes(f, partition, rows) ==
  EngineAppend(f, partition, rows) \/ EngineUpsert(f, partition, rows) \/ AppendOwnFile(f, partition, rows)

ScanNext ==
  \/ \E partition \in Partitions, rows \in Contents : Writes(Len(data) + 1, partition, rows)
  \/ \E kind \in {"position-delete", "deletion-vector"}, rows \in SUBSET LastLive : EngineDeleteRows(kind, rows)
  \/ \E key \in UNION {Range(rows) : rows \in Contents}, partition \in Partitions : EngineDeleteKey(key, partition)
  \/ \E f \in DOMAIN data : EngineCompact(f, Len(data) + 1)
  \/ Load
  \/ \E n \in 1..table, mode \in Modes, where \in Wheres : Plan(n, mode, where)
  \/ \E to \in UNION {1..Len(rows) : rows \in Contents} : \E from \in 0..(to - 1) : ReadBatch(from, to)
  \/ EndFile \/ EndScan

ScanSpec == ScanInit /\ [][ScanNext]_scanVars

-----------------------------------------------------------------------------
(* The type of the state.                                                  *)
ScanTypeOK ==
  /\ \A f \in DOMAIN data : data[f].partition \in Partitions /\ data[f].rows \in Seq(Nat)
  /\ Len(live) = Len(snapshots) /\ table \in 0..Len(snapshots) /\ ours \subseteq DOMAIN data
  /\ scan.at \in {"idle", "refused", "scanning", "done"}

(* A scan shows no row that is not in the table at its snapshot, however many *)
(* commits, compactions and appends of the reader's own came before or after *)
(* it, and wherever its batches begin: "rows are visible after supported      *)
(* position and equality deletes" (docs/querying-iceberg.md:71).  Only a scan *)
(* that was told to ignore deletes shows more, and one that ignores the       *)
(* unsupported shows no more than those would hide.                         *)
DeletedRowsStayHidden ==
  \A row \in IF scan.shown = {} THEN {} ELSE scan.shown \ live[scan.snapshot] :
    \/ scan.mode = "ignore-deletes"
    \/ /\ scan.mode = "ignore-unsupported-deletes"
       /\ \E d \in DOMAIN deletes : ~IsSupported(d) /\ row \in deletes[d].rows

(* A row of the snapshot that a finished scan does not show was outside its    *)
(* predicate, pruned by the reader, or has a key that was deleted before the  *)
(* row was written, in its partition or in that of null: equality deletes are *)
(* applied to every file of their partition, earlier or later.  A file that   *)
(* the reader appended loses no row, as its metadata ties the deletes to the  *)
(* files that were there.                                                  *)
IsDeletedByKey(row) ==
  \E d \in DOMAIN deletes : KeyOf(row) \in deletes[d].keys /\ deletes[d].partition \in {PartitionOf(row), NullPartition}

LostRowsAreExplained ==
  scan.at = "done" =>
    \A row \in live[scan.snapshot] \ (scan.shown \cup scan.pruned) :
      \/ PartitionOf(row) \notin scan.where
      \/ scan.mode # "ignore-deletes" /\ IsDeletedByKey(row) /\ row[1] \notin ours
=============================================================================
