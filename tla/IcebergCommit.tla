---------------------------- MODULE IcebergCommit ----------------------------
(***************************************************************************)
(* Appends to an Iceberg table in an object store: IcebergTable.appendFiles *)
(* and ObjectStoreIcebergCommitCatalog of packages/iceberg/src/index.ts,    *)
(* and the loaders a writer takes its table from.                          *)
(*                                                                         *)
(* A table is a chain of metadata files, one per snapshot, and a version    *)
(* hint that names the current one.  A writer holds an IcebergTable it has  *)
(* loaded, appends to it as often as it likes, and may load it again.  Each *)
(* store operation is an await; it may fail, and its process may crash.     *)
(*                                                                         *)
(* The snapshot id of an append is drawn at random or given by its caller    *)
(* (nextSnapshotId), and only the table the writer holds is searched for it:  *)
(* two appends may have one id, and so one metadata file.  The model tells    *)
(* appends apart by numbers, in the order they begin, and keeps the id each   *)
(* was given; number 0 stands for what made the snapshot Base.               *)
(***************************************************************************)
EXTENDS Integers, SequencesExt

CONSTANTS Writer,       \* processes, each with a table of its own
          MaxId,        \* the largest snapshot id: Number.MAX_SAFE_INTEGER
          Base,         \* the snapshot of the table at the start
          MaxAppends    \* bound: how many appends begin

(* Snapshot ids; the metadata file of a snapshot is named by its id.        *)
Id == 1..MaxId

ASSUME IdsAssumption == MaxId \in Nat /\ Base \in Id
ASSUME AppendsAssumption == MaxAppends \in Nat

NoHint == 0

First == 0

VARIABLES files,      \* metadata file of an id: the appends it lists, oldest first
          manifests,  \* appends whose manifest was put in the store
          hint,       \* version-hint.text: the version it holds and its etag
          call,       \* what each writer does, and the table it holds
          appends,    \* history: the snapshot id of each append
          applied,    \* history: commits whose conditional put took effect
          acked,      \* history: appends that returned to the caller
          refused     \* history: commits that reported a conflict

vars == <<files, manifests, hint, call, appends, applied, acked, refused>>

IdOf(a) == IF a = First THEN Base ELSE appends[a]

SnapshotsOf(table) == {IdOf(a) : a \in ToSet(table)}

(* A file holds the whole history of its table; absent is the empty one.    *)
Absent == <<>>
Exists(id) == files[id] # Absent

(* etag is what head returned for the hint; a hint that does not exist has   *)
(* the etag 0, which stands for null.                                       *)
Hint == [version: Id \cup {NoHint}, etag: Nat]

Phases == {"idle", "listing", "loading", "loaded", "check", "head", "manifest", "metadata", "hint"}

Call == [pc: Phases, path: Id, table: Seq(Nat), next: Nat, etag: Nat]

Commit == [append: Nat, base: Id, etag: Nat]

CommitOf(c) == [append |-> c.next, base |-> c.path, etag |-> c.etag]

IdleCall == [pc |-> "idle", path |-> Base, table |-> <<>>, next |-> First, etag |-> 0]

Goto(w, pc) == call' = [call EXCEPT ![w].pc = pc]

-----------------------------------------------------------------------------
(* Loading a table *)

(* latestMetadataPathFromList: the highest version, whoever wrote it.       *)
Latest(id) == Exists(id) /\ \A other \in Id : Exists(other) => other <= id

(* A defect: the highest file is loaded whatever the hint says. *)
ReadsLatest(w) ==
  /\ call[w].pc \in {"idle", "loaded"}
  /\ \E id \in Id :
       /\ Latest(id)
       /\ call' = [call EXCEPT ![w] = [IdleCall EXCEPT !.pc = "loading", !.path = id]]
  /\ UNCHANGED <<files, manifests, hint, appends, applied, acked, refused>>

(* loadIcebergTableFromObjectStore: readVersionHint, and the listing if there *)
(* is no hint.                                                              *)
ReadHint(w) ==
  /\ call[w].pc \in {"idle", "loaded"}
  /\ call' = [call EXCEPT ![w] =
                IF hint.version = NoHint THEN [IdleCall EXCEPT !.pc = "listing"]
                ELSE [IdleCall EXCEPT !.pc = "loading", !.path = hint.version]]
  /\ UNCHANGED <<files, manifests, hint, appends, applied, acked, refused>>

ListMetadata(w) ==
  /\ call[w].pc = "listing"
  /\ \E id \in Id :
       /\ Latest(id)
       /\ call' = [call EXCEPT ![w].pc = "loading", ![w].path = id]
  /\ UNCHANGED <<files, manifests, hint, appends, applied, acked, refused>>

(* loadIcebergTable by the path an append returned, or the first one.       *)
OpenPath(w, id) ==
  /\ call[w].pc \in {"idle", "loaded"}
  /\ id \in {IdOf(a) : a \in acked \cup {First}}
  /\ call' = [call EXCEPT ![w] = [IdleCall EXCEPT !.pc = "loading", !.path = id]]
  /\ UNCHANGED <<files, manifests, hint, appends, applied, acked, refused>>

LoadMetadata(w) ==
  /\ call[w].pc = "loading"
  /\ call' = [call EXCEPT ![w].pc = "loaded", ![w].table = files[call[w].path]]
  /\ UNCHANGED <<files, manifests, hint, appends, applied, acked, refused>>

-----------------------------------------------------------------------------
(* appendFiles and commitAppend.  The table the writer holds never changes: *)
(* a second append starts from the snapshot the table was loaded at.  The id *)
(* is new to that table, and maybe to no other (validateNewSnapshotId).      *)
AppendFiles(w) ==
  /\ call[w].pc = "loaded"
  /\ Len(appends) < MaxAppends
  /\ \E id \in Id \ SnapshotsOf(call[w].table) : appends' = Append(appends, id)
  /\ call' = [call EXCEPT ![w].pc = "check", ![w].next = Len(appends) + 1]
  /\ UNCHANGED <<files, manifests, hint, applied, acked, refused>>

(* The check for a stale base: the metadata file the table was loaded from   *)
(* is read again, and its current snapshot compared with the table's.       *)
CheckBase(w) ==
  /\ call[w].pc = "check"
  /\ IF IdOf(Last(files[call[w].path])) = IdOf(Last(call[w].table))
     THEN Goto(w, "head") /\ UNCHANGED refused
     ELSE Goto(w, "loaded") /\ refused' = refused \cup {CommitOf(call[w])}
  /\ UNCHANGED <<files, manifests, hint, appends, applied, acked>>

(* A defect: the put always expects that there is no hint. *)
HeadsNothing(w) ==
  /\ call[w].pc = "head"
  /\ call' = [call EXCEPT ![w].pc = "manifest", ![w].etag = 0]
  /\ UNCHANGED <<files, manifests, hint, appends, applied, acked, refused>>

HeadHint(w) ==
  /\ call[w].pc = "head"
  /\ call' = [call EXCEPT ![w].pc = "manifest", ![w].etag = hint.etag]
  /\ UNCHANGED <<files, manifests, hint, appends, applied, acked, refused>>

(* A defect: the hint is updated before the metadata file is put. *)
PutManifestOnly(w) ==
  /\ call[w].pc = "manifest"
  /\ manifests' = manifests \cup {call[w].next}
  /\ Goto(w, "hint")
  /\ UNCHANGED <<files, hint, appends, applied, acked, refused>>

PutManifest(w) ==
  /\ call[w].pc = "manifest"
  /\ manifests' = manifests \cup {call[w].next}
  /\ Goto(w, "metadata")
  /\ UNCHANGED <<files, hint, appends, applied, acked, refused>>

(* The put is over whatever is there.                                       *)
PutMetadata(w) ==
  /\ call[w].pc = "metadata"
  /\ files' = [files EXCEPT ![IdOf(call[w].next)] = Append(call[w].table, call[w].next)]
  /\ Goto(w, "hint")
  /\ UNCHANGED <<manifests, hint, appends, applied, acked, refused>>

(* A defect: the put is not conditional. *)
PutsOverAnything(w) == call[w].etag <= hint.etag

(* conditionalPut on the hint; expectedEtag is what head returned.          *)
EtagMatches(w) == call[w].etag = hint.etag

Apply(w) ==
  /\ call[w].pc = "hint" /\ EtagMatches(w)
  /\ hint' = [version |-> IdOf(call[w].next), etag |-> hint.etag + 1]
  /\ applied' = applied \cup {CommitOf(call[w])}

(* The put took effect and the append returns.                              *)
UpdateHint(w) ==
  /\ Apply(w)
  /\ acked' = acked \cup {call[w].next}
  /\ Goto(w, "loaded")
  /\ UNCHANGED <<files, manifests, appends, refused>>

(* The put took effect and its answer was lost: appendFiles throws.         *)
UpdateHintUnanswered(w) ==
  /\ Apply(w)
  /\ Goto(w, "loaded")
  /\ UNCHANGED <<files, manifests, appends, acked, refused>>

(* The put found another hint: LAKEQL_ICEBERG_COMMIT_CONFLICT.              *)
Conflict(w) ==
  /\ call[w].pc = "hint" /\ ~EtagMatches(w)
  /\ refused' = refused \cup {CommitOf(call[w])}
  /\ Goto(w, "loaded")
  /\ UNCHANGED <<files, manifests, hint, appends, applied, acked>>

(* A store operation fails without effect and appendFiles throws; what was   *)
(* put before stays.                                                        *)
StoreFails(w) ==
  /\ call[w].pc \in {"check", "head", "manifest", "metadata", "hint"}
  /\ Goto(w, "loaded")
  /\ UNCHANGED <<files, manifests, hint, appends, applied, acked, refused>>

Crash(w) ==
  /\ call[w].pc # "idle"
  /\ call' = [call EXCEPT ![w] = IdleCall]
  /\ UNCHANGED <<files, manifests, hint, appends, applied, acked, refused>>

-----------------------------------------------------------------------------
Init ==
  /\ files = [id \in Id |-> IF id = Base THEN <<First>> ELSE Absent]
  /\ manifests = {}
  /\ hint \in {[version |-> Base, etag |-> 1], [version |-> NoHint, etag |-> 0]}
  /\ call = [w \in Writer |-> IdleCall]
  /\ appends = <<>> /\ applied = {} /\ acked = {} /\ refused = {}

Step(w) ==
  \/ ReadHint(w)
  \/ ListMetadata(w)
  \/ \E id \in Id : OpenPath(w, id)
  \/ LoadMetadata(w)
  \/ AppendFiles(w)
  \/ CheckBase(w)
  \/ HeadHint(w)
  \/ PutManifest(w)
  \/ PutMetadata(w)
  \/ UpdateHint(w)
  \/ UpdateHintUnanswered(w)
  \/ Conflict(w)
  \/ StoreFails(w)
  \/ Crash(w)

Next == \E w \in Writer : Step(w)

Spec == Init /\ [][Next]_vars

-----------------------------------------------------------------------------
(* Properties *)

(* Every variable has its type. *)
TypeOK ==
  /\ files \in [Id -> Seq(Nat)]
  /\ manifests \in SUBSET Nat /\ acked \in SUBSET Nat
  /\ appends \in Seq(Id)
  /\ hint \in Hint
  /\ call \in [Writer -> Call]
  /\ applied \in SUBSET Commit /\ refused \in SUBSET Commit

(* The table a reader gets by the hint. *)
Current == files[hint.version]

(* Whatever crashed or failed half-way, and whichever append was the last to *)
(* put the file, the hint names a metadata file that is there, ends in the   *)
(* snapshot the hint names, and every manifest it lists was put in the store  *)
(* (where one of another append with that id may have been put over it; a     *)
(* load takes the data files from the metadata file).                        *)
HintIsWhole ==
  hint.version # NoHint =>
    /\ Exists(hint.version)
    /\ IdOf(Last(Current)) = hint.version
    /\ ToSet(Current) \ {First} \subseteq manifests

(* Of the commits that saw the same hint, at most one takes effect.         *)
RacersConflict == \A a, b \in applied : a.etag = b.etag => a = b

(* A commit is refused only because another one took effect between its     *)
(* head of the hint and its put.                                            *)
ConflictsAreReal ==
  \A c \in refused : \E a \in applied : a.etag = c.etag /\ a.append # c.append

(* While no commit has had to create the hint, a reader that follows it sees *)
(* only snapshots whose commit took effect: what a refused, failed or        *)
(* crashed append has put in the store stays out of the table, unless a      *)
(* commit that took effect had the same snapshot id.  Without a hint the     *)
(* loader takes the highest file, committed or not.                         *)
OnlyCommitsAreVisible ==
  hint.version # NoHint /\ (\A a \in applied : a.etag # 0) =>
    SnapshotsOf(Current) \subseteq {Base} \cup {IdOf(a.append) : a \in applied}

(* A metadata file that is there changes only when a second append has been  *)
(* given the snapshot id that names it: while ids are not given twice, a     *)
(* table that was loaded stays what its path names.                         *)
FilesChangeByReuse ==
  [][\A id \in Id : Exists(id) /\ files'[id] # files[id] =>
       \E a, b \in First..Len(appends) : a # b /\ IdOf(a) = id /\ IdOf(b) = id]_vars

(* docs/catalogs.md: a commit whose base snapshot is stale is rejected.  Two *)
(* commits on one base cannot both be acknowledged.                         *)
StaleBaseIsRejected ==
  \A a, b \in applied :
    a.append \in acked /\ b.append \in acked /\ a.base = b.base => a = b
=============================================================================
