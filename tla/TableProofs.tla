----------------------------- MODULE TableProofs -----------------------------
(***************************************************************************)
(* Proofs about tables: IcebergCommit, for any writers and any snapshot ids, *)
(* IcebergScan, for any files, commits and predicates, and LanceReader, for  *)
(* any dataset, ids, columns and budget of a call.                         *)
(***************************************************************************)
EXTENDS IcebergCommit, IcebergScan, LanceReader, SumsAndFolds

InFlight(w) == call[w].pc \in {"check", "head", "manifest", "metadata", "hint"}
HasEtag(w) == call[w].pc \in {"manifest", "metadata", "hint"}
HoldsTable(w) == call[w].pc = "loaded" \/ InFlight(w)

(* What a table lists are appends whose manifests are in the store.         *)
IsStored(listed) == ToSet(listed) \ {First} \subseteq manifests

(* A metadata file ends in the snapshot it is named by, whichever append was  *)
(* the last to put it.                                                      *)
FilesAreWhole ==
  /\ manifests \subseteq DOMAIN appends
  /\ \A id \in Id : Exists(id) => IdOf(Last(files[id])) = id
  /\ \A id \in Id : IsStored(files[id])
  /\ \A w \in Writer : IsStored(call[w].table)

NamedFilesExist ==
  /\ Exists(Base)
  /\ hint.version # NoHint => Exists(hint.version)
  /\ \A a \in acked : Exists(IdOf(a))

CommitsAreOver == \A a \in applied : a.append \in DOMAIN appends /\ a.etag < hint.etag

AckedAreApplied == \A a \in acked : \E b \in applied : b.append = a

(* A writer holds a table that ends as the file at its path does, though the  *)
(* file may have been put again since.                                      *)
TableIsNamed(w) ==
  /\ call[w].pc = "loading" => Exists(call[w].path)
  /\ HoldsTable(w) => /\ Exists(call[w].path)
                      /\ call[w].table # Absent /\ IdOf(Last(call[w].table)) = call[w].path

(* An append under way is no other one's and has not taken effect; nothing    *)
(* lists it before its metadata is put.                                     *)
AppendIsOwn(w) ==
  InFlight(w) =>
    /\ call[w].next \in DOMAIN appends
    /\ \A a \in applied : a.append # call[w].next
    /\ \A v \in Writer \ {w} : InFlight(v) => call[v].next # call[w].next

IsUnlisted(w) ==
  InFlight(w) /\ call[w].pc # "hint" =>
    /\ \A id \in Id : call[w].next \notin ToSet(files[id])
    /\ \A v \in Writer : call[w].next \notin ToSet(call[v].table)

PutInOrder(w) ==
  /\ call[w].pc \in {"metadata", "hint"} => call[w].next \in manifests
  /\ call[w].pc = "hint" => Exists(IdOf(call[w].next))

(* If the hint has changed since a writer took its etag, a commit with that   *)
(* etag took effect.                                                        *)
EtagIsKnown(w) ==
  HasEtag(w) =>
    /\ call[w].etag <= hint.etag
    /\ call[w].etag < hint.etag => \E a \in applied : a.etag = call[w].etag

(* While the hint was never created by a commit, all a writer can get at is  *)
(* committed.                                                               *)
Hinted == hint.version # NoHint /\ \A a \in applied : a.etag # 0

Committed == {Base} \cup {IdOf(a.append) : a \in applied}

Visible ==
  /\ hint.version = NoHint => hint.etag = 0
  /\ Hinted =>
       /\ hint.version \in Committed
       /\ \A id \in Id : SnapshotsOf(files[id]) \subseteq Committed \cup {id}
       /\ \A w \in Writer :
            /\ call[w].pc # "idle" => call[w].pc # "listing" /\ call[w].path \in Committed
            /\ SnapshotsOf(call[w].table) \subseteq Committed

WriterStands(w) ==
  TableIsNamed(w) /\ AppendIsOwn(w) /\ IsUnlisted(w) /\ PutInOrder(w) /\ EtagIsKnown(w)

IInv ==
  /\ TypeOK /\ FilesAreWhole /\ NamedFilesExist /\ CommitsAreOver /\ AckedAreApplied
  /\ \A w \in Writer : WriterStands(w)
  /\ RacersConflict /\ ConflictsAreReal
  /\ Visible

-----------------------------------------------------------------------------
(* What the steps of one writer do to what the others can see *)

(* The elements and the end of a sequence that has been appended to.        *)
LEMMA Appended ==
  ASSUME NEW S, NEW s \in Seq(S), NEW e \in S
  PROVE  /\ Append(s, e) \in Seq(S)
         /\ Append(s, e) # <<>>
         /\ Last(Append(s, e)) = e
         /\ ToSet(Append(s, e)) = ToSet(s) \cup {e}
PROOF
<1>1. /\ Append(s, e) \in Seq(S) /\ Len(Append(s, e)) = Len(s) + 1
      /\ Append(s, e)[Len(s) + 1] = e
      /\ \A i \in 1..Len(s) : Append(s, e)[i] = s[i]
  OBVIOUS
<1>2. Append(s, e) # <<>>
  BY <1>1
<1>3. Last(Append(s, e)) = e
  BY <1>1 DEF Last
<1>4. DOMAIN s = 1..Len(s) /\ DOMAIN Append(s, e) = 1..(Len(s) + 1) /\ Len(s) \in Nat
  BY <1>1
<1>5. ToSet(Append(s, e)) = ToSet(s) \cup {e}
  BY <1>1, <1>4 DEF ToSet
<1> QED
  BY <1>1, <1>2, <1>3, <1>5

(* The end of a sequence is one of its elements.                            *)
LEMMA LastIsElement ==
  ASSUME NEW S, NEW s \in Seq(S), s # <<>>
  PROVE  Last(s) \in ToSet(s)
PROOF
<1>1. DOMAIN s = 1..Len(s) /\ Len(s) \in Nat /\ Len(s) # 0
  OBVIOUS
<1>2. Len(s) \in DOMAIN s
  BY <1>1
<1> QED
  BY <1>2 DEF Last, ToSet

(* The fields of a call and of the hint.                                    *)
LEMMA Fields ==
  ASSUME TypeOK, NEW w \in Writer
  PROVE  /\ call[w].pc \in Phases /\ call[w].path \in Id /\ call[w].table \in Seq(Nat)
         /\ call[w].next \in Nat /\ call[w].etag \in Nat
         /\ hint.version \in Id \cup {NoHint} /\ hint.etag \in Nat
         /\ CommitOf(call[w]) \in Commit
PROOF BY DEF TypeOK, Call, Hint, Commit, CommitOf

(* The appends that have begun, and the one before all of them.              *)
Numbered == {First} \cup DOMAIN appends

(* Every append has a snapshot id.                                          *)
LEMMA NumberedIds ==
  ASSUME TypeOK
  PROVE  /\ DOMAIN appends = 1..Len(appends) /\ Len(appends) \in Nat
         /\ First \notin DOMAIN appends
         /\ \A a \in Numbered : a \in Nat /\ IdOf(a) \in Id
PROOF
<1>1. appends \in Seq(Id) /\ Base \in Id
  BY IdsAssumption DEF TypeOK
<1>2. DOMAIN appends = 1..Len(appends) /\ Len(appends) \in Nat
      /\ \A a \in DOMAIN appends : appends[a] \in Id
  BY <1>1
<1> QED
  BY <1>1, <1>2 DEF Numbered, IdOf, First

(* The calls the loads and the begin of an append leave are calls.           *)
LEMMA CallForms ==
  ASSUME TypeOK, NEW w \in Writer, NEW pc \in Phases, NEW id \in Id, NEW n \in Nat
  PROVE  /\ IdleCall \in Call
         /\ [IdleCall EXCEPT !.pc = pc] \in Call
         /\ [IdleCall EXCEPT !.pc = pc, !.path = id] \in Call
         /\ [call[w] EXCEPT !.pc = pc, !.path = id] \in Call
         /\ [call[w] EXCEPT !.pc = pc, !.next = n] \in Call
PROOF
<1>1. <<>> \in Seq(Nat) /\ "idle" \in Phases /\ Base \in Id /\ 0 \in Nat
  BY IdsAssumption DEF Phases
<1>2. IdleCall \in Call
  BY <1>1 DEF IdleCall, Call, First
<1>3. call[w] \in Call
  BY DEF TypeOK
<1> QED
  BY <1>2, <1>3 DEF Call

(* A step changes the call of its own writer and no other.                  *)
OthersStay(w) == \A v \in Writer \ {w} : call'[v] = call[v]

(* Appends keep their ids, manifests and histories only grow.               *)
Grows ==
  /\ \A a \in DOMAIN appends : a \in DOMAIN appends' /\ appends'[a] = appends[a]
  /\ manifests \subseteq manifests' /\ applied \subseteq applied' /\ acked \subseteq acked'

(* A file changes by the put of the append under way only, and the manifest  *)
(* that is put is that append's.                                            *)
FilesMove(w) ==
  /\ \A id \in Id : files'[id] = files[id]
                    \/ /\ id = IdOf(call[w].next) /\ call[w].pc = "metadata"
                       /\ files'[id] = Append(call[w].table, call[w].next)
  /\ \/ manifests' = manifests
     \/ call[w].pc = "manifest" /\ manifests' = manifests \cup {call[w].next}

(* A writer's table is replaced by a file or by nothing.                    *)
TableMoves(w) ==
  \/ call'[w].table = call[w].table
  \/ call'[w].table = Absent
  \/ /\ call[w].pc = "loading" /\ call'[w].pc = "loaded" /\ call'[w].path = call[w].path
     /\ call'[w].table = files[call[w].path]

(* The hint changes by a commit only.                                       *)
HintMoves(w) ==
  \/ hint' = hint /\ applied' = applied
  \/ /\ call[w].pc = "hint" /\ call[w].etag = hint.etag
     /\ hint' = [version |-> IdOf(call[w].next), etag |-> hint.etag + 1]
     /\ applied' = applied \cup {CommitOf(call[w])}

(* An append keeps its number from its begin on.                            *)
NumberKept(w) ==
  InFlight(w)' =>
    \/ InFlight(w) /\ call'[w].next = call[w].next
    \/ call'[w].next \notin Numbered

Seen(w) ==
  OthersStay(w) /\ Grows /\ FilesMove(w) /\ TableMoves(w) /\ HintMoves(w) /\ NumberKept(w)

(* A step of one writer as all the others see it.                           *)
LEMMA StepSeen == ASSUME TypeOK, NEW w \in Writer, Step(w) PROVE Seen(w)
PROOF
<1> USE DEF Seen, OthersStay, Grows, FilesMove, TableMoves, HintMoves, NumberKept
<1>2. CASE ReadHint(w)
  BY <1>2 DEF TypeOK, Call, ReadHint, IdleCall, InFlight, Absent
<1>3. CASE ListMetadata(w)
  BY <1>3 DEF TypeOK, Call, ListMetadata, InFlight
<1>4. ASSUME NEW id \in Id, OpenPath(w, id) PROVE Seen(w)
  BY <1>4 DEF TypeOK, Call, OpenPath, IdleCall, InFlight, Absent
<1>5. CASE LoadMetadata(w)
  BY <1>5 DEF TypeOK, Call, LoadMetadata, InFlight
<1>6. CASE AppendFiles(w)
  <2>1. PICK id \in Id : appends' = Append(appends, id)
    BY <1>6 DEF AppendFiles
  <2>2. DOMAIN appends = 1..Len(appends) /\ Len(appends) \in Nat /\ appends \in Seq(Id)
    BY NumberedIds DEF TypeOK
  <2>3. \A a \in DOMAIN appends : a \in DOMAIN appends' /\ appends'[a] = appends[a]
    BY <2>1, <2>2
  <2>4. Len(appends) + 1 \notin Numbered
    BY <2>2 DEF Numbered, First
  <2>5. /\ call'[w].next = Len(appends) + 1 /\ call'[w].table = call[w].table
        /\ OthersStay(w)
    BY <1>6 DEF TypeOK, Call, AppendFiles
  <2> QED
    BY <1>6, <2>3, <2>4, <2>5 DEF AppendFiles
<1>7. CASE CheckBase(w)
  BY <1>7 DEF TypeOK, Call, CheckBase, Goto, InFlight
<1>8. CASE HeadHint(w)
  BY <1>8 DEF TypeOK, Call, HeadHint, InFlight
<1>9. CASE PutManifest(w)
  BY <1>9 DEF TypeOK, Call, PutManifest, Goto, InFlight
<1>10. CASE PutMetadata(w)
  <2>1. files \in [Id -> Seq(Nat)]
    BY DEF TypeOK
  <2>2. OthersStay(w) /\ Grows /\ TableMoves(w) /\ HintMoves(w) /\ NumberKept(w)
    BY <1>10 DEF TypeOK, Call, PutMetadata, Goto, InFlight
  <2>3. FilesMove(w)
    BY <2>1, <1>10 DEF PutMetadata
  <2> QED
    BY <2>2, <2>3
<1>11. CASE UpdateHint(w)
  BY <1>11 DEF TypeOK, Call, UpdateHint, Apply, EtagMatches, Goto, InFlight
<1>12. CASE UpdateHintUnanswered(w)
  BY <1>12 DEF TypeOK, Call, UpdateHintUnanswered, Apply, EtagMatches, Goto, InFlight
<1>13. CASE Conflict(w)
  BY <1>13 DEF TypeOK, Call, Conflict, Goto, InFlight
<1>14. CASE StoreFails(w)
  BY <1>14 DEF TypeOK, Call, StoreFails, Goto, InFlight
<1>15. CASE Crash(w)
  BY <1>15 DEF TypeOK, Call, Crash, IdleCall, InFlight, Absent
<1> QED
  BY <1>2, <1>3, <1>4, <1>5, <1>6, <1>7, <1>8, <1>9, <1>10, <1>11, <1>12, <1>13, <1>14, <1>15 DEF Step

-----------------------------------------------------------------------------
(* Each part of the invariant after a step *)

(* Every step leaves every variable in its type.                            *)
LEMMA TypeKept == ASSUME IInv, NEW w \in Writer, Step(w) PROVE TypeOK'
PROOF
<1> TypeOK
  BY DEF IInv
<1>0. /\ call \in [Writer -> Call] /\ call[w] \in Call
      /\ call[w].pc \in Phases /\ call[w].path \in Id /\ call[w].table \in Seq(Nat)
      /\ call[w].next \in Nat /\ call[w].etag \in Nat
      /\ hint.version \in Id \cup {NoHint} /\ hint.etag \in Nat
      /\ CommitOf(call[w]) \in Commit
  BY Fields DEF TypeOK
<1>16. call[w].pc = "hint" => IdOf(call[w].next) \in Id
  BY NumberedIds DEF IInv, WriterStands, AppendIsOwn, InFlight, Numbered
<1>1. CASE ReadHint(w)
  <2>1. call' \in [Writer -> Call]
    <3>1. \/ call' = [call EXCEPT ![w] = [IdleCall EXCEPT !.pc = "listing"]]
          \/ /\ hint.version \in Id
             /\ call' = [call EXCEPT ![w] = [IdleCall EXCEPT !.pc = "loading", !.path = hint.version]]
      BY <1>0, <1>1 DEF ReadHint
    <3>2. "listing" \in Phases /\ "loading" \in Phases /\ Base \in Id
      BY IdsAssumption DEF Phases
    <3>3. [IdleCall EXCEPT !.pc = "listing"] \in Call
      BY <3>2, CallForms
    <3>4. hint.version \in Id => [IdleCall EXCEPT !.pc = "loading", !.path = hint.version] \in Call
      BY <3>2, CallForms
    <3> QED
      BY <1>0, <3>1, <3>3, <3>4
  <2> QED
    BY <1>0, <1>1, <2>1 DEF TypeOK, ReadHint
<1>2. CASE ListMetadata(w)
  <2>1. call' \in [Writer -> Call]
    <3>1. PICK id \in Id : call' = [call EXCEPT ![w].pc = "loading", ![w].path = id]
      BY <1>2 DEF ListMetadata
    <3>2. [call[w] EXCEPT !.pc = "loading", !.path = id] \in Call
      BY CallForms DEF Phases
    <3> QED
      BY <1>0, <3>1, <3>2
  <2> QED
    BY <1>0, <1>2, <2>1 DEF TypeOK, ListMetadata
<1>3. ASSUME NEW id \in Id, OpenPath(w, id) PROVE TypeOK'
  <2>1. call' \in [Writer -> Call]
    <3>1. call' = [call EXCEPT ![w] = [IdleCall EXCEPT !.pc = "loading", !.path = id]]
      BY <1>3 DEF OpenPath
    <3>2. [IdleCall EXCEPT !.pc = "loading", !.path = id] \in Call
      BY CallForms DEF Phases
    <3> QED
      BY <1>0, <3>1, <3>2
  <2> QED
    BY <1>0, <1>3, <2>1 DEF TypeOK, OpenPath
<1>4. CASE LoadMetadata(w)
  <2>1. call' \in [Writer -> Call]
    BY <1>0, <1>4 DEF Call, Phases, LoadMetadata, TypeOK
  <2> QED
    BY <1>0, <1>4, <2>1 DEF TypeOK, LoadMetadata
<1>5. CASE AppendFiles(w)
  <2>1. call' \in [Writer -> Call]
    <3>1. call' = [call EXCEPT ![w].pc = "check", ![w].next = Len(appends) + 1]
      BY <1>5 DEF AppendFiles
    <3>2. Base \in Id /\ Len(appends) + 1 \in Nat
      BY NumberedIds, IdsAssumption
    <3>3. [call[w] EXCEPT !.pc = "check", !.next = Len(appends) + 1] \in Call
      BY <3>2, CallForms DEF Phases
    <3> QED
      BY <1>0, <3>1, <3>3
  <2>2. appends' \in Seq(Id)
    BY <1>5 DEF TypeOK, AppendFiles
  <2> QED
    BY <1>0, <1>5, <2>1, <2>2 DEF TypeOK, AppendFiles
<1>6. CASE CheckBase(w)
  <2>1. call' \in [Writer -> Call]
    <3>1. PICK pc \in {"head", "loaded"} : call' = [call EXCEPT ![w].pc = pc]
      BY <1>6 DEF CheckBase, Goto
    <3>2. [call[w] EXCEPT !.pc = pc] \in Call
      BY <1>0 DEF Call, Phases
    <3> QED
      BY <1>0, <3>1, <3>2
  <2> QED
    BY <1>0, <1>6, <2>1 DEF TypeOK, CheckBase
<1>7. CASE HeadHint(w)
  <2>1. call' \in [Writer -> Call]
    BY <1>0, <1>7 DEF Call, Phases, HeadHint, Hint
  <2> QED
    BY <1>0, <1>7, <2>1 DEF TypeOK, HeadHint
<1>8. CASE PutManifest(w)
  <2>1. call' \in [Writer -> Call]
    BY <1>0, <1>8 DEF Call, Phases, PutManifest, Goto
  <2> QED
    BY <1>0, <1>8, <2>1 DEF TypeOK, PutManifest
<1>9. CASE PutMetadata(w)
  <2>1. call' \in [Writer -> Call]
    BY <1>0, <1>9 DEF Call, Phases, PutMetadata, Goto
  <2>2. files' \in [Id -> Seq(Nat)]
    BY <1>0, <1>9, Appended DEF TypeOK, PutMetadata
  <2> QED
    BY <1>0, <1>9, <2>1, <2>2 DEF TypeOK, PutMetadata
<1>10. CASE UpdateHint(w)
  <2>1. call' \in [Writer -> Call]
    BY <1>0, <1>10 DEF Call, Phases, UpdateHint, Apply, Goto
  <2>2. hint' \in Hint
    BY <1>0, <1>10, <1>16 DEF Hint, UpdateHint, Apply
  <2> QED
    BY <1>0, <1>10, <2>1, <2>2 DEF TypeOK, UpdateHint, Apply
<1>11. CASE UpdateHintUnanswered(w)
  <2>1. call' \in [Writer -> Call]
    BY <1>0, <1>11 DEF Call, Phases, UpdateHintUnanswered, Apply, Goto
  <2>2. hint' \in Hint
    BY <1>0, <1>11, <1>16 DEF Hint, UpdateHintUnanswered, Apply
  <2> QED
    BY <1>0, <1>11, <2>1, <2>2 DEF TypeOK, UpdateHintUnanswered, Apply
<1>12. CASE Conflict(w)
  <2>1. call' \in [Writer -> Call]
    BY <1>0, <1>12 DEF Call, Phases, Conflict, Goto
  <2> QED
    BY <1>0, <1>12, <2>1 DEF TypeOK, Conflict
<1>13. CASE StoreFails(w)
  <2>1. call' \in [Writer -> Call]
    BY <1>0, <1>13 DEF Call, Phases, StoreFails, Goto
  <2> QED
    BY <1>0, <1>13, <2>1 DEF TypeOK, StoreFails
<1>14. CASE Crash(w)
  <2>1. call' \in [Writer -> Call]
    BY <1>0, <1>14, IdsAssumption DEF Call, Phases, Crash, IdleCall, First
  <2> QED
    BY <1>0, <1>14, <2>1 DEF TypeOK, Crash
<1> QED
  BY <1>1, <1>2, <1>3, <1>4, <1>5, <1>6, <1>7, <1>8, <1>9, <1>10, <1>11, <1>12, <1>13, <1>14 DEF Step

(* An append keeps its snapshot id.                                         *)
LEMMA IdsKept ==
  ASSUME IInv, NEW w \in Writer, Step(w), NEW a \in Numbered
  PROVE  /\ a \in {First} \cup DOMAIN appends'
         /\ IdOf(a)' = IdOf(a)
PROOF BY StepSeen DEF IInv, Seen, Grows, Numbered, IdOf

(* What a table lists are appends that have begun.                          *)
LEMMA StoredAreNumbered ==
  ASSUME IInv
  PROVE  /\ \A id \in Id : ToSet(files[id]) \subseteq Numbered
         /\ \A w \in Writer : ToSet(call[w].table) \subseteq Numbered
PROOF BY DEF IInv, FilesAreWhole, IsStored, Numbered

(* A file that is there stays there.  If it changes, it lists what the append *)
(* under way does, and ends in that append.                                 *)
LEMMA FilesAfter ==
  ASSUME IInv, NEW w \in Writer, Step(w), NEW id \in Id
  PROVE  /\ files[id] # Absent => files'[id] # Absent
         /\ \/ files'[id] = files[id]
            \/ /\ call[w].pc = "metadata" /\ id = IdOf(call[w].next)
               /\ files'[id] # Absent /\ Last(files'[id]) = call[w].next
               /\ ToSet(files'[id]) = ToSet(call[w].table) \cup {call[w].next}
PROOF
<1>1. TypeOK /\ FilesMove(w)
  BY StepSeen DEF IInv, Seen
<1>2. call[w].table \in Seq(Nat) /\ call[w].next \in Nat
  BY <1>1, Fields
<1>3. ASSUME NEW t, t = Append(call[w].table, call[w].next)
      PROVE  t # Absent /\ Last(t) = call[w].next /\ ToSet(t) = ToSet(call[w].table) \cup {call[w].next}
  <2>1. \A s \in Seq(Nat) : \A e \in Nat :
          Append(s, e) # <<>> /\ Last(Append(s, e)) = e /\ ToSet(Append(s, e)) = ToSet(s) \cup {e}
    BY Appended
  <2> QED
    BY <1>2, <1>3, <2>1, Zenon DEF Absent
<1>4. CASE files'[id] = files[id]
  BY <1>4
<1>5. CASE call[w].pc = "metadata" /\ id = IdOf(call[w].next)
           /\ files'[id] = Append(call[w].table, call[w].next)
  BY <1>3, <1>5
<1> QED
  BY <1>1, <1>4, <1>5 DEF FilesMove

(* The metadata of an append lists the snapshots of its table and its own,   *)
(* and all their manifests are in the store.                                *)
LEMMA FilesKept == ASSUME IInv, NEW w \in Writer, Step(w) PROVE FilesAreWhole'
PROOF
<1>1. /\ TypeOK /\ FilesAreWhole /\ WriterStands(w) /\ Grows
      /\ FilesMove(w) /\ TableMoves(w) /\ OthersStay(w)
  BY StepSeen DEF IInv, Seen
<1>2. manifests' \subseteq DOMAIN appends'
  BY <1>1 DEF FilesAreWhole, Grows, FilesMove, WriterStands, AppendIsOwn, InFlight
<1>3. call[w].pc = "metadata" => call[w].next \in manifests /\ call[w].next \in Numbered
  BY <1>1 DEF WriterStands, PutInOrder, FilesAreWhole, Numbered
<1>4. ASSUME NEW id \in Id, files'[id] # Absent PROVE IdOf(Last(files[id]))' = id
  <2>1. CASE files'[id] = files[id]
    <3>1. Last(files[id]) \in Numbered /\ IdOf(Last(files[id])) = id
      BY <1>1, <1>4, <2>1, LastIsElement, StoredAreNumbered DEF TypeOK, Absent, FilesAreWhole, Exists
    <3>2. IdOf(Last(files[id])) = IF Last(files[id]) = First THEN Base ELSE appends'[Last(files[id])]
      BY <1>1, <3>1 DEF Grows, Numbered, IdOf
    <3> QED
      BY <2>1, <3>1, <3>2 DEF IdOf
  <2>2. CASE files'[id] # files[id]
    <3>1. id = IdOf(call[w].next) /\ Last(files'[id]) = call[w].next /\ call[w].pc = "metadata"
      BY <2>2, FilesAfter
    <3>2. IdOf(call[w].next) = IF call[w].next = First THEN Base ELSE appends'[call[w].next]
      BY <1>1, <1>3, <3>1 DEF Grows, Numbered, IdOf
    <3> QED
      BY <3>1, <3>2 DEF IdOf
  <2> QED
    BY <2>1, <2>2
<1>5. ASSUME NEW id \in Id PROVE ToSet(files'[id]) \ {First} \subseteq manifests'
  BY <1>1, <1>3, FilesAfter DEF FilesAreWhole, IsStored, Grows
<1>6. ASSUME NEW v \in Writer PROVE ToSet(call'[v].table) \ {First} \subseteq manifests'
  <2>1. ToSet(Absent) = {}
    BY DEF ToSet, Absent
  <2>2. call[w].path \in Id
    BY <1>1, Fields
  <2> QED
    BY <1>1, <2>1, <2>2 DEF FilesAreWhole, IsStored, Grows, TableMoves, OthersStay
<1> QED
  BY <1>2, <1>4, <1>5, <1>6 DEF FilesAreWhole, IsStored, Exists

(* The hint and what callers were told name files that are there.           *)
LEMMA NamesKept == ASSUME IInv, NEW w \in Writer, Step(w) PROVE NamedFilesExist'
PROOF
<1>1. TypeOK /\ NamedFilesExist /\ AckedAreApplied /\ CommitsAreOver /\ WriterStands(w) /\ HintMoves(w)
  BY StepSeen DEF IInv, Seen
<1>2. hint.version \in Id \cup {NoHint} /\ Base \in Id /\ \A a \in Numbered : IdOf(a) \in Id
  BY <1>1, Fields, NumberedIds, IdsAssumption
<1>3. call[w].pc = "hint" => call[w].next \in Numbered /\ Exists(IdOf(call[w].next))
  BY <1>1 DEF WriterStands, AppendIsOwn, PutInOrder, InFlight, Numbered
<1>4. \A id \in Id : Exists(id) => files'[id] # Absent
  BY FilesAfter DEF Exists
<1>5. hint'.version # NoHint => files'[hint'.version] # Absent
  <2>1. CASE hint' = hint
    BY <2>1, <1>1, <1>2, <1>4 DEF NamedFilesExist
  <2>2. CASE /\ call[w].pc = "hint"
             /\ hint' = [version |-> IdOf(call[w].next), etag |-> hint.etag + 1]
    <3>1. hint'.version = IdOf(call[w].next)
      BY <2>2
    <3> QED
      BY <3>1, <2>2, <1>2, <1>3, <1>4
  <2> QED
    BY <1>1, <2>1, <2>2 DEF HintMoves
<1>6. acked' = acked \/ (acked' = acked \cup {call[w].next} /\ call[w].pc = "hint")
  BY DEF Step, ReadHint, ListMetadata, OpenPath, LoadMetadata, AppendFiles, CheckBase, HeadHint,
         PutManifest, PutMetadata, UpdateHint, Apply, UpdateHintUnanswered, Conflict, StoreFails, Crash
<1>7. \A a \in acked' : a \in Numbered /\ Exists(IdOf(a))
  BY <1>1, <1>3, <1>6 DEF NamedFilesExist, AckedAreApplied, CommitsAreOver, Numbered
<1>8. ASSUME NEW a \in acked' PROVE files'[IdOf(a)'] # Absent
  <2>1. a \in Numbered /\ IdOf(a) \in Id /\ Exists(IdOf(a))
    BY <1>2, <1>7
  <2> QED
    BY <2>1, <1>4, IdsKept
<1> QED
  BY <1>1, <1>2, <1>4, <1>5, <1>8 DEF NamedFilesExist, Exists

(* A commit that took effect had an etag the hint has left behind.          *)
LEMMA CommitsKept == ASSUME IInv, NEW w \in Writer, Step(w) PROVE CommitsAreOver'
PROOF
<1>1. TypeOK /\ CommitsAreOver /\ AppendIsOwn(w) /\ HintMoves(w) /\ DOMAIN appends \subseteq DOMAIN appends'
  BY StepSeen DEF IInv, WriterStands, Seen, Grows
<1>2. hint.etag \in Nat /\ \A a \in applied : a.etag \in Nat
  BY <1>1, Fields DEF TypeOK, Commit
<1>3. CASE hint' = hint /\ applied' = applied
  BY <1>1, <1>3 DEF CommitsAreOver
<1>4. CASE /\ call[w].pc = "hint" /\ call[w].etag = hint.etag
           /\ hint' = [version |-> IdOf(call[w].next), etag |-> hint.etag + 1]
           /\ applied' = applied \cup {CommitOf(call[w])}
  <2>1. CommitOf(call[w]).append \in DOMAIN appends /\ CommitOf(call[w]).etag = hint.etag
    BY <1>1, <1>4 DEF CommitOf, AppendIsOwn, InFlight
  <2>2. hint'.etag = hint.etag + 1
    BY <1>4
  <2> QED
    BY <1>1, <1>2, <1>4, <2>1, <2>2 DEF CommitsAreOver
<1> QED
  BY <1>1, <1>3, <1>4 DEF HintMoves

(* A caller is told of commits that took effect.                            *)
LEMMA AckedKept == ASSUME IInv, NEW w \in Writer, Step(w) PROVE AckedAreApplied'
PROOF
<1>1. AckedAreApplied /\ applied \subseteq applied'
  BY StepSeen DEF IInv, Seen, Grows
<1>2. CASE acked' = acked
  BY <1>1, <1>2 DEF AckedAreApplied
<1>3. CASE UpdateHint(w)
  <2>1. CommitOf(call[w]).append = call[w].next
    BY DEF CommitOf
  <2> QED
    BY <1>1, <1>3, <2>1 DEF UpdateHint, Apply, AckedAreApplied
<1>4. acked' = acked \/ UpdateHint(w)
  BY DEF Step, ReadHint, ListMetadata, OpenPath, LoadMetadata, AppendFiles, CheckBase, HeadHint,
         PutManifest, PutMetadata, UpdateHintUnanswered, Conflict, StoreFails, Crash
<1> QED
  BY <1>2, <1>3, <1>4

(* Two commits with one etag cannot both take effect: the second would have  *)
(* to find the hint with the etag the first one replaced.                   *)
LEMMA RacersKept == ASSUME IInv, NEW w \in Writer, Step(w) PROVE RacersConflict'
PROOF
<1>1. TypeOK /\ RacersConflict /\ CommitsAreOver /\ HintMoves(w)
  BY StepSeen DEF IInv, Seen
<1>2. hint.etag \in Nat /\ \A a \in applied : a.etag \in Nat /\ a.etag < hint.etag
  BY <1>1, Fields DEF TypeOK, Commit, CommitsAreOver
<1>3. \A a \in applied : a.etag # hint.etag
  BY <1>2
<1>4. CommitOf(call[w]).etag = call[w].etag
  BY DEF CommitOf
<1> QED
  BY <1>1, <1>3, <1>4 DEF HintMoves, RacersConflict

(* A commit is refused when it comes second; the check of its base passes,    *)
(* because the file of its base keeps the id it is named by.                *)
LEMMA ConflictsKept == ASSUME IInv, NEW w \in Writer, Step(w) PROVE ConflictsAreReal'
PROOF
<1>1. TypeOK /\ ConflictsAreReal /\ WriterStands(w) /\ FilesAreWhole /\ applied \subseteq applied'
  BY StepSeen DEF IInv, Seen, Grows
<1>2. CASE refused' = refused
  BY <1>1, <1>2 DEF ConflictsAreReal
<1>3. CASE CheckBase(w)
  <2>1. IdOf(Last(files[call[w].path])) = IdOf(Last(call[w].table))
    BY <1>1, <1>3, Fields DEF WriterStands, TableIsNamed, FilesAreWhole, HoldsTable, InFlight, CheckBase
  <2>2. refused' = refused
    BY <2>1, <1>3 DEF CheckBase
  <2> QED
    BY <2>2, <1>2
<1>4. CASE Conflict(w)
  <2>1. call[w].pc = "hint" /\ call[w].etag # hint.etag
        /\ refused' = refused \cup {CommitOf(call[w])} /\ applied' = applied
    BY <1>4 DEF Conflict, EtagMatches
  <2>2. call[w].etag \in Nat /\ hint.etag \in Nat
    BY <1>1, Fields
  <2>3. PICK a \in applied : a.etag = call[w].etag
    BY <1>1, <2>1, <2>2 DEF WriterStands, EtagIsKnown, HasEtag
  <2>4. a.append # call[w].next
    BY <1>1, <2>1 DEF WriterStands, AppendIsOwn, InFlight
  <2>5. CommitOf(call[w]).etag = call[w].etag /\ CommitOf(call[w]).append = call[w].next
    BY DEF CommitOf
  <2> QED
    BY <1>1, <2>1, <2>3, <2>4, <2>5 DEF ConflictsAreReal
<1>5. refused' = refused \/ CheckBase(w) \/ Conflict(w)
  BY DEF Step, ReadHint, ListMetadata, OpenPath, LoadMetadata, AppendFiles, HeadHint,
         PutManifest, PutMetadata, UpdateHint, UpdateHintUnanswered, StoreFails, Crash
<1> QED
  BY <1>2, <1>3, <1>4, <1>5

(* What another writer holds and knows stands.                              *)
LEMMA OthersKept ==
  ASSUME IInv, NEW w \in Writer, Step(w), NEW v \in Writer \ {w}
  PROVE  WriterStands(v)'
PROOF
<1>1. /\ TypeOK /\ WriterStands(v) /\ WriterStands(w) /\ call'[v] = call[v]
      /\ HintMoves(w) /\ NumberKept(w) /\ manifests \subseteq manifests' /\ TableMoves(w)
      /\ DOMAIN appends \subseteq DOMAIN appends'
      /\ \A u \in Writer \ {w} : call'[u] = call[u]
      /\ \A u \in Writer : WriterStands(u)
  BY StepSeen DEF IInv, Seen, Grows, OthersStay
<1>2. /\ call[v].path \in Id /\ call[v].next \in Nat /\ call[v].table \in Seq(Nat) /\ call[v].etag \in Nat
      /\ call[w].path \in Id /\ hint.etag \in Nat
  BY <1>1, Fields
<1>3. InFlight(v) => ~(InFlight(w) /\ call[w].next = call[v].next)
  BY <1>1 DEF WriterStands, AppendIsOwn
<1>4. TableIsNamed(v)'
  <2>1. call[v].table # Absent => IdOf(Last(call[v].table))' = IdOf(Last(call[v].table))
    <3>1. call[v].table # Absent => Last(call[v].table) \in Numbered
      BY <1>2, LastIsElement, StoredAreNumbered DEF Absent
    <3>2. call[v].table # Absent => IdOf(Last(call[v].table)) =
             IF Last(call[v].table) = First THEN Base ELSE appends'[Last(call[v].table)]
      BY <3>1, StepSeen DEF IInv, Seen, Grows, Numbered, IdOf
    <3> QED
      BY <1>1, <3>2 DEF IdOf
  <2> QED
    BY <1>1, <1>2, <2>1, FilesAfter DEF WriterStands, TableIsNamed, HoldsTable, InFlight, Exists
<1>5. AppendIsOwn(v)'
  <2>1. ASSUME InFlight(v) PROVE \A a \in applied' : a.append # call[v].next
    BY <1>1, <1>3, <2>1 DEF WriterStands, AppendIsOwn, HintMoves, CommitOf, InFlight
  <2>2. ASSUME InFlight(v), NEW u \in Writer \ {v}, InFlight(u)' PROVE call'[u].next # call[v].next
    <3>1. call[v].next \in Numbered
      BY <1>1, <2>2 DEF WriterStands, AppendIsOwn, Numbered
    <3>2. CASE u = w
      BY <1>1, <1>3, <2>2, <3>1, <3>2 DEF NumberKept
    <3>3. CASE u # w
      BY <1>1, <2>2, <3>3 DEF WriterStands, AppendIsOwn, InFlight
    <3> QED
      BY <3>2, <3>3
  <2>3. InFlight(v)' <=> InFlight(v)
    BY <1>1 DEF InFlight
  <2>4. InFlight(v) => call[v].next \in DOMAIN appends'
    BY <1>1 DEF WriterStands, AppendIsOwn
  <2> QED
    BY <1>1, <2>1, <2>2, <2>3, <2>4 DEF AppendIsOwn
<1>6. IsUnlisted(v)'
  <2> SUFFICES ASSUME InFlight(v), call[v].pc # "hint"
               PROVE  /\ \A id \in Id : call[v].next \notin ToSet(files'[id])
                      /\ \A u \in Writer : call[v].next \notin ToSet(call'[u].table)
    BY <1>1 DEF IsUnlisted, InFlight
  <2>1. /\ \A id \in Id : call[v].next \notin ToSet(files[id])
        /\ \A u \in Writer : call[v].next \notin ToSet(call[u].table)
    BY <1>1 DEF WriterStands, IsUnlisted
  <2>2. call[w].pc = "metadata" => call[w].next # call[v].next
    BY <1>3 DEF InFlight
  <2>3. \A id \in Id : call[v].next \notin ToSet(files'[id])
    BY <2>1, <2>2, FilesAfter
  <2>4. ToSet(Absent) = {}
    BY DEF ToSet, Absent
  <2>5. call[v].next \notin ToSet(call'[w].table)
    BY <1>1, <1>2, <2>1, <2>4 DEF TableMoves
  <2> QED
    BY <1>1, <2>1, <2>3, <2>5
<1>7. PutInOrder(v)'
  <2>1. ASSUME call[v].pc = "hint" PROVE files'[IdOf(call[v].next)'] # Absent
    <3>1. call[v].next \in Numbered /\ Exists(IdOf(call[v].next))
      BY <1>1, <2>1 DEF WriterStands, AppendIsOwn, PutInOrder, InFlight, Numbered
    <3>2. IdOf(call[v].next) \in Id
      BY <1>1, <3>1, NumberedIds
    <3>3. IdOf(call[v].next) = IF call[v].next = First THEN Base ELSE appends'[call[v].next]
      BY <3>1, StepSeen DEF IInv, Seen, Grows, Numbered, IdOf
    <3>4. IdOf(call[v].next)' = IdOf(call[v].next)
      BY <1>1, <3>3 DEF IdOf
    <3> QED
      BY <1>1, <3>1, <3>2, <3>4, FilesAfter DEF Exists
  <2> QED
    BY <1>1, <2>1 DEF WriterStands, PutInOrder, Exists
<1>8. EtagIsKnown(v)'
  <2>1. CASE hint' = hint /\ applied' = applied
    BY <1>1, <2>1 DEF WriterStands, EtagIsKnown, HasEtag
  <2>2. CASE /\ call[w].etag = hint.etag
             /\ hint' = [version |-> IdOf(call[w].next), etag |-> hint.etag + 1]
             /\ applied' = applied \cup {CommitOf(call[w])}
    <3>1. CommitOf(call[w]).etag = hint.etag /\ hint'.etag = hint.etag + 1
      BY <2>2 DEF CommitOf
    <3>2. HasEtag(v) => /\ call[v].etag <= hint'.etag
                        /\ \E a \in applied' : a.etag = call[v].etag
      BY <1>1, <1>2, <2>2, <3>1 DEF WriterStands, EtagIsKnown
    <3> QED
      BY <1>1, <3>2 DEF EtagIsKnown, HasEtag
  <2> QED
    BY <1>1, <2>1, <2>2 DEF HintMoves
<1> QED
  BY <1>4, <1>5, <1>6, <1>7, <1>8 DEF WriterStands

(* A call that is not under way after a step, with its path and table, stands *)
(* if the table is the one the path names.                                  *)
LEMMA AtRest ==
  ASSUME IInv, NEW w \in Writer, Step(w), ~InFlight(w)', TableIsNamed(w)'
  PROVE  WriterStands(w)'
PROOF BY DEF WriterStands, AppendIsOwn, IsUnlisted, PutInOrder, EtagIsKnown, HasEtag, InFlight

(* What the writer of the step holds and knows afterwards is true.          *)
LEMMA OwnKept == ASSUME IInv, NEW w \in Writer, Step(w) PROVE WriterStands(w)'
PROOF
<1>0. /\ TypeOK /\ WriterStands(w) /\ NamedFilesExist /\ FilesAreWhole /\ CommitsAreOver
      /\ AckedAreApplied /\ call \in [Writer -> Call] /\ call[w] \in Call
      /\ call[w].path \in Id /\ call[w].next \in Nat /\ call[w].table \in Seq(Nat)
      /\ call[w].etag \in Nat /\ hint.etag \in Nat /\ hint.version \in Id \cup {NoHint}
      /\ \A v \in Writer : WriterStands(v)
      /\ \A v \in Writer \ {w} : call'[v] = call[v]
  BY StepSeen, Fields DEF IInv, Seen, OthersStay, TypeOK
<1>a. \A id \in Id : files[id] # Absent => files'[id] # Absent
  BY FilesAfter
<1>b. call[w].table # Absent => IdOf(Last(call[w].table)) = IF Last(call[w].table) = First THEN Base ELSE appends'[Last(call[w].table)]
  <2>1. call[w].table # Absent => Last(call[w].table) \in Numbered
    BY <1>0, LastIsElement, StoredAreNumbered DEF Absent
  <2> QED
    BY <2>1, StepSeen DEF IInv, Seen, Grows, Numbered, IdOf
<1>c. ASSUME call'[w].path = call[w].path, call'[w].table = call[w].table, HoldsTable(w)
      PROVE  TableIsNamed(w)'
  <2>1. IdOf(Last(call[w].table))' = IdOf(Last(call[w].table))
    BY <1>0, <1>b, <1>c DEF WriterStands, TableIsNamed, IdOf
  <2> QED
    BY <1>0, <1>a, <1>c, <2>1 DEF WriterStands, TableIsNamed, Exists
<1>1. CASE ReadHint(w) \/ Crash(w)
  <2>1. /\ files' = files /\ call'[w].pc \in {"idle", "listing", "loading"}
        /\ call'[w].pc = "loading" => call'[w].path = hint.version /\ hint.version # NoHint
    <3>1. CASE ReadHint(w) /\ hint.version = NoHint
      <4>1. call'[w] = [IdleCall EXCEPT !.pc = "listing"] /\ files' = files
        BY <1>0, <3>1 DEF ReadHint
      <4> QED
        BY <4>1 DEF IdleCall
    <3>2. CASE ReadHint(w) /\ hint.version # NoHint
      <4>1. call'[w] = [IdleCall EXCEPT !.pc = "loading", !.path = hint.version] /\ files' = files
        BY <1>0, <3>2 DEF ReadHint
      <4> QED
        BY <3>2, <4>1 DEF IdleCall
    <3>3. CASE Crash(w)
      BY <1>0, <3>3 DEF Crash, IdleCall
    <3> QED
      BY <1>1, <3>1, <3>2, <3>3
  <2>2. ~InFlight(w)' /\ TableIsNamed(w)'
    BY <1>0, <2>1 DEF NamedFilesExist, TableIsNamed, HoldsTable, InFlight, Exists
  <2> QED
    BY <2>2, AtRest
<1>2. CASE ListMetadata(w) \/ \E id \in Id : OpenPath(w, id)
  <2>1. \E id \in Id : /\ Exists(id) /\ files' = files
                       /\ call'[w].pc = "loading" /\ call'[w].path = id
    <3>1. CASE ListMetadata(w)
      <4>1. PICK id \in Id : Exists(id) /\ call' = [call EXCEPT ![w].pc = "loading", ![w].path = id]
        BY <3>1 DEF ListMetadata, Latest
      <4> QED
        BY <1>0, <3>1, <4>1 DEF ListMetadata, Call
    <3>2. ASSUME NEW id \in Id, OpenPath(w, id)
          PROVE  Exists(id) /\ files' = files /\ call'[w].pc = "loading" /\ call'[w].path = id
      <4>1. call'[w] = [IdleCall EXCEPT !.pc = "loading", !.path = id]
        BY <1>0, <3>2 DEF OpenPath
      <4>2. Exists(id)
        BY <1>0, <3>2 DEF OpenPath, NamedFilesExist, IdOf
      <4> QED
        BY <3>2, <4>1, <4>2 DEF OpenPath, IdleCall
    <3> QED
      BY <1>2, <3>1, <3>2
  <2>2. ~InFlight(w)' /\ TableIsNamed(w)'
    BY <1>0, <2>1 DEF TableIsNamed, HoldsTable, InFlight, Exists
  <2> QED
    BY <2>2, AtRest
<1>3. CASE LoadMetadata(w)
  <2>1. /\ files' = files /\ appends' = appends /\ call'[w].pc = "loaded" /\ call'[w].path = call[w].path
        /\ call'[w].table = files[call[w].path] /\ call[w].pc = "loading"
    BY <1>0, <1>3 DEF LoadMetadata, Call
  <2>2. ~InFlight(w)' /\ TableIsNamed(w)'
    BY <1>0, <2>1 DEF WriterStands, TableIsNamed, FilesAreWhole, HoldsTable, InFlight, Exists, IdOf
  <2> QED
    BY <2>2, AtRest
<1>4. CASE AppendFiles(w)
  <2>1. PICK id \in Id : appends' = Append(appends, id)
    BY <1>4 DEF AppendFiles
  <2>2. /\ call'[w].pc = "check" /\ call'[w].next = Len(appends) + 1 /\ call'[w].path = call[w].path
        /\ call'[w].table = call[w].table
    BY <1>0, <1>4 DEF AppendFiles, Call
  <2>3. files' = files /\ applied' = applied /\ call[w].pc = "loaded"
    BY <1>4 DEF AppendFiles
  <2>4. TableIsNamed(w)'
    BY <1>c, <2>2, <2>3 DEF HoldsTable
  <2>5. Len(appends) + 1 \notin Numbered /\ Len(appends) + 1 \in DOMAIN appends'
    BY <1>0, <2>1, NumberedIds DEF Numbered, First, TypeOK
  <2>6. AppendIsOwn(w)'
    <3>1. \A a \in applied : a.append # Len(appends) + 1
      BY <1>0, <2>5 DEF CommitsAreOver, Numbered
    <3>2. \A v \in Writer \ {w} : InFlight(v) => call[v].next # Len(appends) + 1
      BY <1>0, <2>5 DEF WriterStands, AppendIsOwn, Numbered
    <3> QED
      BY <1>0, <2>2, <2>3, <2>5, <3>1, <3>2 DEF AppendIsOwn, InFlight
  <2>7. IsUnlisted(w)'
    <3>1. \A v \in Writer : call'[v].table = call[v].table
      BY <1>0, <2>2
    <3> QED
      BY <2>2, <2>3, <2>5, <3>1, StoredAreNumbered DEF IsUnlisted
  <2>8. PutInOrder(w)' /\ EtagIsKnown(w)'
    BY <2>2 DEF PutInOrder, EtagIsKnown, HasEtag
  <2> QED
    BY <2>4, <2>6, <2>7, <2>8 DEF WriterStands
<1>5. CASE \/ HeadHint(w)
           \/ PutManifest(w)
           \/ CheckBase(w) /\ Goto(w, "head")
  <2>1. /\ InFlight(w) /\ call[w].pc # "hint"
        /\ call'[w].pc \in {"head", "manifest", "metadata"}
        /\ call'[w].path = call[w].path /\ call'[w].table = call[w].table
        /\ call'[w].next = call[w].next /\ files' = files /\ applied' = applied /\ appends' = appends
        /\ hint' = hint
    BY <1>0, <1>5 DEF HeadHint, PutManifest, CheckBase, Goto, Call, InFlight
  <2>2. TableIsNamed(w)'
    BY <1>c, <2>1 DEF HoldsTable
  <2>3. AppendIsOwn(w)' /\ IsUnlisted(w)'
    <3>1. \A v \in Writer : call'[v].table = call[v].table
      BY <1>0, <2>1
    <3>2. AppendIsOwn(w)'
      BY <1>0, <2>1 DEF WriterStands, AppendIsOwn, InFlight
    <3> QED
      BY <1>0, <2>1, <3>1, <3>2 DEF WriterStands, IsUnlisted, InFlight
  <2>4. call'[w].pc = "metadata" => call[w].next \in manifests'
    BY <1>0, <1>5 DEF HeadHint, PutManifest, CheckBase, Goto, Call
  <2>5. call'[w].pc = "manifest" => call'[w].etag = hint.etag
    BY <1>0, <1>5 DEF HeadHint, PutManifest, CheckBase, Goto, Call
  <2>6. call'[w].pc = "metadata" => call'[w].etag = call[w].etag /\ call[w].pc = "manifest"
    BY <1>0, <1>5 DEF HeadHint, PutManifest, CheckBase, Goto, Call
  <2>7. PutInOrder(w)' /\ EtagIsKnown(w)'
    BY <1>0, <2>1, <2>4, <2>5, <2>6 DEF WriterStands, PutInOrder, EtagIsKnown, HasEtag
  <2> QED
    BY <2>2, <2>3, <2>7 DEF WriterStands
<1>7. CASE PutMetadata(w)
  <2>1. /\ call[w].pc = "metadata" /\ call'[w].pc = "hint" /\ call'[w].etag = call[w].etag
        /\ call'[w].path = call[w].path /\ call'[w].table = call[w].table
        /\ call'[w].next = call[w].next
        /\ files' = [files EXCEPT ![IdOf(call[w].next)] = Append(call[w].table, call[w].next)]
        /\ applied' = applied /\ hint' = hint /\ appends' = appends /\ manifests' = manifests
    BY <1>0, <1>7 DEF PutMetadata, Goto, Call
  <2>2. TableIsNamed(w)'
    BY <1>c, <2>1 DEF HoldsTable, InFlight
  <2>3. PutInOrder(w)'
    <3>1. IdOf(call[w].next) \in Id
      BY <1>0, <2>1, NumberedIds DEF WriterStands, AppendIsOwn, InFlight, Numbered
    <3>2. IdOf(call[w].next)' = IdOf(call[w].next)
      BY <2>1 DEF IdOf
    <3>3. Append(call[w].table, call[w].next) # Absent
      BY <1>0, Appended DEF Absent
    <3> QED
      BY <1>0, <2>1, <3>1, <3>2, <3>3 DEF WriterStands, PutInOrder, TypeOK, Exists
  <2>4. AppendIsOwn(w)' /\ IsUnlisted(w)'
    BY <1>0, <2>1 DEF WriterStands, AppendIsOwn, IsUnlisted, InFlight
  <2>5. EtagIsKnown(w)'
    BY <1>0, <2>1 DEF WriterStands, EtagIsKnown, HasEtag
  <2> QED
    BY <2>2, <2>3, <2>4, <2>5 DEF WriterStands
<1>9. CASE /\ Goto(w, "loaded") /\ InFlight(w)
  <2>1. call'[w].pc = "loaded" /\ call'[w].path = call[w].path /\ call'[w].table = call[w].table
    BY <1>0, <1>9 DEF Goto, Call
  <2>2. ~InFlight(w)' /\ TableIsNamed(w)'
    BY <1>c, <1>9, <2>1 DEF HoldsTable, InFlight
  <2> QED
    BY <2>2, AtRest
<1>10. CASE \/ CheckBase(w) /\ Goto(w, "loaded")
            \/ UpdateHint(w)
            \/ UpdateHintUnanswered(w)
            \/ Conflict(w)
            \/ StoreFails(w)
  BY <1>9, <1>10 DEF CheckBase, UpdateHint, UpdateHintUnanswered, Apply, Conflict, StoreFails, InFlight
<1>11. CheckBase(w) => Goto(w, "head") \/ Goto(w, "loaded")
  BY DEF CheckBase
<1> QED
  BY <1>1, <1>2, <1>3, <1>4, <1>5, <1>7, <1>10, <1>11 DEF Step

(* What is committed stays so, and a commit adds the id of its append.       *)
LEMMA CommittedGrows ==
  ASSUME IInv, NEW w \in Writer, Step(w)
  PROVE  /\ Committed \subseteq Committed'
         /\ call[w].pc = "hint" /\ CommitOf(call[w]) \in applied' => IdOf(call[w].next) \in Committed'
PROOF
<1>1. TypeOK /\ CommitsAreOver /\ AppendIsOwn(w) /\ Grows
  BY StepSeen DEF IInv, Seen, WriterStands
<1>2. \A a \in Numbered : IdOf(a) = IF a = First THEN Base ELSE appends'[a]
  BY <1>1 DEF Grows, Numbered, IdOf
<1>3. ASSUME NEW a \in applied PROVE IdOf(a.append) \in Committed'
  <2>1. a.append \in Numbered /\ a \in applied'
    BY <1>1 DEF CommitsAreOver, Numbered, Grows
  <2>2. IdOf(a.append)' = IdOf(a.append)
    BY <1>2, <2>1 DEF IdOf
  <2> QED
    BY <2>1, <2>2 DEF Committed
<1>4. ASSUME call[w].pc = "hint", CommitOf(call[w]) \in applied' PROVE IdOf(call[w].next) \in Committed'
  <2>1. call[w].next \in Numbered /\ CommitOf(call[w]).append = call[w].next
    BY <1>1, <1>4 DEF AppendIsOwn, InFlight, Numbered, CommitOf
  <2>2. IdOf(call[w].next) = IF call[w].next = First THEN Base ELSE appends'[call[w].next]
    BY <1>2, <2>1
  <2>3. \E a \in applied' : a.append = call[w].next
    BY <1>4, <2>1
  <2>4. \E a \in applied' : (IF a.append = First THEN Base ELSE appends'[a.append]) = IdOf(call[w].next)
    BY <2>2, <2>3
  <2> QED
    BY <2>4 DEF Committed, IdOf
<1>5. Base \in Committed'
  BY DEF Committed
<1> QED
  BY <1>3, <1>4, <1>5 DEF Committed

(* What a table lists of appends that have begun keeps its ids.              *)
LEMMA SnapshotsKept ==
  ASSUME IInv, NEW w \in Writer, Step(w), NEW S \in SUBSET Numbered, NEW T, {IdOf(a) : a \in S} \subseteq T
  PROVE  {IF a = First THEN Base ELSE appends'[a] : a \in S} \subseteq T
PROOF
<1>1. \A a \in Numbered : IdOf(a) = IF a = First THEN Base ELSE appends'[a]
  BY StepSeen DEF IInv, Seen, Grows, Numbered, IdOf
<1> QED
  BY <1>1

(* As long as no commit has had to create the hint, every file lists         *)
(* committed snapshots besides its own, and every table a writer can get at   *)
(* committed ones only.                                                     *)
LEMMA VisibleKept == ASSUME IInv, NEW w \in Writer, Step(w) PROVE Visible'
PROOF
<1>0. /\ TypeOK /\ WriterStands(w) /\ NamedFilesExist /\ FilesAreWhole /\ Visible
      /\ AckedAreApplied /\ call \in [Writer -> Call] /\ call[w] \in Call
      /\ call[w].path \in Id /\ call[w].next \in Nat /\ call[w].table \in Seq(Nat)
      /\ hint.etag \in Nat /\ hint.version \in Id \cup {NoHint} /\ Base \in Id
      /\ HintMoves(w) /\ TableMoves(w)
      /\ \A v \in Writer \ {w} : call'[v] = call[v]
  BY StepSeen, Fields, IdsAssumption DEF IInv, Seen, OthersStay, TypeOK
<1>1. Committed \subseteq Committed'
  BY CommittedGrows
<1>2. (hint.version = NoHint => hint.etag = 0)'
  <2>1. NoHint \notin Id
    BY IdsAssumption DEF Id, NoHint
  <2>2. call[w].pc = "hint" => IdOf(call[w].next) \in Id
    BY <1>0, NumberedIds DEF WriterStands, AppendIsOwn, InFlight, Numbered
  <2> QED
    BY <1>0, <2>1, <2>2 DEF Visible, HintMoves
<1>3. Hinted' => Hinted
  <2>1. CASE hint' = hint /\ applied' = applied
    BY <2>1 DEF Hinted
  <2>2. CASE /\ call[w].etag = hint.etag /\ applied' = applied \cup {CommitOf(call[w])}
    <3>1. CommitOf(call[w]) \in applied' /\ CommitOf(call[w]).etag = hint.etag
      BY <2>2 DEF CommitOf
    <3>2. applied \subseteq applied' /\ (hint.version = NoHint => hint.etag = 0)
      BY <1>0, <2>2 DEF Visible
    <3> QED
      BY <3>1, <3>2 DEF Hinted
  <2> QED
    BY <1>0, <2>1, <2>2 DEF HintMoves
<1> SUFFICES ASSUME Hinted'
             PROVE  /\ hint'.version \in Committed'
                    /\ \A id \in Id : SnapshotsOf(files[id])' \subseteq Committed' \cup {id}
                    /\ \A v \in Writer :
                         /\ call'[v].pc # "idle" => call'[v].pc # "listing" /\ call'[v].path \in Committed'
                         /\ SnapshotsOf(call[v].table)' \subseteq Committed'
  BY <1>2 DEF Visible
<1>4. /\ Hinted /\ hint.version \in Id /\ hint.version \in Committed
      /\ \A id \in Id : SnapshotsOf(files[id]) \subseteq Committed \cup {id}
      /\ \A v \in Writer :
           /\ call[v].pc # "idle" => call[v].pc # "listing" /\ call[v].path \in Committed
           /\ SnapshotsOf(call[v].table) \subseteq Committed
  BY <1>0, <1>3 DEF Visible, Hinted
<1>5. hint'.version \in Committed'
  <2>1. CASE hint' = hint
    BY <1>1, <1>4, <2>1
  <2>2. CASE /\ call[w].pc = "hint" /\ applied' = applied \cup {CommitOf(call[w])}
             /\ hint' = [version |-> IdOf(call[w].next), etag |-> hint.etag + 1]
    <3>1. hint'.version = IdOf(call[w].next)
      BY <2>2
    <3> QED
      BY <2>2, <3>1, CommittedGrows
  <2> QED
    BY <1>0, <2>1, <2>2 DEF HintMoves
<1>6. ASSUME NEW id \in Id PROVE SnapshotsOf(files[id])' \subseteq Committed' \cup {id}
  <2>1. CASE files'[id] = files[id]
    <3>1. {IdOf(a) : a \in ToSet(files[id])} \subseteq Committed' \cup {id}
      BY <1>1, <1>4 DEF SnapshotsOf
    <3>2. {IF a = First THEN Base ELSE appends'[a] : a \in ToSet(files[id])} \subseteq Committed' \cup {id}
      BY <3>1, SnapshotsKept, StoredAreNumbered
    <3> QED
      BY <2>1, <3>2 DEF SnapshotsOf, IdOf
  <2>2. CASE files'[id] # files[id]
    <3>1. /\ call[w].pc = "metadata" /\ id = IdOf(call[w].next)
          /\ ToSet(files'[id]) = ToSet(call[w].table) \cup {call[w].next}
      BY <2>2, FilesAfter
    <3>2. ToSet(files'[id]) \subseteq Numbered
      BY <1>0, <3>1, StoredAreNumbered DEF WriterStands, AppendIsOwn, InFlight, Numbered
    <3>3. {IdOf(a) : a \in ToSet(files'[id])} \subseteq Committed' \cup {id}
      BY <1>1, <1>4, <3>1 DEF SnapshotsOf
    <3>4. {IF a = First THEN Base ELSE appends'[a] : a \in ToSet(files'[id])} \subseteq Committed' \cup {id}
      BY <3>2, <3>3, SnapshotsKept
    <3> QED
      BY <3>4 DEF SnapshotsOf, IdOf
  <2> QED
    BY <2>1, <2>2
<1>7. ASSUME NEW v \in Writer PROVE SnapshotsOf(call[v].table)' \subseteq Committed'
  <2>1. ASSUME call'[v].table = call[v].table PROVE SnapshotsOf(call[v].table)' \subseteq Committed'
    <3>1. {IdOf(a) : a \in ToSet(call[v].table)} \subseteq Committed'
      BY <1>1, <1>4 DEF SnapshotsOf
    <3>2. {IF a = First THEN Base ELSE appends'[a] : a \in ToSet(call[v].table)} \subseteq Committed'
      BY <3>1, SnapshotsKept, StoredAreNumbered
    <3> QED
      BY <2>1, <3>2 DEF SnapshotsOf, IdOf
  <2>2. ASSUME v = w, call'[w].table = Absent PROVE SnapshotsOf(call[v].table)' \subseteq Committed'
    <3>1. ToSet(Absent) = {}
      BY DEF ToSet, Absent
    <3> QED
      BY <2>2, <3>1 DEF SnapshotsOf
  <2>3. ASSUME v = w, call[w].pc = "loading", call'[w].table = files[call[w].path]
        PROVE  SnapshotsOf(call[v].table)' \subseteq Committed'
    <3>1. SnapshotsOf(files[call[w].path]) \subseteq Committed \cup {call[w].path} /\ call[w].path \in Committed
      BY <1>0, <1>4, <2>3
    <3>2. {IdOf(a) : a \in ToSet(files[call[w].path])} \subseteq Committed'
      BY <1>1, <3>1 DEF SnapshotsOf
    <3>3. {IF a = First THEN Base ELSE appends'[a] : a \in ToSet(files[call[w].path])} \subseteq Committed'
      BY <1>0, <3>2, SnapshotsKept, StoredAreNumbered
    <3> QED
      BY <2>3, <3>3 DEF SnapshotsOf, IdOf
  <2> QED
    BY <1>0, <2>1, <2>2, <2>3 DEF TableMoves
<1>8. ASSUME NEW v \in Writer, call'[v].pc # "idle"
      PROVE  call'[v].pc # "listing" /\ call'[v].path \in Committed'
  <2>1. CASE call[v].pc # "idle" /\ call'[v].path = call[v].path /\ call'[v].pc # "listing"
    BY <1>1, <1>4, <2>1
  <2>2. CASE v # w
    BY <1>0, <1>8, <2>1, <2>2, <1>4
  <2>3. CASE v = w
    <3>1. CASE ReadHint(w)
      <4>1. call'[w] = [IdleCall EXCEPT !.pc = "loading", !.path = hint.version]
        BY <1>0, <1>4, <3>1 DEF ReadHint, Hinted
      <4>2. call'[w].pc = "loading" /\ call'[w].path = hint.version
        BY <4>1 DEF IdleCall
      <4> QED
        BY <1>1, <1>4, <2>3, <4>2
    <3>2. ASSUME NEW id \in Id, OpenPath(w, id)
          PROVE  call'[v].pc # "listing" /\ call'[v].path \in Committed'
      <4>1. call'[w] = [IdleCall EXCEPT !.pc = "loading", !.path = id]
        BY <1>0, <3>2 DEF OpenPath
      <4>2. call'[w].pc = "loading" /\ call'[w].path = id
        BY <4>1 DEF IdleCall
      <4>3. id \in Committed
        BY <1>0, <3>2 DEF OpenPath, AckedAreApplied, Committed, IdOf
      <4> QED
        BY <1>1, <2>3, <4>2, <4>3
    <3>3. CASE ListMetadata(w)
      BY <1>4, <3>3 DEF ListMetadata
    <3>4. CASE AppendFiles(w) \/ LoadMetadata(w) \/ HeadHint(w)
      <4>1. call[w].pc # "idle" /\ call'[w].pc # "listing" /\ call'[w].path = call[w].path
        BY <1>0, <3>4 DEF AppendFiles, LoadMetadata, HeadHint, Call
      <4> QED
        BY <2>1, <2>3, <4>1
    <3>6. CASE Crash(w)
      BY <1>0, <1>8, <2>3, <3>6 DEF Crash, IdleCall
    <3>7. CASE \/ CheckBase(w) \/ PutManifest(w) \/ PutMetadata(w) \/ UpdateHint(w)
               \/ UpdateHintUnanswered(w) \/ Conflict(w) \/ StoreFails(w)
      <4>1. PICK pc \in {"head", "loaded", "metadata", "hint"} : Goto(w, pc)
        BY <3>7 DEF CheckBase, PutManifest, PutMetadata, UpdateHint, UpdateHintUnanswered, Conflict, StoreFails
      <4>2. call'[w].pc # "listing" /\ call'[w].path = call[w].path
        BY <1>0, <4>1 DEF Goto, Call
      <4>3. call[w].pc # "idle"
        BY <3>7 DEF CheckBase, PutManifest, PutMetadata, UpdateHint, UpdateHintUnanswered, Apply,
                    Conflict, StoreFails
      <4> QED
        BY <2>1, <2>3, <4>2, <4>3
    <3> QED
      BY <3>1, <3>2, <3>3, <3>4, <3>6, <3>7 DEF Step
  <2> QED
    BY <2>2, <2>3
<1> QED
  BY <1>5, <1>6, <1>7, <1>8

-----------------------------------------------------------------------------
(* The theorems *)

(* The initial state satisfies the invariant.                               *)
LEMMA InitHolds == ASSUME Init PROVE IInv
PROOF
<1>1. <<First>> \in Seq(Nat) /\ <<First>> # Absent /\ Last(<<First>>) = First /\ ToSet(<<First>>) = {First}
      /\ Absent \in Seq(Nat) /\ ToSet(Absent) = {} /\ Base \in Id
  BY IdsAssumption DEF Absent, Last, ToSet, First
<1>2. /\ files \in [Id -> Seq(Nat)] /\ files[Base] = <<First>>
      /\ \A id \in Id : files[id] = Absent \/ id = Base
      /\ appends = <<>> /\ appends \in Seq(Id) /\ IdOf(First) = Base
  BY <1>1 DEF Init, IdOf
<1>3. hint \in Hint /\ (hint.version # NoHint => hint.version = Base) /\ (hint.version = NoHint => hint.etag = 0)
  <2>1. NoHint \notin Id
    BY IdsAssumption DEF Id, NoHint
  <2>2. CASE hint = [version |-> Base, etag |-> 1]
    BY <1>1, <2>1, <2>2 DEF Hint
  <2>3. CASE hint = [version |-> NoHint, etag |-> 0]
    BY <2>3 DEF Hint
  <2> QED
    BY <2>2, <2>3 DEF Init
<1>4. IdleCall \in Call /\ IdleCall.pc = "idle" /\ IdleCall.table = Absent
  BY <1>1 DEF IdleCall, Call, Phases, Absent, First
<1>5. TypeOK
  BY <1>2, <1>3, <1>4 DEF Init, TypeOK
<1>6. \A w \in Writer : call[w].pc = "idle" /\ call[w].table = Absent
  BY <1>4 DEF Init
<1>7. FilesAreWhole
  BY <1>1, <1>2, <1>6 DEF Init, FilesAreWhole, IsStored, Exists
<1>8. NamedFilesExist /\ AckedAreApplied
  BY <1>1, <1>2, <1>3 DEF Init, NamedFilesExist, AckedAreApplied, Exists
<1>9. \A w \in Writer : WriterStands(w)
  BY <1>6 DEF WriterStands, TableIsNamed, AppendIsOwn, IsUnlisted, PutInOrder, EtagIsKnown, HoldsTable,
              HasEtag, InFlight
<1>10. CommitsAreOver /\ RacersConflict /\ ConflictsAreReal
  BY DEF Init, CommitsAreOver, RacersConflict, ConflictsAreReal
<1>11. Visible
  <2>1. Base \in Committed /\ SnapshotsOf(<<First>>) = {Base} /\ SnapshotsOf(Absent) = {}
    BY <1>1, <1>2 DEF Committed, SnapshotsOf
  <2> QED
    BY <1>2, <1>3, <1>6, <2>1 DEF Visible, Hinted
<1> QED
  BY <1>5, <1>7, <1>8, <1>9, <1>10, <1>11 DEF IInv

(* Every step keeps the invariant.                                          *)
LEMMA NextKeeps == ASSUME IInv, [Next]_vars PROVE IInv'
PROOF
<1>1. CASE UNCHANGED vars
  <2>1. /\ files' = files /\ manifests' = manifests /\ hint' = hint /\ call' = call /\ appends' = appends
        /\ applied' = applied /\ acked' = acked /\ refused' = refused /\ IInv
    BY <1>1 DEF vars
  <2>2. TypeOK' /\ RacersConflict' /\ ConflictsAreReal' /\ AckedAreApplied' /\ CommitsAreOver'
    BY <2>1 DEF IInv, TypeOK, RacersConflict, ConflictsAreReal, AckedAreApplied, CommitsAreOver
  <2>3. FilesAreWhole' /\ NamedFilesExist'
    BY <2>1 DEF IInv, FilesAreWhole, IsStored, NamedFilesExist, Exists, IdOf
  <2>4. ASSUME NEW w \in Writer PROVE WriterStands(w)'
    <3>1. WriterStands(w)
      BY <2>1 DEF IInv
    <3>2. TableIsNamed(w)' /\ PutInOrder(w)'
      BY <2>1, <3>1 DEF WriterStands, TableIsNamed, PutInOrder, HoldsTable, InFlight, Exists, IdOf
    <3>3. AppendIsOwn(w)' /\ IsUnlisted(w)' /\ EtagIsKnown(w)'
      BY <2>1, <3>1 DEF WriterStands, AppendIsOwn, IsUnlisted, EtagIsKnown, HasEtag, InFlight
    <3> QED
      BY <3>2, <3>3 DEF WriterStands
  <2>5. Visible'
    BY <2>1 DEF IInv, Visible, Hinted, Committed, SnapshotsOf, IdOf
  <2> QED
    BY <2>2, <2>3, <2>4, <2>5 DEF IInv
<1>2. ASSUME NEW w \in Writer, Step(w) PROVE IInv'
  <2>1. \A v \in Writer : WriterStands(v)'
    BY <1>2, OthersKept, OwnKept
  <2> QED
    BY <1>2, <2>1, TypeKept, FilesKept, NamesKept, CommitsKept, AckedKept, RacersKept, ConflictsKept,
       VisibleKept DEF IInv
<1> QED
  BY <1>1, <1>2 DEF Next

(* The invariant holds in every reachable state of every table.             *)
THEOREM Invariance == Spec => []IInv
PROOF BY InitHolds, NextKeeps, PTL DEF Spec

(* Every variable keeps its type.                                           *)
THEOREM TypeCorrect == Spec => []TypeOK
<1>1. IInv => TypeOK
  BY DEF IInv
<1> QED
  BY <1>1, Invariance, PTL

(* Whatever crashes or fails, and whichever append put it last, the metadata  *)
(* file the version hint names is there with all its manifests.             *)
THEOREM HintNamesTheTable == Spec => []HintIsWhole
<1>1. IInv => HintIsWhole
  BY DEF IInv, TypeOK, Hint, FilesAreWhole, IsStored, NamedFilesExist, HintIsWhole, Current
<1> QED
  BY <1>1, Invariance, PTL

(* Of any number of appends that saw the same hint at most one takes effect. *)
THEOREM OneOfTheRacers == Spec => []RacersConflict
<1>1. IInv => RacersConflict
  BY DEF IInv
<1> QED
  BY <1>1, Invariance, PTL

(* No append is refused without another one that took its place.            *)
THEOREM NoFalseConflict == Spec => []ConflictsAreReal
<1>1. IInv => ConflictsAreReal
  BY DEF IInv
<1> QED
  BY <1>1, Invariance, PTL

(* What refused, failed and crashed appends leave in the store does not get  *)
(* into the table but under the id of one that took effect, unless a commit  *)
(* has had to create the hint.                                              *)
THEOREM CommitsOnly == Spec => []OnlyCommitsAreVisible
<1>1. ASSUME IInv PROVE OnlyCommitsAreVisible
  <2>1. ASSUME hint.version # NoHint, \A a \in applied : a.etag # 0
        PROVE  SnapshotsOf(files[hint.version]) \subseteq Committed
    BY <1>1, <2>1 DEF IInv, TypeOK, Hint, Visible, Hinted
  <2> QED
    BY <2>1 DEF OnlyCommitsAreVisible, Current, Committed
<1> QED
  BY <1>1, Invariance, PTL

(* A metadata file that is there is written over only by an append that was   *)
(* given the same snapshot id as the append that put it.                     *)
THEOREM OnlyReuseWritesOver == Spec => FilesChangeByReuse
<1> DEFINE Reused(id) == \E a, b \in First..Len(appends) : a # b /\ IdOf(a) = id /\ IdOf(b) = id
<1>1. ASSUME IInv, NEW w \in Writer, Step(w), NEW id \in Id, Exists(id), files'[id] # files[id]
      PROVE  Reused(id)
  <2>1. call[w].pc = "metadata" /\ id = IdOf(call[w].next)
    BY <1>1, FilesAfter
  <2>2. Last(files[id]) \in ToSet(files[id]) /\ IdOf(Last(files[id])) = id
    BY <1>1, LastIsElement DEF IInv, TypeOK, FilesAreWhole, Exists, Absent
  <2>3. call[w].next \notin ToSet(files[id]) /\ call[w].next \in Numbered
    BY <1>1, <2>1 DEF IInv, WriterStands, IsUnlisted, AppendIsOwn, InFlight, Numbered
  <2>4. Last(files[id]) \in Numbered
    BY <1>1, <2>2, StoredAreNumbered
  <2>5. Numbered \subseteq First..Len(appends)
    BY <1>1, NumberedIds DEF IInv, Numbered, First
  <2> QED
    BY <2>1, <2>2, <2>3, <2>4, <2>5
<1>2. IInv /\ [Next]_vars => [\A id \in Id : Exists(id) /\ files'[id] # files[id] => Reused(id)]_vars
  BY <1>1 DEF Next
<1> QED
  BY <1>2, Invariance, PTL DEF Spec, FilesChangeByReuse

-----------------------------------------------------------------------------
(* IcebergScan: a snapshot as a set of entries and of rows, over given data    *)
(* and delete files.                                                        *)
DataFile == [partition : Partitions, rows : Seq(Nat)]
DeleteKinds == {"position-delete", "deletion-vector", "equality-delete"}
DeleteFile == [kind : DeleteKinds, partition : Partitions, rows : SUBSET (Nat \X Nat), keys : SUBSET Nat]
Entry == [content : {"data", "delete"}, id : Nat, status : {"added", "deleted"}, deletes : SUBSET Nat]

Rows(dt, f) == {<<f, i>> : i \in 0..(Len(dt[f].rows) - 1)}
Key(dt, row) == dt[row[1]].rows[row[2] + 1]
Applies(dt, dl, d, f) == dl[d].partition = NullPartition \/ dt[f].partition = dl[d].partition
Removes(dt, dl, d, row) == row \in dl[d].rows \/ Key(dt, row) \in dl[d].keys

IsData(e) == e.content = "data" /\ e.status # "deleted"
Active(raw) == {e.id : e \in {x \in raw : x.content = "delete" /\ x.status # "deleted"}}
Tied(dt, dl, raw, e) == e.deletes \cup {d \in Active(raw) : Applies(dt, dl, d, e.id)}
AllDeletes(raw) == Active(raw) \cup UNION {e.deletes : e \in {x \in raw : IsData(x)}}
Tie(dt, dl, raw, e) == [e EXCEPT !.deletes = Tied(dt, dl, raw, e)]
Hyd(dt, dl, raw) == {Tie(dt, dl, raw, e) : e \in {x \in raw : IsData(x)}}

(* The files: a delete of rows is of rows of one partition that exist, and one *)
(* of keys names no rows.                                                   *)
FilesAreSound(dt, dl) ==
  /\ dt \in Seq(DataFile) /\ dl \in Seq(DeleteFile)
  /\ \A d \in DOMAIN dl : \A row \in dl[d].rows : row[1] \in DOMAIN dt
  /\ \A d \in DOMAIN dl : dl[d].kind # "equality-delete" => dl[d].keys = {}

(* A snapshot: its entries are of files that exist, each with deletes that may *)
(* apply to it; a row that is in the table is in a file of it and no delete    *)
(* names it, and a row of its files that is not is deleted by one that is tied *)
(* to the file.                                                             *)
EntriesAreSound(dt, dl, raw) ==
  \A e \in raw :
    /\ e \in Entry
    /\ e.content = "data" => e.id \in DOMAIN dt
    /\ e.content = "delete" => e.id \in DOMAIN dl
    /\ e.deletes \subseteq DOMAIN dl
    /\ IsData(e) => \A d \in e.deletes : Applies(dt, dl, d, e.id)
RowsAreSound(dt, raw, rows) ==
  \A row \in rows : row[1] \in DOMAIN dt /\ row \in Rows(dt, row[1]) /\ \E e \in raw : IsData(e) /\ e.id = row[1]
NoneIsNamed(dl, raw, rows) == \A d \in AllDeletes(raw) : \A row \in rows : row \notin dl[d].rows
RestIsDeleted(dt, dl, raw, rows) ==
  \A e \in raw : IsData(e) =>
    \A row \in Rows(dt, e.id) : row \in rows \/ \E d \in Tied(dt, dl, raw, e) : Removes(dt, dl, d, row)

IsSound(dt, dl, raw, rows) ==
  /\ EntriesAreSound(dt, dl, raw)
  /\ RowsAreSound(dt, raw, rows)
  /\ NoneIsNamed(dl, raw, rows)
  /\ RestIsDeleted(dt, dl, raw, rows)

(* While the reader has not appended, entries carry no deletes; then there are *)
(* no delete manifests left, and its own files have none.                    *)
OwnersAreSound(own, raw) ==
  /\ own = {} => \A e \in raw : e.deletes = {}
  /\ own # {} => Active(raw) = {}
  /\ \A e \in raw : IsData(e) /\ e.id \in own => e.deletes = {}

Raw(n) == UNION snapshots[n]

(* The scan: what is left of its plan, what it has shown, and what of the rows *)
(* of the files it is through with it has not.                               *)
Planned(mode, h) == [file |-> h.id, deletes |-> PlannedDeletes(mode, h)]
ScanHyd == Hyd(data, deletes, Raw(scan.snapshot))
Accounted(row) ==
  \/ row \in scan.shown \cup scan.pruned
  \/ scan.mode # "ignore-deletes" /\ IsDeletedByKey(row) /\ row[1] \notin ours

FilesArePlanned ==
  \A x \in scan.files : \E h \in ScanHyd :
    x = Planned(scan.mode, h) /\ (scan.mode = "strict" => \A d \in h.deletes : IsSupported(d))
ShownAreHidden ==
  \A row \in scan.shown :
    \/ row \in live[scan.snapshot]
    \/ scan.mode = "ignore-deletes"
    \/ /\ scan.mode = "ignore-unsupported-deletes"
       /\ \E d \in DOMAIN deletes : ~IsSupported(d) /\ row \in deletes[d].rows
ReadRowsAreAccounted ==
  scan.files # {} => \A i \in 0..(scan.offset - 1) : <<File, i>> \in live[scan.snapshot] => Accounted(<<File, i>>)
FilesReadAreAccounted ==
  \A h \in ScanHyd : PartitionMayMatch(scan.where, h.id) =>
    \/ \E x \in scan.files : x.file = h.id
    \/ \A row \in Rows(data, h.id) : row \in live[scan.snapshot] => Accounted(row)

ScanState ==
  [at : {"idle", "refused", "scanning", "done"}, snapshot : Nat, mode : Modes, where : SUBSET Partitions,
   files : SUBSET [file : Nat, deletes : SUBSET Nat], offset : Nat,
   shown : SUBSET (Nat \X Nat), pruned : SUBSET (Nat \X Nat)]

ScanIsSound ==
  /\ scan \in ScanState
  /\ scan.at # "idle" => scan.snapshot \in 1..table
  /\ scan.at \notin {"scanning", "done"} => scan.shown = {} /\ scan.files = {}
  /\ scan.at = "done" => scan.files = {}
  /\ scan.at \in {"scanning", "done"} => FilesArePlanned /\ ReadRowsAreAccounted /\ FilesReadAreAccounted

TablesAreSound ==
  /\ FilesAreSound(data, deletes)
  /\ snapshots \in Seq(SUBSET SUBSET Entry) /\ live \in Seq(SUBSET (Nat \X Nat))
  /\ Len(live) = Len(snapshots) /\ table \in 0..Len(snapshots) /\ ours \subseteq DOMAIN data
  /\ \A n \in DOMAIN snapshots : IsSound(data, deletes, Raw(n), live[n]) /\ OwnersAreSound(ours, Raw(n))

ScanIInv == TablesAreSound /\ ScanIsSound
ScanShows == scan.at # "idle" => ShownAreHidden

-----------------------------------------------------------------------------
(* What the operators of IcebergScan say, over given files.                 *)
LEMMA Reads ==
  /\ \A f : RowsOf(f) = Rows(data, f)
  /\ \A row : KeyOf(row) = Key(data, row)
  /\ \A d, f : DeleteFileMayApply(d, f) <=> Applies(data, deletes, d, f)
BY DEF RowsOf, Rows, KeyOf, Key, DeleteFileMayApply, Applies

LEMMA TieFields ==
  ASSUME NEW dt, NEW dl, NEW raw, NEW e \in Entry
  PROVE  /\ Tie(dt, dl, raw, e).id = e.id /\ Tie(dt, dl, raw, e).content = e.content
         /\ Tie(dt, dl, raw, e).status = e.status /\ Tie(dt, dl, raw, e).deletes = Tied(dt, dl, raw, e)
         /\ (Tied(dt, dl, raw, e) \subseteq Nat => Tie(dt, dl, raw, e) \in Entry)
         /\ (Tied(dt, dl, raw, e) = e.deletes => Tie(dt, dl, raw, e) = e)
<1> DEFINE t == Tied(dt, dl, raw, e)
<1>1. e = [content |-> e.content, id |-> e.id, status |-> e.status, deletes |-> e.deletes]
  BY DEF Entry
<1> HIDE DEF t
<1>2. [e EXCEPT !.deletes = t] = [content |-> e.content, id |-> e.id, status |-> e.status, deletes |-> t]
  BY DEF Entry
<1>3. t \subseteq Nat => [e EXCEPT !.deletes = t] \in Entry
  BY <1>2 DEF Entry
<1>4. t = e.deletes => [e EXCEPT !.deletes = t] = e
  BY <1>1, <1>2
<1> QED BY <1>2, <1>3, <1>4 DEF Tie, t

(* Hydration, manifest by manifest, is that of all entries at once.          *)
LEMMA HydratedIsHyd ==
  ASSUME NEW n \in DOMAIN snapshots
  PROVE  UNION Hydrated(n) = Hyd(data, deletes, Raw(n))
<1> DEFINE ms == {ValidEntries(m) : m \in snapshots[n]}
           Merged(e) == [e EXCEPT !.deletes = @ \cup {d \in DeleteIds(ms) : DeleteFileMayApply(d, e.id)}]
<1>1. DeleteIds(ms) = Active(Raw(n))
  BY DEF DeleteIds, Active, Raw, ValidEntries
<1>2. \A e : Merged(e) = Tie(data, deletes, Raw(n), e)
  BY <1>1 DEF Tie, Tied, Applies, DeleteFileMayApply
<1>3. UNION Hydrated(n) = UNION {{Merged(e) : e \in DataEntries(m)} : m \in {x \in ms : DataEntries(x) # {}}}
  BY DEF Hydrated, MergeDeletes
<1> HIDE DEF Merged
<1>4. UNION {{Merged(e) : e \in DataEntries(m)} : m \in {x \in ms : DataEntries(x) # {}}}
        = {Merged(e) : e \in {x \in Raw(n) : IsData(x)}}
  <2>1. ASSUME NEW m \in {x \in ms : DataEntries(x) # {}}, NEW e \in DataEntries(m)
        PROVE  e \in Raw(n) /\ IsData(e)
    BY DEF DataEntries, Raw, ValidEntries, IsData
  <2>2. ASSUME NEW e \in Raw(n), IsData(e)
        PROVE  \E m \in {x \in ms : DataEntries(x) # {}} : e \in DataEntries(m)
    <3>1. PICK m \in snapshots[n] : e \in m
      BY DEF Raw
    <3>2. ValidEntries(m) \in ms /\ e \in DataEntries(ValidEntries(m))
      BY <2>2, <3>1 DEF ValidEntries, DataEntries, IsData
    <3> QED BY <3>2
  <2> HIDE DEF ms
  <2> QED BY <2>1, <2>2
<1>5. Hyd(data, deletes, Raw(n)) = {Merged(e) : e \in {x \in Raw(n) : IsData(x)}}
  BY <1>2 DEF Hyd
<1> QED BY <1>3, <1>4, <1>5

(* More files change nothing of what was there.                             *)
Extends(dt, dl, dt2, dl2) ==
  /\ DOMAIN dt \subseteq DOMAIN dt2 /\ \A f \in DOMAIN dt : dt2[f] = dt[f]
  /\ DOMAIN dl \subseteq DOMAIN dl2 /\ \A d \in DOMAIN dl : dl2[d] = dl[d]

LEMMA ActiveExist ==
  ASSUME NEW dt, NEW dl, NEW raw, EntriesAreSound(dt, dl, raw)
  PROVE  /\ AllDeletes(raw) \subseteq DOMAIN dl /\ Active(raw) \subseteq AllDeletes(raw)
         /\ \A e \in raw : IsData(e) => Tied(dt, dl, raw, e) \subseteq AllDeletes(raw)
BY DEF AllDeletes, Active, EntriesAreSound, Tied

LEMMA TiedStays ==
  ASSUME NEW dt, NEW dl, NEW dt2, NEW dl2, NEW raw, Extends(dt, dl, dt2, dl2), EntriesAreSound(dt, dl, raw)
  PROVE  /\ \A e \in raw : IsData(e) => Tied(dt2, dl2, raw, e) = Tied(dt, dl, raw, e)
         /\ Hyd(dt2, dl2, raw) = Hyd(dt, dl, raw)
<1>1. ASSUME NEW e \in raw, IsData(e) PROVE Tied(dt2, dl2, raw, e) = Tied(dt, dl, raw, e)
  <2>1. e.id \in DOMAIN dt /\ Active(raw) \subseteq DOMAIN dl
    BY <1>1, ActiveExist DEF EntriesAreSound, IsData
  <2> QED BY <2>1 DEF Tied, Applies, Extends
<1>2. \A e \in raw : IsData(e) => Tie(dt2, dl2, raw, e) = Tie(dt, dl, raw, e)
  BY <1>1 DEF Tie
<1> QED BY <1>1, <1>2 DEF Hyd

LEMMA SoundStays ==
  ASSUME NEW dt, NEW dl, NEW dt2, NEW dl2, NEW raw, NEW rows,
         Extends(dt, dl, dt2, dl2), IsSound(dt, dl, raw, rows)
  PROVE  IsSound(dt2, dl2, raw, rows)
<1> USE DEF IsSound
<1>1. \A f \in DOMAIN dt : Rows(dt2, f) = Rows(dt, f)
  BY DEF Rows, Extends
<1>2. EntriesAreSound(dt2, dl2, raw)
  <2> SUFFICES ASSUME NEW e \in raw, IsData(e), NEW d \in e.deletes PROVE Applies(dt2, dl2, d, e.id)
    BY DEF EntriesAreSound, Extends
  <2>1. e.id \in DOMAIN dt /\ d \in DOMAIN dl /\ Applies(dt, dl, d, e.id)
    BY DEF EntriesAreSound, IsData
  <2> QED BY <2>1 DEF Applies, Extends
<1>3. RowsAreSound(dt2, raw, rows)
  BY <1>1 DEF RowsAreSound, Extends
<1>4. NoneIsNamed(dl2, raw, rows)
  <2>1. \A d \in AllDeletes(raw) : dl2[d] = dl[d]
    BY ActiveExist DEF Extends
  <2> QED BY <2>1 DEF NoneIsNamed
<1>5. RestIsDeleted(dt2, dl2, raw, rows)
  <2> SUFFICES ASSUME NEW e \in raw, IsData(e), NEW row \in Rows(dt2, e.id), row \notin rows
               PROVE  \E d \in Tied(dt2, dl2, raw, e) : Removes(dt2, dl2, d, row)
    BY DEF RestIsDeleted
  <2>1. e.id \in DOMAIN dt
    BY DEF EntriesAreSound, IsData
  <2>2. row \in Rows(dt, e.id) /\ row[1] = e.id
    BY <1>1, <2>1 DEF Rows
  <2>3. PICK d \in Tied(dt, dl, raw, e) : Removes(dt, dl, d, row)
    BY <2>2 DEF RestIsDeleted
  <2>4. d \in DOMAIN dl
    BY <2>3, ActiveExist
  <2>5. Removes(dt2, dl2, d, row)
    BY <2>1, <2>2, <2>3, <2>4 DEF Removes, Key, Extends
  <2> QED BY <2>3, <2>5, TiedStays
<1> QED BY <1>2, <1>3, <1>4, <1>5

(* A new file comes with an entry of its own, and all of its rows.            *)
LEMMA FileAdded ==
  ASSUME NEW dt, NEW dl, NEW dt2, NEW f, NEW raw, NEW rows, NEW file,
         FilesAreSound(dt, dl), IsSound(dt, dl, raw, rows),
         f = Len(dt) + 1, file \in DataFile, dt2 = Append(dt, file)
  PROVE  /\ Extends(dt, dl, dt2, dl) /\ FilesAreSound(dt2, dl)
         /\ IsSound(dt2, dl, raw \cup {DataEntry(f)}, rows \cup Rows(dt2, f))
         /\ f \in Nat /\ f \notin DOMAIN dt /\ DataEntry(f) \in Entry
<1> DEFINE e0 == DataEntry(f)
           raw2 == raw \cup {e0}
           rows2 == rows \cup Rows(dt2, f)
<1>1. /\ f \in Nat /\ f \notin DOMAIN dt /\ dt2 \in Seq(DataFile) /\ DOMAIN dt2 = DOMAIN dt \cup {f}
      /\ dt2[f] = file /\ \A g \in DOMAIN dt : dt2[g] = dt[g]
  BY DEF FilesAreSound
<1>2. Extends(dt, dl, dt2, dl)
  BY <1>1 DEF Extends
<1>3. FilesAreSound(dt2, dl)
  BY <1>1 DEF FilesAreSound
<1>4. IsSound(dt2, dl, raw, rows)
  BY <1>2, SoundStays
<1>5. e0 \in Entry /\ IsData(e0) /\ e0.id = f /\ e0.deletes = {} /\ e0.content = "data"
  BY <1>1 DEF DataEntry, Entry, IsData
<1>6. Active(raw2) = Active(raw) /\ AllDeletes(raw2) = AllDeletes(raw)
  BY <1>5 DEF Active, AllDeletes
<1>7. \A e : Tied(dt2, dl, raw2, e) = Tied(dt2, dl, raw, e)
  BY <1>6 DEF Tied
<1> HIDE DEF e0
<1>8. EntriesAreSound(dt2, dl, raw2)
  BY <1>1, <1>4, <1>5 DEF EntriesAreSound, IsSound
<1>9. RowsAreSound(dt2, raw2, rows2)
  <2>1. \A row \in Rows(dt2, f) : row[1] = f
    BY DEF Rows
  <2> QED BY <1>1, <1>4, <1>5, <2>1 DEF RowsAreSound, IsSound
<1>10. NoneIsNamed(dl, raw2, rows2)
  <2> SUFFICES ASSUME NEW d \in AllDeletes(raw), NEW row \in Rows(dt2, f) PROVE row \notin dl[d].rows
    BY <1>4, <1>6 DEF NoneIsNamed, IsSound
  <2>1. d \in DOMAIN dl
    BY ActiveExist DEF IsSound
  <2>2. row[1] = f
    BY DEF Rows
  <2> QED BY <1>1, <2>1, <2>2 DEF FilesAreSound
<1>11. RestIsDeleted(dt2, dl, raw2, rows2)
  BY <1>4, <1>5, <1>7 DEF RestIsDeleted, IsSound
<1> QED BY <1>1, <1>2, <1>3, <1>5, <1>8, <1>9, <1>10, <1>11 DEF IsSound, e0

(* A new delete comes with an entry of its own, and without the rows it       *)
(* removes, which are of its partition.                                     *)
LEMMA DeleteAdded ==
  ASSUME NEW dt, NEW dl, NEW dl2, NEW del, NEW raw, NEW rows, NEW gone,
         FilesAreSound(dt, dl), IsSound(dt, dl, raw, rows),
         del \in DeleteFile, del.kind # "equality-delete" => del.keys = {},
         dl2 = Append(dl, del), gone \subseteq rows, del.rows \subseteq gone,
         \A row \in gone : /\ dt[row[1]].partition = del.partition
                           /\ row \in del.rows \/ Key(dt, row) \in del.keys
  PROVE  /\ Extends(dt, dl, dt, dl2) /\ FilesAreSound(dt, dl2)
         /\ IsSound(dt, dl2, raw \cup {DeleteEntry(Len(dl) + 1)}, rows \ gone)
         /\ DeleteEntry(Len(dl) + 1) \in Entry
<1> DEFINE d0 == Len(dl) + 1
           e0 == DeleteEntry(d0)
           raw2 == raw \cup {e0}
           rows2 == rows \ gone
<1>1. /\ d0 \in Nat /\ d0 \notin DOMAIN dl /\ dl2 \in Seq(DeleteFile) /\ DOMAIN dl2 = DOMAIN dl \cup {d0}
      /\ dl2[d0] = del /\ \A d \in DOMAIN dl : dl2[d] = dl[d]
  BY DEF FilesAreSound
<1> HIDE DEF d0
<1>2. Extends(dt, dl, dt, dl2)
  BY <1>1 DEF Extends
<1>3. FilesAreSound(dt, dl2)
  <2>1. \A row \in del.rows : row[1] \in DOMAIN dt
    BY DEF IsSound, RowsAreSound
  <2> QED BY <1>1, <2>1 DEF FilesAreSound
<1>4. IsSound(dt, dl2, raw, rows)
  BY <1>2, SoundStays
<1>5. e0 \in Entry /\ ~IsData(e0) /\ e0.id = d0 /\ e0.deletes = {} /\ e0.content = "delete" /\ e0.status # "deleted"
  BY <1>1 DEF DeleteEntry, Entry, IsData
<1>6. Active(raw2) = Active(raw) \cup {d0} /\ AllDeletes(raw2) = AllDeletes(raw) \cup {d0}
  BY <1>5 DEF Active, AllDeletes
<1>7. \A e : Tied(dt, dl2, raw2, e) = Tied(dt, dl2, raw, e) \cup {d \in {d0} : Applies(dt, dl2, d, e.id)}
  BY <1>6 DEF Tied
<1> HIDE DEF e0
<1>8. EntriesAreSound(dt, dl2, raw2)
  BY <1>1, <1>4, <1>5 DEF EntriesAreSound, IsSound
<1>9. RowsAreSound(dt, raw2, rows2)
  BY <1>4 DEF RowsAreSound, IsSound
<1>10. NoneIsNamed(dl2, raw2, rows2)
  BY <1>1, <1>4, <1>6 DEF NoneIsNamed, IsSound
<1>11. RestIsDeleted(dt, dl2, raw2, rows2)
  <2> SUFFICES ASSUME NEW e \in raw, IsData(e), NEW row \in Rows(dt, e.id), row \notin rows2
               PROVE  \E d \in Tied(dt, dl2, raw2, e) : Removes(dt, dl2, d, row)
    BY <1>5 DEF RestIsDeleted
  <2>1. CASE row \in gone
    <3>1. row[1] = e.id
      BY DEF Rows
    <3>2. Applies(dt, dl2, d0, e.id) /\ Removes(dt, dl2, d0, row)
      BY <1>1, <2>1, <3>1 DEF Applies, Removes
    <3> QED BY <1>7, <3>2
  <2>2. CASE row \notin rows
    BY <1>4, <1>7, <2>2 DEF RestIsDeleted, IsSound
  <2> QED BY <2>1, <2>2
<1> QED BY <1>2, <1>3, <1>5, <1>8, <1>9, <1>10, <1>11 DEF IsSound, e0, d0

(* A file is taken out of a snapshot, with the deletes of rows that name no    *)
(* other file.                                                             *)
TakenOut(dt, dl, f, e) ==
  \/ e.content = "data" /\ e.id = f
  \/ e.content = "delete" /\ dl[e.id].kind # "equality-delete" /\ dl[e.id].rows \subseteq Rows(dt, f)
Marked(dt, dl, f, e) == [e EXCEPT !.status = IF TakenOut(dt, dl, f, e) THEN "deleted" ELSE @]

LEMMA FileTakenOut ==
  ASSUME NEW dt, NEW dl, NEW f, NEW raw, NEW rows,
         FilesAreSound(dt, dl), IsSound(dt, dl, raw, rows), \A e \in raw : e.deletes = {}
  PROVE  /\ IsSound(dt, dl, {Marked(dt, dl, f, e) : e \in raw}, rows \ Rows(dt, f))
         /\ \A e \in raw : Marked(dt, dl, f, e) \in Entry /\ Marked(dt, dl, f, e).deletes = {}
<1> DEFINE mark(e) == Marked(dt, dl, f, e)
           out(e) == TakenOut(dt, dl, f, e)
           raw2 == {mark(e) : e \in raw}
           rows2 == rows \ Rows(dt, f)
<1>1. ASSUME NEW e \in raw
      PROVE  /\ mark(e) \in Entry /\ mark(e).id = e.id /\ mark(e).content = e.content /\ mark(e).deletes = {}
             /\ mark(e).status = IF out(e) THEN "deleted" ELSE e.status
  <2>1. e \in Entry
    BY DEF IsSound, EntriesAreSound
  <2> HIDE DEF out
  <2>2. mark(e) = [content |-> e.content, id |-> e.id, status |-> IF out(e) THEN "deleted" ELSE e.status, deletes |-> e.deletes]
    BY <2>1 DEF Entry, Marked, out
  <2> HIDE DEF mark
  <2> QED BY <2>1, <2>2 DEF Entry
<1> HIDE DEF mark, out
<1>2. \A e \in raw : IsData(mark(e)) <=> IsData(e) /\ e.id # f
  BY <1>1 DEF IsData, out, TakenOut
<1>3. \A d : d \in Active(raw2) <=> \E e \in raw : e.id = d /\ e.content = "delete" /\ e.status # "deleted" /\ ~out(e)
  BY <1>1 DEF Active
<1>4. Active(raw2) \subseteq Active(raw) /\ AllDeletes(raw2) = Active(raw2)
  BY <1>1, <1>3 DEF Active, AllDeletes
<1>5. EntriesAreSound(dt, dl, raw2)
  BY <1>1 DEF EntriesAreSound, IsSound
<1>6. RowsAreSound(dt, raw2, rows2)
  <2> SUFFICES ASSUME NEW row \in rows2 PROVE \E e \in raw2 : IsData(e) /\ e.id = row[1]
    BY DEF RowsAreSound, IsSound
  <2>1. PICK e \in raw : IsData(e) /\ e.id = row[1]
    BY DEF RowsAreSound, IsSound
  <2>2. e.id # f
    BY <2>1 DEF RowsAreSound, IsSound
  <2> QED BY <1>1, <1>2, <2>1, <2>2
<1>7. NoneIsNamed(dl, raw2, rows2)
  BY <1>4, ActiveExist DEF NoneIsNamed, IsSound
<1>8. RestIsDeleted(dt, dl, raw2, rows2)
  <2> SUFFICES ASSUME NEW e \in raw, IsData(e), e.id # f, NEW row \in Rows(dt, e.id), row \notin rows2
               PROVE  \E d \in Tied(dt, dl, raw2, mark(e)) : Removes(dt, dl, d, row)
    BY <1>1, <1>2 DEF RestIsDeleted
  <2>1. row[1] = e.id /\ row \notin Rows(dt, f)
    BY DEF Rows
  <2>2. PICK d \in Tied(dt, dl, raw, e) : Removes(dt, dl, d, row)
    BY <2>1 DEF RestIsDeleted, IsSound
  <2>3. d \in Active(raw) /\ Applies(dt, dl, d, e.id)
    BY <2>2 DEF Tied
  <2>4. PICK x \in raw : x.id = d /\ x.content = "delete" /\ x.status # "deleted"
    BY <2>3 DEF Active
  <2>5. d \in DOMAIN dl
    BY <2>4 DEF EntriesAreSound, IsSound
  <2>6. ~out(x)
    BY <2>1, <2>2, <2>4, <2>5 DEF out, TakenOut, Removes, FilesAreSound
  <2>7. d \in Tied(dt, dl, raw2, mark(e))
    BY <1>1, <1>3, <2>3, <2>4, <2>6 DEF Tied
  <2> QED BY <2>2, <2>7
<1> QED BY <1>1, <1>5, <1>6, <1>7, <1>8 DEF IsSound, mark

(* A hydrated snapshot means what it did, and is hydrated to itself.          *)
LEMMA HydIsSound ==
  ASSUME NEW dt, NEW dl, NEW raw, NEW rows, FilesAreSound(dt, dl), IsSound(dt, dl, raw, rows)
  PROVE  /\ IsSound(dt, dl, Hyd(dt, dl, raw), rows)
         /\ Active(Hyd(dt, dl, raw)) = {}
         /\ Hyd(dt, dl, Hyd(dt, dl, raw)) = Hyd(dt, dl, raw)
         /\ \A h \in Hyd(dt, dl, raw) : IsData(h) /\ h \in Entry
<1> DEFINE tie(e) == Tie(dt, dl, raw, e)
           raw2 == Hyd(dt, dl, raw)
<1>1. ASSUME NEW e \in raw, IsData(e)
      PROVE  /\ tie(e) \in Entry /\ IsData(tie(e)) /\ tie(e).id = e.id /\ tie(e).content = "data"
             /\ tie(e).deletes = Tied(dt, dl, raw, e) /\ Tied(dt, dl, raw, e) \subseteq DOMAIN dl
  <2>1. e \in Entry
    BY DEF IsSound, EntriesAreSound
  <2>2. Tied(dt, dl, raw, e) \subseteq DOMAIN dl
    BY <1>1, ActiveExist DEF IsSound
  <2>3. DOMAIN dl \subseteq Nat
    BY DEF FilesAreSound
  <2> HIDE DEF tie
  <2> QED BY <1>1, <2>1, <2>2, <2>3, TieFields DEF tie, IsData
<1>2. raw2 = {tie(e) : e \in {x \in raw : IsData(x)}}
  BY DEF Hyd
<1> HIDE DEF tie, raw2
<1>3. Active(raw2) = {}
  BY <1>1, <1>2 DEF Active
<1>4. AllDeletes(raw2) \subseteq AllDeletes(raw)
  BY <1>1, <1>2, <1>3, ActiveExist DEF AllDeletes, IsSound
<1>5. \A e \in raw2 : Tied(dt, dl, raw2, e) = e.deletes
  BY <1>3 DEF Tied
<1>6. EntriesAreSound(dt, dl, raw2)
  <2>1. ASSUME NEW e \in raw, IsData(e) PROVE \A d \in Tied(dt, dl, raw, e) : Applies(dt, dl, d, e.id)
    BY <2>1 DEF Tied, IsSound, EntriesAreSound
  <2> QED BY <1>1, <1>2, <2>1 DEF EntriesAreSound, IsSound, IsData
<1>7. RowsAreSound(dt, raw2, rows)
  BY <1>1, <1>2 DEF RowsAreSound, IsSound
<1>8. NoneIsNamed(dl, raw2, rows)
  BY <1>4 DEF NoneIsNamed, IsSound
<1>9. RestIsDeleted(dt, dl, raw2, rows)
  BY <1>1, <1>2, <1>5 DEF RestIsDeleted, IsSound
<1>10. Hyd(dt, dl, raw2) = raw2
  <2>1. \A e \in raw2 : IsData(e) /\ e \in Entry
    BY <1>1, <1>2
  <2>2. \A e \in raw2 : Tie(dt, dl, raw2, e) = e
    BY <1>5, <2>1, TieFields
  <2> QED BY <2>1, <2>2 DEF Hyd
<1> QED BY <1>1, <1>2, <1>3, <1>6, <1>7, <1>8, <1>9, <1>10 DEF IsSound, raw2

-----------------------------------------------------------------------------
(* Commits.                                                                *)
LEMMA LastIsSound ==
  ASSUME TablesAreSound
  PROVE  /\ IsSound(data, deletes, UNION LastManifests, LastLive) /\ OwnersAreSound(ours, UNION LastManifests)
         /\ LastManifests \in SUBSET SUBSET Entry /\ LastLive \subseteq Nat \X Nat
<1>1. CASE snapshots = <<>>
  <2>1. UNION LastManifests = {} /\ LastLive = {}
    BY <1>1 DEF LastManifests, LastLive
  <2> QED BY <2>1 DEF IsSound, EntriesAreSound, RowsAreSound, NoneIsNamed, RestIsDeleted, OwnersAreSound, Active, LastManifests
<1>2. CASE snapshots # <<>>
  <2>1. Len(snapshots) \in DOMAIN snapshots /\ Len(snapshots) \in DOMAIN live /\ Len(live) = Len(snapshots)
    BY <1>2 DEF TablesAreSound
  <2>2. LastManifests = snapshots[Len(snapshots)] /\ LastLive = live[Len(snapshots)]
    BY <1>2, <2>1 DEF LastManifests, LastLive, Last
  <2>3. /\ snapshots[Len(snapshots)] \in SUBSET SUBSET Entry /\ live[Len(snapshots)] \in SUBSET (Nat \X Nat)
        /\ IsSound(data, deletes, UNION snapshots[Len(snapshots)], live[Len(snapshots)])
        /\ OwnersAreSound(ours, UNION snapshots[Len(snapshots)])
    <3>1. /\ snapshots \in Seq(SUBSET SUBSET Entry) /\ live \in Seq(SUBSET (Nat \X Nat))
          /\ \A n \in DOMAIN snapshots : IsSound(data, deletes, UNION snapshots[n], live[n]) /\ OwnersAreSound(ours, UNION snapshots[n])
      BY DEF TablesAreSound, Raw
    <3> DEFINE k == Len(snapshots)
    <3>2. k \in DOMAIN snapshots /\ k \in DOMAIN live
      BY <2>1
    <3> HIDE DEF k
    <3>3. snapshots[k] \in SUBSET SUBSET Entry
      BY <3>1, <3>2
    <3>4. live[k] \in SUBSET (Nat \X Nat)
      BY <3>1, <3>2
    <3> QED BY <3>1, <3>2, <3>3, <3>4 DEF k
  <2> QED BY <2>2, <2>3
<1> QED BY <1>1, <1>2

LEMMA CommitIsSound ==
  ASSUME TablesAreSound, NEW ms, NEW rows, CommitSnapshot(ms, rows),
         Extends(data, deletes, data', deletes'), FilesAreSound(data', deletes'), UNCHANGED <<ours, table>>,
         ms \in SUBSET SUBSET Entry, rows \subseteq Nat \X Nat,
         IsSound(data', deletes', UNION ms, rows), OwnersAreSound(ours, UNION ms)
  PROVE  /\ TablesAreSound'
         /\ \A n \in DOMAIN snapshots : snapshots'[n] = snapshots[n] /\ live'[n] = live[n]
<1> DEFINE k == Len(snapshots) + 1
<1>1. /\ snapshots \in Seq(SUBSET SUBSET Entry) /\ live \in Seq(SUBSET (Nat \X Nat)) /\ Len(live) = Len(snapshots)
      /\ table \in 0..Len(snapshots) /\ ours \subseteq DOMAIN data
  BY DEF TablesAreSound
<1>2. snapshots' = Append(snapshots, ms) /\ live' = Append(live, rows)
  BY DEF CommitSnapshot
<1>3. /\ snapshots' \in Seq(SUBSET SUBSET Entry) /\ live' \in Seq(SUBSET (Nat \X Nat)) /\ Len(live') = Len(snapshots')
      /\ DOMAIN snapshots' = DOMAIN snapshots \cup {k} /\ k \notin DOMAIN snapshots
      /\ snapshots'[k] = ms /\ live'[k] = rows /\ Len(snapshots') = Len(snapshots) + 1
      /\ \A n \in DOMAIN snapshots : snapshots'[n] = snapshots[n] /\ live'[n] = live[n]
  BY <1>1, <1>2
<1> HIDE DEF k
<1>4. ours' \subseteq DOMAIN data' /\ table' \in 0..Len(snapshots')
  BY <1>1, <1>3 DEF Extends
<1>5. ASSUME NEW n \in DOMAIN snapshots'
      PROVE  IsSound(data', deletes', UNION snapshots'[n], live'[n]) /\ OwnersAreSound(ours', UNION snapshots'[n])
  <2>1. CASE n = k
    BY <1>3, <2>1
  <2>2. CASE n \in DOMAIN snapshots
    <3>1. IsSound(data, deletes, UNION snapshots[n], live[n]) /\ OwnersAreSound(ours, UNION snapshots[n])
      BY <2>2 DEF TablesAreSound, Raw
    <3> QED BY <1>3, <2>2, <3>1, SoundStays
  <2> QED BY <1>3, <2>1, <2>2
<1> QED BY <1>3, <1>4, <1>5 DEF TablesAreSound, Raw

(* What other engines commit leaves a scan what it was.                      *)
LEMMA ScanStays ==
  ASSUME ScanIInv, UNCHANGED <<ours, table, scan>>, Extends(data, deletes, data', deletes'),
         \A n \in DOMAIN snapshots : snapshots'[n] = snapshots[n] /\ live'[n] = live[n]
  PROVE  ScanIsSound' /\ (ScanShows => ScanShows')
<1>1. CASE scan.at = "idle"
  BY <1>1 DEF ScanIInv, ScanIsSound, ScanShows
<1>2. CASE scan.at # "idle"
  <2> DEFINE n == scan.snapshot
  <2>1. n \in DOMAIN snapshots /\ IsSound(data, deletes, Raw(n), live[n])
    BY <1>2 DEF ScanIInv, ScanIsSound, TablesAreSound
  <2>2. Raw(n)' = Raw(n) /\ live'[n] = live[n] /\ scan' = scan
    BY <2>1 DEF Raw
  <2> HIDE DEF n
  <2>3. ScanHyd' = ScanHyd
    <3>1. Hyd(data', deletes', Raw(n)) = Hyd(data, deletes, Raw(n))
      BY <2>1, TiedStays DEF IsSound
    <3> QED BY <2>2, <3>1 DEF ScanHyd, n
  <2>4. ASSUME NEW h \in ScanHyd
        PROVE  h.id \in DOMAIN data /\ h.deletes \subseteq DOMAIN deletes /\ data'[h.id] = data[h.id]
    <3>1. IsSound(data, deletes, Hyd(data, deletes, Raw(n)), live[n]) /\ \A x \in Hyd(data, deletes, Raw(n)) : IsData(x)
      BY <2>1, HydIsSound DEF ScanIInv, TablesAreSound
    <3> QED BY <2>4, <3>1 DEF ScanHyd, n, IsSound, EntriesAreSound, IsData, Extends
  <2>5. \A d \in DOMAIN deletes : deletes'[d] = deletes[d] /\ d \in DOMAIN deletes' /\ (IsSupported(d)' <=> IsSupported(d))
    BY DEF Extends, IsSupported
  <2>6. ASSUME FilesArePlanned PROVE FilesArePlanned'
    <3> SUFFICES ASSUME NEW x \in scan.files
                 PROVE  \E h \in ScanHyd : x = Planned(scan.mode, h)' /\ (scan.mode = "strict" => \A d \in h.deletes : IsSupported(d)')
      BY <2>2, <2>3 DEF FilesArePlanned
    <3>1. PICK h \in ScanHyd : x = Planned(scan.mode, h) /\ (scan.mode = "strict" => \A d \in h.deletes : IsSupported(d))
      BY <2>6 DEF FilesArePlanned
    <3>2. Planned(scan.mode, h)' = Planned(scan.mode, h)
      BY <2>2, <2>4, <2>5 DEF Planned, PlannedDeletes
    <3> QED BY <2>4, <2>5, <3>1, <3>2
  <2>7. ASSUME NEW row \in live[n], Accounted(row) PROVE Accounted(row)'
    <3>1. row[1] \in DOMAIN data
      BY <2>1 DEF IsSound, RowsAreSound
    <3>2. KeyOf(row)' = KeyOf(row) /\ PartitionOf(row)' = PartitionOf(row)
      BY <3>1 DEF KeyOf, PartitionOf, Extends
    <3>3. IsDeletedByKey(row) => IsDeletedByKey(row)'
      BY <2>5, <3>2 DEF IsDeletedByKey
    <3> QED BY <2>2, <2>7, <3>3 DEF Accounted
  <2>8. ASSUME ReadRowsAreAccounted PROVE ReadRowsAreAccounted'
    <3>1. File' = File
      BY <2>2 DEF File, OpenFile
    <3> QED BY <2>2, <2>7, <2>8, <3>1 DEF ReadRowsAreAccounted, n
  <2>9. ASSUME FilesReadAreAccounted PROVE FilesReadAreAccounted'
    <3> SUFFICES ASSUME NEW h \in ScanHyd, PartitionMayMatch(scan.where, h.id)', \A x \in scan.files : x.file # h.id,
                        NEW row \in Rows(data, h.id), row \in live[n]
                 PROVE  Accounted(row)'
      BY <2>2, <2>3, <2>4 DEF FilesReadAreAccounted, Rows, n
    <3>1. PartitionMayMatch(scan.where, h.id)
      BY <2>4 DEF PartitionMayMatch
    <3> QED BY <2>7, <2>9, <3>1 DEF FilesReadAreAccounted, n
  <2>10. ScanIsSound'
    BY <2>2, <2>6, <2>8, <2>9 DEF ScanIInv, ScanIsSound
  <2>11. ASSUME ScanShows PROVE ScanShows'
    BY <1>2, <2>2, <2>5, <2>11 DEF ScanShows, ShownAreHidden, n
  <2> QED BY <2>10, <2>11
<1> QED BY <1>1, <1>2

LEMMA CommitKept ==
  ASSUME ScanIInv, NEW ms, NEW rows, CommitSnapshot(ms, rows),
         Extends(data, deletes, data', deletes'), FilesAreSound(data', deletes'), UNCHANGED <<ours, table, scan>>,
         ms \in SUBSET SUBSET Entry, rows \subseteq Nat \X Nat, ours = {}, \A e \in UNION ms : e.deletes = {},
         IsSound(data', deletes', UNION ms, rows)
  PROVE  ScanIInv' /\ (ScanShows => ScanShows')
<1>1. OwnersAreSound(ours, UNION ms)
  BY DEF OwnersAreSound
<1>2. TablesAreSound' /\ \A n \in DOMAIN snapshots : snapshots'[n] = snapshots[n] /\ live'[n] = live[n]
  BY <1>1, CommitIsSound DEF ScanIInv
<1> QED BY <1>2, ScanStays DEF ScanIInv

(* The last snapshot, while the reader has not appended.                     *)
LEMMA LastOfOthers ==
  ASSUME ScanIInv, ~IsOurs
  PROVE  /\ FilesAreSound(data, deletes) /\ IsSound(data, deletes, UNION LastManifests, LastLive)
         /\ ours = {} /\ \A e \in UNION LastManifests : e.deletes = {} /\ e \in Entry
         /\ LastManifests \in SUBSET SUBSET Entry /\ LastLive \subseteq Nat \X Nat
  BY LastIsSound DEF ScanIInv, IsOurs, OwnersAreSound, TablesAreSound

LEMMA EngineAppendStep ==
  ASSUME ScanIInv, NEW f, NEW partition \in Partitions, NEW rows \in Contents, EngineAppend(f, partition, rows)
  PROVE  ScanIInv' /\ (ScanShows => ScanShows')
<1> DEFINE file == [partition |-> partition, rows |-> rows]
           ms == LastManifests \cup {{DataEntry(f)}}
           after == LastLive \cup NewRows(f, rows)
<1>1. /\ ~IsOurs /\ f = Len(data) + 1 /\ data' = Append(data, file) /\ deletes' = deletes
      /\ CommitSnapshot(ms, after) /\ UNCHANGED <<ours, table, scan>>
  BY DEF EngineAppend, AddsFile
<1>2. file \in DataFile /\ rows \in Seq(Nat)
  BY ContentsAssumption DEF DataFile
<1>3. /\ Extends(data, deletes, data', deletes) /\ FilesAreSound(data', deletes)
      /\ IsSound(data', deletes, (UNION LastManifests) \cup {DataEntry(f)}, LastLive \cup Rows(data', f))
      /\ f \in Nat /\ DataEntry(f) \in Entry
  <2>1. FilesAreSound(data, deletes) /\ IsSound(data, deletes, UNION LastManifests, LastLive)
    BY <1>1, LastOfOthers
  <2> HIDE DEF file
  <2> QED BY <1>1, <1>2, <2>1, FileAdded
<1>4. Rows(data', f) = NewRows(f, rows)
  <2>1. data'[f] = file
    BY <1>1 DEF ScanIInv, TablesAreSound, FilesAreSound
  <2> QED BY <2>1 DEF Rows, NewRows
<1>5. UNION ms = (UNION LastManifests) \cup {DataEntry(f)}
  OBVIOUS
<1>6. ms \in SUBSET SUBSET Entry /\ \A e \in UNION ms : e.deletes = {}
  <2>1. DataEntry(f).deletes = {}
    BY DEF DataEntry
  <2> QED BY <1>1, <1>3, <1>5, <2>1, LastOfOthers
<1>7. after \subseteq Nat \X Nat
  <2>1. NewRows(f, rows) \subseteq Nat \X Nat
    BY <1>2, <1>3 DEF NewRows
  <2> QED BY <1>1, <2>1, LastOfOthers
<1>8. IsSound(data', deletes', UNION ms, after) /\ ours = {}
  BY <1>1, <1>3, <1>4, <1>5, LastOfOthers
<1> HIDE DEF ms, after
<1> QED BY <1>1, <1>3, <1>6, <1>7, <1>8, CommitKept

LEMMA EngineDeletesStep ==
  ASSUME ScanIInv, NEW del \in DeleteFile, NEW gone, ~IsOurs, del.kind # "equality-delete" => del.keys = {},
         gone \subseteq LastLive, del.rows \subseteq gone,
         \A row \in gone : PartitionOf(row) = del.partition /\ (row \in del.rows \/ KeyOf(row) \in del.keys),
         deletes' = Append(deletes, del), UNCHANGED <<data, ours, table, scan>>,
         CommitSnapshot(LastManifests \cup {{DeleteEntry(Len(deletes) + 1)}}, LastLive \ gone)
  PROVE  ScanIInv' /\ (ScanShows => ScanShows')
<1> DEFINE entry == DeleteEntry(Len(deletes) + 1)
           ms == LastManifests \cup {{entry}}
           after == LastLive \ gone
<1>1. /\ Extends(data, deletes, data, deletes') /\ FilesAreSound(data, deletes')
      /\ IsSound(data, deletes', (UNION LastManifests) \cup {entry}, after) /\ entry \in Entry
  BY LastOfOthers, DeleteAdded DEF PartitionOf, KeyOf, Key
<1>2. UNION ms = (UNION LastManifests) \cup {entry}
  OBVIOUS
<1>3. entry.deletes = {}
  BY DEF DeleteEntry
<1>4. ms \in SUBSET SUBSET Entry /\ (\A e \in UNION ms : e.deletes = {}) /\ after \subseteq Nat \X Nat
  <2> HIDE DEF entry
  <2> QED BY <1>1, <1>2, <1>3, LastOfOthers
<1>5. IsSound(data', deletes', UNION ms, after) /\ ours = {}
  BY <1>1, <1>2, LastOfOthers
<1>6. CommitSnapshot(ms, after)
  OBVIOUS
<1> HIDE DEF ms, after
<1> QED BY <1>1, <1>4, <1>5, <1>6, CommitKept

LEMMA EngineDeleteRowsStep ==
  ASSUME ScanIInv, NEW kind \in {"position-delete", "deletion-vector"}, NEW rows, EngineDeleteRows(kind, rows)
  PROVE  ScanIInv' /\ (ScanShows => ScanShows')
<1> DEFINE of == PartitionOf(CHOOSE row \in rows : TRUE)
           del == [kind |-> kind, partition |-> of, rows |-> rows, keys |-> {}]
<1>1. /\ ~IsOurs /\ rows # {} /\ rows \subseteq LastLive /\ Cardinality({row[1] : row \in rows}) = 1
      /\ deletes' = Append(deletes, del) /\ UNCHANGED <<data, ours, table, scan>>
      /\ CommitSnapshot(LastManifests \cup {{DeleteEntry(Len(deletes) + 1)}}, LastLive \ rows)
  BY DEF EngineDeleteRows
<1>2. rows \subseteq Nat \X Nat /\ \A row \in rows : row[1] \in DOMAIN data
  BY <1>1, LastOfOthers DEF IsSound, RowsAreSound
<1>a. data \in Seq(DataFile)
  BY DEF ScanIInv, TablesAreSound, FilesAreSound
<1>3. \A row \in rows : PartitionOf(row) = of
  <2>1. IsFiniteSet(1..Len(data)) /\ DOMAIN data = 1..Len(data)
    BY <1>a, FS_Interval
  <2>2. IsFiniteSet({row[1] : row \in rows})
    <3>1. {row[1] : row \in rows} \subseteq 1..Len(data)
      BY <1>2, <2>1
    <3> QED BY <2>1, <3>1, FS_Subset
  <2>3. PICK f : {row[1] : row \in rows} = {f}
    BY <1>1, <2>2, FS_Singleton
  <2>4. \A row \in rows : row[1] = f
    BY <2>3
  <2> QED BY <1>1, <2>4 DEF PartitionOf
<1>4. of \in Partitions
  <2>1. PICK row \in rows : TRUE
    BY <1>1
  <2>2. row[1] \in DOMAIN data
    BY <1>2, <2>1
  <2>3. data[row[1]] \in DataFile
    BY <1>a, <2>2
  <2>4. data[row[1]].partition \in Partitions
    BY <2>3 DEF DataFile
  <2> QED BY <1>3, <2>1, <2>4 DEF PartitionOf
<1> HIDE DEF of
<1>5. del \in DeleteFile /\ del.kind # "equality-delete" /\ del.keys = {} /\ del.rows = rows /\ del.partition = of
  BY <1>2, <1>4 DEF DeleteFile, DeleteKinds
<1> HIDE DEF del
<1> QED BY <1>1, <1>3, <1>5, EngineDeletesStep

LEMMA EqualityDeleteType ==
  ASSUME NEW keys \in SUBSET Nat, NEW partition \in Partitions
  PROVE  /\ EqualityDelete(keys, partition) \in DeleteFile /\ EqualityDelete(keys, partition).kind = "equality-delete"
         /\ EqualityDelete(keys, partition).keys = keys /\ EqualityDelete(keys, partition).rows = {}
         /\ EqualityDelete(keys, partition).partition = partition
BY DEF EqualityDelete, DeleteFile, DeleteKinds

LEMMA EngineDeleteKeyStep ==
  ASSUME ScanIInv, NEW key \in Nat, NEW partition \in Partitions, EngineDeleteKey(key, partition)
  PROVE  ScanIInv' /\ (ScanShows => ScanShows')
<1>1. /\ ~IsOurs /\ deletes' = Append(deletes, EqualityDelete({key}, partition)) /\ UNCHANGED <<data, ours, table, scan>>
      /\ CommitSnapshot(LastManifests \cup {{DeleteEntry(Len(deletes) + 1)}}, LastLive \ RowsWith({key}, partition))
  BY DEF EngineDeleteKey
<1>2. /\ RowsWith({key}, partition) \subseteq LastLive
      /\ \A row \in RowsWith({key}, partition) : PartitionOf(row) = partition /\ KeyOf(row) \in {key}
  BY DEF RowsWith
<1>3. {key} \in SUBSET Nat
  OBVIOUS
<1> DEFINE del == EqualityDelete({key}, partition)
<1>4. del \in DeleteFile /\ del.kind = "equality-delete" /\ del.keys = {key} /\ del.rows = {} /\ del.partition = partition
  BY <1>3, EqualityDeleteType
<1>5. deletes' = Append(deletes, del)
  BY <1>1
<1> HIDE DEF del
<1> QED BY <1>1, <1>2, <1>4, <1>5, EngineDeletesStep

LEMMA EngineUpsertStep ==
  ASSUME ScanIInv, NEW f, NEW partition \in Partitions, NEW rows \in Contents, EngineUpsert(f, partition, rows)
  PROVE  ScanIInv' /\ (ScanShows => ScanShows')
<1> DEFINE file == [partition |-> partition, rows |-> rows]
           keys == Range(rows)
           del == EqualityDelete(keys, partition)
           gone == RowsWith(keys, partition)
           entry == DeleteEntry(Len(deletes) + 1)
           ms == LastManifests \cup {{DataEntry(f)}, {entry}}
           after == (LastLive \ gone) \cup NewRows(f, rows)
<1>1. /\ ~IsOurs /\ f = Len(data) + 1 /\ data' = Append(data, file) /\ deletes' = Append(deletes, del)
      /\ CommitSnapshot(ms, after) /\ UNCHANGED <<ours, table, scan>>
  BY DEF EngineUpsert, AddsFile
<1>2. rows \in Seq(Nat) /\ file \in DataFile /\ keys \in SUBSET Nat
  <2>1. rows \in Seq(Nat)
    BY ContentsAssumption
  <2> QED BY <2>1 DEF DataFile, Range
<1>3. /\ gone \subseteq LastLive
      /\ \A row \in gone : data[row[1]].partition = partition /\ Key(data, row) \in keys
  BY DEF RowsWith, PartitionOf, KeyOf, Key
<1>4. /\ del \in DeleteFile /\ del.kind = "equality-delete" /\ del.keys = keys /\ del.rows = {} /\ del.partition = partition
  <2> HIDE DEF keys
  <2> QED BY <1>2, EqualityDeleteType
<1>5. FilesAreSound(data, deletes) /\ IsSound(data, deletes, UNION LastManifests, LastLive)
  BY <1>1, LastOfOthers
<1> HIDE DEF file, keys, del, gone
<1>6. /\ Extends(data, deletes, data, deletes') /\ FilesAreSound(data, deletes')
      /\ IsSound(data, deletes', (UNION LastManifests) \cup {entry}, LastLive \ gone) /\ entry \in Entry
  BY <1>1, <1>3, <1>4, <1>5, DeleteAdded
<1> HIDE DEF entry
<1>7. /\ Extends(data, deletes', data', deletes') /\ FilesAreSound(data', deletes')
      /\ IsSound(data', deletes', ((UNION LastManifests) \cup {entry}) \cup {DataEntry(f)}, (LastLive \ gone) \cup Rows(data', f))
      /\ f \in Nat /\ DataEntry(f) \in Entry
  BY <1>1, <1>2, <1>6, FileAdded
<1>8. Rows(data', f) = NewRows(f, rows)
  <2>1. data'[f] = file
    BY <1>1, <1>2, <1>5 DEF FilesAreSound
  <2> QED BY <2>1 DEF Rows, NewRows, file
<1>9. UNION ms = ((UNION LastManifests) \cup {entry}) \cup {DataEntry(f)}
  OBVIOUS
<1>10. Extends(data, deletes, data', deletes')
  BY <1>6, <1>7 DEF Extends
<1>11. ms \in SUBSET SUBSET Entry /\ \A e \in UNION ms : e.deletes = {}
  <2>1. DataEntry(f).deletes = {} /\ entry.deletes = {}
    BY DEF DataEntry, DeleteEntry, entry
  <2> QED BY <1>1, <1>6, <1>7, <1>9, <2>1, LastOfOthers
<1>12. after \subseteq Nat \X Nat
  <2>1. NewRows(f, rows) \subseteq Nat \X Nat
    BY <1>2, <1>7 DEF NewRows
  <2> QED BY <1>1, <2>1, LastOfOthers
<1>13. IsSound(data', deletes', UNION ms, after) /\ ours = {}
  BY <1>1, <1>7, <1>8, <1>9, LastOfOthers
<1> HIDE DEF ms, after
<1> QED BY <1>1, <1>7, <1>10, <1>11, <1>12, <1>13, CommitKept

LEMMA EngineCompactStep ==
  ASSUME ScanIInv, NEW f \in DOMAIN data, NEW g, EngineCompact(f, g)
  PROVE  ScanIInv' /\ (ScanShows => ScanShows')
<1> DEFINE left == RowsOf(f) \cap LastLive
           mark(e) == Marked(data, deletes, f, e)
           raw == UNION LastManifests
           marked == {mark(e) : e \in raw}
           ms == {{mark(e) : e \in m} : m \in LastManifests} \cup {{DataEntry(g)}}
<1>1. PICK kept \in SetToSeqs(left) :
        LET file == [partition |-> data[f].partition, rows |-> [i \in DOMAIN kept |-> KeyOf(kept[i])]] IN
        /\ ~IsOurs /\ g = Len(data) + 1 /\ data' = Append(data, file)
        /\ CommitSnapshot(ms, (LastLive \ RowsOf(f)) \cup NewRows(g, kept))
        /\ UNCHANGED <<deletes, ours, table, scan>>
  <2> DEFINE IsGone(e) == \/ e.content = "data" /\ e.id = f
                          \/ e.content = "delete" /\ deletes[e.id].kind # "equality-delete" /\ deletes[e.id].rows \subseteq RowsOf(f)
             again(e) == [e EXCEPT !.status = IF IsGone(e) THEN "deleted" ELSE @]
  <2>1. \A e : mark(e) = again(e)
    BY Reads DEF Marked, TakenOut
  <2>2. {{mark(e) : e \in m} : m \in LastManifests} = {{again(e) : e \in m} : m \in LastManifests}
    <3> HIDE DEF mark, again
    <3> QED BY <2>1
  <2>3. PICK kept \in SetToSeqs(left) :
          LET file == [partition |-> data[f].partition, rows |-> [i \in DOMAIN kept |-> KeyOf(kept[i])]] IN
          /\ ~IsOurs /\ g = Len(data) + 1 /\ data' = Append(data, file)
          /\ CommitSnapshot({{again(e) : e \in m} : m \in LastManifests} \cup {{DataEntry(g)}},
                            (LastLive \ RowsOf(f)) \cup NewRows(g, kept))
          /\ UNCHANGED <<deletes, ours, table, scan>>
    BY DEF EngineCompact, AddsFile
  <2> HIDE DEF mark, again
  <2> QED BY <2>2, <2>3
<1> DEFINE file == [partition |-> data[f].partition, rows |-> [i \in DOMAIN kept |-> KeyOf(kept[i])]]
           after == (LastLive \ RowsOf(f)) \cup NewRows(g, kept)
<1>2. FilesAreSound(data, deletes) /\ IsSound(data, deletes, raw, LastLive) /\ \A e \in raw : e.deletes = {}
  BY <1>1, LastOfOthers
<1>3. data[f] \in DataFile /\ data[f].rows \in Seq(Nat) /\ data[f].partition \in Partitions
  <2>1. data \in Seq(DataFile)
    BY <1>2 DEF FilesAreSound
  <2>2. data[f] \in DataFile
    BY <2>1
  <2> QED BY <2>2 DEF DataFile
<1>4. kept \in [1..Cardinality(left) -> left] /\ Cardinality(left) \in Nat
  <2>1. IsFiniteSet(RowsOf(f))
    <3>1. IsFiniteSet(0..(Len(data[f].rows) - 1))
      BY <1>3, FS_Interval
    <3>2. RowsOf(f) = {<<f, i>> : i \in 0..(Len(data[f].rows) - 1)}
      BY DEF RowsOf
    <3> DEFINE at == [i \in 0..(Len(data[f].rows) - 1) |-> <<f, i>>]
    <3>3. at \in Surjection(0..(Len(data[f].rows) - 1), RowsOf(f))
      BY <3>2 DEF Surjection
    <3> QED BY <3>1, <3>3, FS_Surjection
  <2>2. IsFiniteSet(left) /\ Cardinality(left) \in Nat
    BY <2>1, FS_Subset, FS_CardinalityType
  <2> QED BY <2>2 DEF SetToSeqs
<1>5. file \in DataFile /\ Len(file.rows) = Len(kept) /\ Len(kept) \in Nat
  <2>1. \A row \in left : KeyOf(row) \in Nat
    BY <1>3 DEF RowsOf, KeyOf
  <2> HIDE DEF left
  <2>2. [i \in DOMAIN kept |-> KeyOf(kept[i])] \in [1..Cardinality(left) -> Nat]
    BY <1>4, <2>1
  <2>3. /\ [i \in DOMAIN kept |-> KeyOf(kept[i])] \in Seq(Nat) /\ Len(kept) = Cardinality(left)
        /\ Len([i \in DOMAIN kept |-> KeyOf(kept[i])]) = Cardinality(left)
    BY <1>4, <2>2
  <2> QED BY <1>3, <1>4, <2>3 DEF DataFile
<1>6. IsSound(data, deletes, marked, LastLive \ Rows(data, f)) /\ \A e \in raw : mark(e) \in Entry /\ mark(e).deletes = {}
  BY <1>2, FileTakenOut
<1> HIDE DEF mark, marked, raw, file
<1>7. /\ Extends(data, deletes, data', deletes) /\ FilesAreSound(data', deletes)
      /\ IsSound(data', deletes, marked \cup {DataEntry(g)}, (LastLive \ Rows(data, f)) \cup Rows(data', g))
      /\ g \in Nat /\ DataEntry(g) \in Entry
  <2>1. g = Len(data) + 1 /\ data' = Append(data, file)
    BY <1>1 DEF file
  <2> QED BY <1>2, <1>5, <1>6, <2>1, FileAdded
<1>8. Rows(data', g) = NewRows(g, kept)
  <2>1. data'[g] = file
    BY <1>1, <1>5, <1>2 DEF FilesAreSound, file
  <2> QED BY <1>5, <2>1 DEF Rows, NewRows
<1>9. UNION ms = marked \cup {DataEntry(g)}
  <2>1. UNION {{mark(e) : e \in m} : m \in LastManifests} = marked
    BY DEF marked, raw
  <2> QED BY <2>1
<1>10. ms \in SUBSET SUBSET Entry /\ \A e \in UNION ms : e.deletes = {}
  <2>1. DataEntry(g).deletes = {}
    BY DEF DataEntry
  <2>2. \A e \in marked : e \in Entry /\ e.deletes = {}
    BY <1>6 DEF marked
  <2> QED BY <1>7, <1>9, <2>1, <2>2
<1>11. after \subseteq Nat \X Nat
  <2>1. NewRows(g, kept) \subseteq Nat \X Nat
    BY <1>5, <1>7 DEF NewRows
  <2> QED BY <1>1, <2>1, LastOfOthers
<1>12. IsSound(data', deletes', UNION ms, after) /\ ours = {}
  BY <1>1, <1>7, <1>8, <1>9, LastOfOthers, Reads
<1>13. CommitSnapshot(ms, after) /\ UNCHANGED <<deletes, ours, table, scan>>
  BY <1>1
<1> HIDE DEF ms, after
<1> QED BY <1>7, <1>10, <1>11, <1>12, <1>13, CommitKept

(* What the reader loads of a snapshot.                                     *)
LEMMA LoadedIsSound ==
  ASSUME ScanIInv, NEW n \in DOMAIN snapshots
  PROVE  /\ UNION Hydrated(n) = Hyd(data, deletes, Raw(n)) /\ Hydrated(n) \in SUBSET SUBSET Entry
         /\ FilesAreSound(data, deletes) /\ IsSound(data, deletes, Raw(n), live[n]) /\ OwnersAreSound(ours, Raw(n))
         /\ IsSound(data, deletes, Hyd(data, deletes, Raw(n)), live[n])
         /\ Active(Hyd(data, deletes, Raw(n))) = {}
         /\ \A h \in Hyd(data, deletes, Raw(n)) :
              /\ IsData(h) /\ h \in Entry /\ h.id \in DOMAIN data /\ h.deletes \subseteq DOMAIN deletes
              /\ h.id \in ours => h.deletes = {}
<1> DEFINE raw == Raw(n)
           hyd == Hyd(data, deletes, raw)
<1>1. FilesAreSound(data, deletes) /\ IsSound(data, deletes, raw, live[n]) /\ OwnersAreSound(ours, raw)
  BY DEF ScanIInv, TablesAreSound
<1>2. UNION Hydrated(n) = hyd
  BY HydratedIsHyd
<1> HIDE DEF raw, hyd
<1>3. IsSound(data, deletes, hyd, live[n]) /\ Active(hyd) = {} /\ \A h \in hyd : IsData(h) /\ h \in Entry
  BY <1>1, HydIsSound DEF hyd
<1>4. Hydrated(n) \in SUBSET SUBSET Entry
  BY <1>2, <1>3
<1>5. ASSUME NEW h \in hyd, h.id \in ours PROVE h.deletes = {}
  <2>1. PICK e \in raw : IsData(e) /\ h = Tie(data, deletes, raw, e)
    BY DEF hyd, Hyd
  <2>2. e \in Entry
    BY <1>1 DEF IsSound, EntriesAreSound
  <2>3. h.id = e.id /\ h.deletes = Tied(data, deletes, raw, e)
    BY <2>1, <2>2, TieFields
  <2> QED BY <1>1, <1>5, <2>1, <2>3 DEF OwnersAreSound, Tied
<1>6. \A h \in hyd : h.id \in DOMAIN data /\ h.deletes \subseteq DOMAIN deletes
  BY <1>3 DEF IsSound, EntriesAreSound, IsData
<1> QED BY <1>1, <1>2, <1>3, <1>4, <1>5, <1>6 DEF raw, hyd

(* An append of the reader's own writes every snapshot back as it was loaded.  *)
LEMMA AppendOwnFileStep ==
  ASSUME ScanIInv, NEW f, NEW partition \in Partitions, NEW rows \in Contents, AppendOwnFile(f, partition, rows)
  PROVE  ScanIInv' /\ (ScanShows => ScanShows')
<1> DEFINE file == [partition |-> partition, rows |-> rows]
           k == Len(snapshots) + 1
           hyd(n) == Hyd(data, deletes, Raw(n))
           ms == Hydrated(table) \cup {{DataEntry(f)}}
           after == LastLive \cup NewRows(f, rows)
<1>1. /\ scan.at = "idle" /\ table = Len(snapshots) /\ table \in DOMAIN snapshots /\ UNCHANGED <<deletes, scan>>
      /\ f = Len(data) + 1 /\ data' = Append(data, file) /\ ours' = ours \cup {f} /\ table' = Len(snapshots')
      /\ snapshots' = Append([n \in DOMAIN snapshots |-> Hydrated(n)], ms) /\ live' = Append(live, after)
  <2>1. snapshots \in Seq(SUBSET SUBSET Entry)
    BY DEF ScanIInv, TablesAreSound
  <2> QED BY <2>1 DEF AppendOwnFile, AddsFile, NextManifests
<1>2. /\ snapshots \in Seq(SUBSET SUBSET Entry) /\ live \in Seq(SUBSET (Nat \X Nat)) /\ Len(live) = Len(snapshots)
      /\ ours \subseteq DOMAIN data /\ Len(snapshots) \in Nat /\ FilesAreSound(data, deletes)
  BY DEF ScanIInv, TablesAreSound
<1>3. LastLive = live[table]
  BY <1>1, <1>2 DEF LastLive, Last
<1>4. rows \in Seq(Nat) /\ file \in DataFile
  BY ContentsAssumption DEF DataFile
<1> HIDE DEF file, hyd
<1>5. /\ Extends(data, deletes, data', deletes') /\ FilesAreSound(data', deletes') /\ f \in Nat /\ f \notin DOMAIN data
      /\ IsSound(data', deletes', hyd(table) \cup {DataEntry(f)}, live[table] \cup Rows(data', f)) /\ DataEntry(f) \in Entry
  <2>1. IsSound(data, deletes, hyd(table), live[table])
    BY <1>1, LoadedIsSound DEF hyd
  <2> QED BY <1>1, <1>2, <1>4, <2>1, FileAdded
<1>6. Rows(data', f) = NewRows(f, rows)
  <2>1. data'[f] = file
    BY <1>1, <1>2, <1>4 DEF FilesAreSound
  <2> QED BY <2>1 DEF Rows, NewRows, file
<1>7. UNION ms = hyd(table) \cup {DataEntry(f)}
  <2>1. UNION Hydrated(table) = hyd(table)
    BY <1>1, LoadedIsSound DEF hyd
  <2> QED BY <2>1
<1>8. ms \in SUBSET SUBSET Entry
  BY <1>1, <1>5, LoadedIsSound
<1>9. after \in SUBSET (Nat \X Nat)
  <2>1. NewRows(f, rows) \subseteq Nat \X Nat
    BY <1>4, <1>5 DEF NewRows
  <2>2. live[table] \in SUBSET (Nat \X Nat)
    BY <1>1, <1>2
  <2> QED BY <1>3, <2>1, <2>2
<1>10. IsSound(data', deletes', UNION ms, after)
  BY <1>3, <1>5, <1>6, <1>7
<1>11. OwnersAreSound(ours', UNION ms)
  <2>1. DataEntry(f).deletes = {} /\ DataEntry(f).content = "data" /\ DataEntry(f).id = f
    BY DEF DataEntry
  <2>2. Active(hyd(table)) = {} /\ \A h \in hyd(table) : h.id \in DOMAIN data /\ (h.id \in ours => h.deletes = {})
    BY <1>1, LoadedIsSound DEF hyd
  <2>3. Active(UNION ms) = {}
    BY <1>7, <2>1, <2>2 DEF Active
  <2> QED BY <1>1, <1>5, <1>7, <2>1, <2>2, <2>3 DEF OwnersAreSound
<1> HIDE DEF ms, after
<1>12. /\ snapshots' \in Seq(SUBSET SUBSET Entry) /\ live' \in Seq(SUBSET (Nat \X Nat)) /\ Len(live') = Len(snapshots')
       /\ DOMAIN snapshots' = DOMAIN snapshots \cup {k} /\ k \notin DOMAIN snapshots /\ Len(snapshots') = k
       /\ snapshots'[k] = ms /\ live'[k] = after /\ k \in Nat
       /\ \A n \in DOMAIN snapshots : snapshots'[n] = Hydrated(n) /\ live'[n] = live[n]
  <2> DEFINE loaded == [n \in DOMAIN snapshots |-> Hydrated(n)]
  <2>1. \A n \in DOMAIN snapshots : Hydrated(n) \in SUBSET SUBSET Entry
    BY LoadedIsSound
  <2>2. /\ loaded \in Seq(SUBSET SUBSET Entry) /\ Len(loaded) = Len(snapshots) /\ DOMAIN loaded = DOMAIN snapshots
        /\ \A n \in DOMAIN snapshots : loaded[n] = Hydrated(n)
    BY <1>2, <2>1
  <2>3. snapshots' = Append(loaded, ms) /\ live' = Append(live, after)
    BY <1>1
  <2> HIDE DEF loaded
  <2> QED BY <1>2, <1>8, <1>9, <2>2, <2>3
<1> HIDE DEF k
<1>13. ASSUME NEW n \in DOMAIN snapshots'
       PROVE  IsSound(data', deletes', UNION snapshots'[n], live'[n]) /\ OwnersAreSound(ours', UNION snapshots'[n])
  <2>1. CASE n = k
    BY <1>10, <1>11, <1>12, <2>1
  <2>2. CASE n \in DOMAIN snapshots
    <3>1. /\ UNION snapshots'[n] = hyd(n) /\ IsSound(data, deletes, hyd(n), live[n]) /\ Active(hyd(n)) = {}
          /\ \A h \in hyd(n) : h.id \in DOMAIN data /\ (h.id \in ours => h.deletes = {})
      BY <1>12, <2>2, LoadedIsSound DEF hyd
    <3>2. IsSound(data', deletes', hyd(n), live'[n])
      BY <1>5, <1>12, <2>2, <3>1, SoundStays
    <3>3. OwnersAreSound(ours', hyd(n))
      BY <1>1, <1>5, <3>1 DEF OwnersAreSound
    <3> QED BY <3>1, <3>2, <3>3
  <2> QED BY <1>12, <2>1, <2>2
<1>14. ours' \subseteq DOMAIN data' /\ table' \in 0..Len(snapshots')
  <2>1. DOMAIN data' = DOMAIN data \cup {f}
    BY <1>1, <1>2, <1>4 DEF FilesAreSound
  <2> QED BY <1>1, <1>2, <1>12, <2>1
<1>15. TablesAreSound'
  BY <1>5, <1>12, <1>13, <1>14 DEF TablesAreSound, Raw
<1> QED BY <1>1, <1>15 DEF ScanIInv, ScanIsSound, ScanShows

-----------------------------------------------------------------------------
(* The scan.                                                               *)
LEMMA LoadStep ==
  ASSUME ScanIInv, Load
  PROVE  ScanIInv' /\ (ScanShows => ScanShows')
<1>1. scan.at = "idle" /\ table' = Len(snapshots) /\ UNCHANGED <<tableVars, scan>>
  BY DEF Load
<1>2. TablesAreSound'
  <2>1. Len(snapshots) \in 0..Len(snapshots)
    BY DEF ScanIInv, TablesAreSound
  <2> QED BY <1>1, <2>1 DEF ScanIInv, TablesAreSound, tableVars, Raw
<1> QED BY <1>1, <1>2 DEF ScanIInv, ScanIsSound, ScanShows

LEMMA TablesStay ==
  ASSUME ScanIInv, UNCHANGED <<tableVars, table>>
  PROVE  /\ TablesAreSound'
         /\ data' = data /\ deletes' = deletes /\ live' = live /\ ours' = ours /\ table' = table
         /\ \A n : Raw(n)' = Raw(n)
         /\ \A row : IsDeletedByKey(row)' <=> IsDeletedByKey(row)
         /\ \A mode, h : Planned(mode, h)' = Planned(mode, h)
         /\ \A where, f : PartitionMayMatch(where, f)' <=> PartitionMayMatch(where, f)
         /\ \A d : IsSupported(d)' <=> IsSupported(d)
<1>1. data' = data /\ deletes' = deletes /\ snapshots' = snapshots /\ live' = live /\ ours' = ours /\ table' = table
  BY DEF tableVars
<1>2. TablesAreSound'
  BY <1>1 DEF ScanIInv, TablesAreSound, Raw
<1> QED BY <1>1, <1>2 DEF Raw, IsDeletedByKey, KeyOf, PartitionOf, Planned, PlannedDeletes, PartitionMayMatch, IsSupported

LEMMA OpenFileIsLeft ==
  ASSUME scan \in ScanState, scan.files # {}
  PROVE  OpenFile \in scan.files /\ File = OpenFile.file /\ File \in Nat
<1> DEFINE ids == {x.file : x \in scan.files}
<1>1. \A x \in scan.files : x.file \in Nat
  BY DEF ScanState
<1>2. ids \subseteq Nat /\ ids # {}
  BY <1>1
<1> HIDE DEF ids
<1>3. PICK least \in ids : \A m \in ids : least <= m
  BY <1>2, LeastNatural
<1>4. \E x \in scan.files : \A y \in scan.files : x.file <= y.file
  BY <1>3 DEF ids
<1>5. OpenFile \in scan.files
  BY <1>4 DEF OpenFile
<1> QED BY <1>1, <1>5 DEF File

LEMMA PlanStep ==
  ASSUME ScanIInv, NEW n \in 1..table, NEW mode \in Modes, NEW where \in Wheres, Plan(n, mode, where)
  PROVE  ScanIInv' /\ (ScanShows => ScanShows')
<1> DEFINE entries == {e \in UNION Hydrated(n) : PartitionMayMatch(where, e.id)}
           started(at, left) == [at |-> at, snapshot |-> n, mode |-> mode, where |-> where, files |-> left,
                                  offset |-> 0, shown |-> {}, pruned |-> {}]
           planned == {Planned(mode, e) : e \in entries}
<1>1. /\ UNCHANGED <<tableVars, table>>
      /\ scan' = IF IsRefused(mode, entries) THEN started("refused", {}) ELSE started("scanning", planned)
  <2> DEFINE begun == [NoScan EXCEPT !.snapshot = n, !.mode = mode, !.where = where]
  <2>1. /\ UNCHANGED <<tableVars, table>>
        /\ scan' = IF IsRefused(mode, entries) THEN [begun EXCEPT !.at = "refused"]
                   ELSE [begun EXCEPT !.at = "scanning", !.files = planned]
    BY DEF Plan, Planned
  <2>2. begun = started("idle", {})
    <3> DEFINE one == [NoScan EXCEPT !.snapshot = n]
               two == [one EXCEPT !.mode = mode]
               three == [two EXCEPT !.where = where]
    <3>2. begun = three
      OBVIOUS
    <3>3. one = [at |-> "idle", snapshot |-> n, mode |-> "strict", where |-> {}, files |-> {},
                 offset |-> 0, shown |-> {}, pruned |-> {}]
      BY DEF NoScan
    <3> HIDE DEF one, begun
    <3>4. two = [at |-> "idle", snapshot |-> n, mode |-> mode, where |-> {}, files |-> {},
                 offset |-> 0, shown |-> {}, pruned |-> {}]
      BY <3>3
    <3> HIDE DEF two
    <3>5. three = [at |-> "idle", snapshot |-> n, mode |-> mode, where |-> where, files |-> {},
                   offset |-> 0, shown |-> {}, pruned |-> {}]
      BY <3>4
    <3> HIDE DEF three
    <3> QED BY <3>2, <3>5
  <2> HIDE DEF begun, entries, planned
  <2>3. [begun EXCEPT !.at = "refused"] = started("refused", {})
    BY <2>2
  <2>4. [begun EXCEPT !.at = "scanning", !.files = planned] = started("scanning", planned)
    <3> DEFINE one == [begun EXCEPT !.at = "scanning"]
    <3>1. [begun EXCEPT !.at = "scanning", !.files = planned] = [one EXCEPT !.files = planned]
      OBVIOUS
    <3>2. one = started("scanning", {})
      BY <2>2
    <3> HIDE DEF one
    <3> QED BY <3>1, <3>2
  <2> HIDE DEF started
  <2> QED BY <2>1, <2>3, <2>4
<1>2. /\ n \in DOMAIN snapshots /\ n \in Nat /\ where \in SUBSET Partitions
  BY WheresAssumption DEF ScanIInv, TablesAreSound
<1>3. /\ UNION Hydrated(n) = Hyd(data, deletes, Raw(n))
      /\ \A h \in Hyd(data, deletes, Raw(n)) : h.id \in Nat /\ h.deletes \subseteq Nat
  <2>1. DOMAIN data \subseteq Nat /\ DOMAIN deletes \subseteq Nat
    BY DEF ScanIInv, TablesAreSound, FilesAreSound
  <2> QED BY <1>2, <2>1, LoadedIsSound
<1>4. planned \in SUBSET [file : Nat, deletes : SUBSET Nat]
  BY <1>3 DEF Planned, PlannedDeletes
<1>5. \A e \in entries : e \in Hyd(data, deletes, Raw(n)) /\ PartitionMayMatch(where, e.id)
  BY <1>3
<1>6. \A e \in Hyd(data, deletes, Raw(n)) : PartitionMayMatch(where, e.id) => e \in entries
  BY <1>3
<1> HIDE DEF entries
<1>7. CASE IsRefused(mode, entries)
  <2>1. scan' = started("refused", {})
    BY <1>1, <1>7
  <2>2. /\ scan' \in ScanState /\ scan'.at = "refused" /\ scan'.snapshot = n /\ scan'.shown = {} /\ scan'.files = {}
    BY <1>2, <2>1 DEF ScanState
  <2>3. ScanIsSound'
    BY <1>1, <2>2, TablesStay DEF ScanIsSound
  <2>4. ScanShows'
    BY <2>2 DEF ScanShows, ShownAreHidden
  <2> QED BY <1>1, <2>3, <2>4, TablesStay DEF ScanIInv
<1>8. CASE ~IsRefused(mode, entries)
  <2>1. scan' = started("scanning", planned)
    BY <1>1, <1>8
  <2>2. /\ scan' \in ScanState /\ scan'.at = "scanning" /\ scan'.snapshot = n /\ scan'.mode = mode /\ scan'.where = where
        /\ scan'.files = planned /\ scan'.offset = 0 /\ scan'.shown = {}
    BY <1>2, <1>4, <2>1 DEF ScanState
  <2>3. ScanHyd' = Hyd(data, deletes, Raw(n))
    <3>1. data' = data /\ deletes' = deletes /\ snapshots' = snapshots
      BY <1>1 DEF tableVars
    <3> QED BY <2>2, <3>1 DEF ScanHyd, Raw
  <2>4. FilesArePlanned'
    <3>1. ASSUME NEW x \in planned
          PROVE  \E h \in Hyd(data, deletes, Raw(n)) :
                   x = Planned(mode, h) /\ (mode = "strict" => \A d \in h.deletes : IsSupported(d))
      <4>1. PICK e \in entries : x = Planned(mode, e)
        OBVIOUS
      <4>2. mode = "strict" => \A d \in e.deletes : IsSupported(d)
        BY <1>8 DEF IsRefused
      <4> QED BY <1>5, <4>1, <4>2
    <3>2. \A h : Planned(mode, h)' = Planned(mode, h)
      BY <1>1, TablesStay
    <3>3. \A d : IsSupported(d)' <=> IsSupported(d)
      BY <1>1, TablesStay
    <3> HIDE DEF planned
    <3> QED BY <2>2, <2>3, <3>1, <3>2, <3>3 DEF FilesArePlanned
  <2>5. ReadRowsAreAccounted'
    BY <2>2 DEF ReadRowsAreAccounted
  <2>6. FilesReadAreAccounted'
    <3> SUFFICES ASSUME NEW h \in Hyd(data, deletes, Raw(n)), PartitionMayMatch(where, h.id)
                 PROVE  \E x \in planned : x.file = h.id
      BY <1>1, <2>2, <2>3, TablesStay DEF FilesReadAreAccounted
    <3>1. Planned(mode, h) \in planned
      BY <1>6
    <3> QED BY <3>1 DEF Planned
  <2>7. ScanIsSound'
    <3>1. scan'.snapshot \in 1..table'
      BY <1>1, <2>2, TablesStay
    <3> QED BY <2>2, <2>4, <2>5, <2>6, <3>1 DEF ScanIsSound
  <2>8. ScanShows'
    BY <2>2 DEF ScanShows, ShownAreHidden
  <2> QED BY <1>1, <2>7, <2>8, TablesStay DEF ScanIInv
<1> QED BY <1>7, <1>8

(* The file that is read next was planned from the manifests of the snapshot:  *)
(* its deletes name no row of the table, and remove every other of its rows.  *)
LEMMA OpenFileIsPlanned ==
  ASSUME ScanIInv, scan.at = "scanning", scan.files # {}
  PROVE  \E h \in ScanHyd :
           /\ OpenFile = Planned(scan.mode, h) /\ File = h.id /\ File \in DOMAIN data /\ h.deletes \subseteq DOMAIN deletes
           /\ scan.mode = "strict" => \A d \in h.deletes : IsSupported(d)
           /\ \A row \in Rows(data, File) :
                row \in live[scan.snapshot] \/ \E d \in h.deletes : Removes(data, deletes, d, row)
           /\ \A d \in h.deletes : \A row \in live[scan.snapshot] : row \notin deletes[d].rows
           /\ \A d \in h.deletes : Applies(data, deletes, d, File)
           /\ h.deletes # {} => File \notin ours
<1>1. scan \in ScanState /\ scan.snapshot \in 1..table /\ FilesArePlanned
  BY DEF ScanIInv, ScanIsSound
<1>2. scan.snapshot \in DOMAIN snapshots
  BY <1>1 DEF ScanIInv, TablesAreSound
<1>3. OpenFile \in scan.files /\ File = OpenFile.file
  BY <1>1, OpenFileIsLeft
<1>4. PICK h \in ScanHyd : OpenFile = Planned(scan.mode, h) /\ (scan.mode = "strict" => \A d \in h.deletes : IsSupported(d))
  BY <1>1, <1>3 DEF FilesArePlanned
<1>5. File = h.id
  BY <1>3, <1>4 DEF Planned
<1>6. IsSound(data, deletes, ScanHyd, live[scan.snapshot]) /\ Active(ScanHyd) = {} /\ IsData(h)
  BY <1>2, LoadedIsSound DEF ScanHyd
<1>7. h.id \in DOMAIN data /\ h.deletes \subseteq DOMAIN deletes /\ (h.id \in ours => h.deletes = {})
  BY <1>2, LoadedIsSound DEF ScanHyd
<1>8. \A d \in h.deletes : d \in AllDeletes(ScanHyd) /\ Applies(data, deletes, d, h.id)
  BY <1>6 DEF AllDeletes, IsSound, EntriesAreSound
<1>9. \A row \in Rows(data, h.id) :
        row \in live[scan.snapshot] \/ \E d \in h.deletes : Removes(data, deletes, d, row)
  <2>1. Tied(data, deletes, ScanHyd, h) = h.deletes
    BY <1>6 DEF Tied
  <2> QED BY <1>6, <2>1 DEF IsSound, RestIsDeleted
<1>10. \A d \in h.deletes : \A row \in live[scan.snapshot] : row \notin deletes[d].rows
  BY <1>6, <1>8 DEF IsSound, NoneIsNamed
<1> QED BY <1>4, <1>5, <1>7, <1>8, <1>9, <1>10

IsHidden(i) == i \in PositionsDeleted \/ data[File].rows[i + 1] \in KeysDeleted

(* A position is deleted when a delete names the row; it is seen to be only    *)
(* where the engine writes the paths as the reader does.                     *)
LEMMA PositionsAreNamed ==
  ASSUME FilesAreSound(data, deletes), OpenFile.deletes \subseteq DOMAIN deletes, NEW i \in Nat
  PROVE  /\ i \in PositionsDeleted => \E d \in OpenFile.deletes : <<File, i>> \in deletes[d].rows
         /\ (~Absolute /\ \E d \in OpenFile.deletes : <<File, i>> \in deletes[d].rows) => i \in PositionsDeleted
<1>1. \A d \in OpenFile.deletes : deletes[d].rows \subseteq Nat \X Nat
  <2>1. ASSUME NEW d \in DOMAIN deletes PROVE deletes[d] \in DeleteFile
    BY DEF FilesAreSound
  <2>2. \A x \in DeleteFile : x.rows \subseteq Nat \X Nat
    BY DEF DeleteFile
  <2> QED BY <2>1, <2>2
<1>2. \A r \in Nat \X Nat : r = <<r[1], r[2]>>
  OBVIOUS
<1>3. \A f, g : WrittenPath(f) = DataFilePath(g) => f = g
  BY DEF WrittenPath, DataFilePath
<1>4. ~Absolute => \A f : WrittenPath(f) = DataFilePath(f)
  BY DEF WrittenPath, DataFilePath
<1>5. ASSUME i \in PositionsDeleted PROVE \E d \in OpenFile.deletes : <<File, i>> \in deletes[d].rows
  <2>1. PICK d \in OpenFile.deletes : \E r \in deletes[d].rows : WrittenPath(r[1]) = DataFilePath(File) /\ i = r[2]
    BY <1>5 DEF PositionsDeleted
  <2>2. PICK r \in deletes[d].rows : WrittenPath(r[1]) = DataFilePath(File) /\ i = r[2]
    BY <2>1
  <2>3. r = <<File, i>>
    BY <1>1, <1>2, <1>3, <2>2
  <2> QED BY <2>2, <2>3
<1>6. ASSUME ~Absolute, NEW d \in OpenFile.deletes, <<File, i>> \in deletes[d].rows PROVE i \in PositionsDeleted
  <2> DEFINE r == <<File, i>>
  <2>1. r[1] = File /\ r[2] = i /\ r \in UNION {deletes[x].rows : x \in OpenFile.deletes}
    BY <1>6
  <2>2. WrittenPath(r[1]) = DataFilePath(File)
    BY <1>4, <1>6, <2>1
  <2> HIDE DEF r
  <2> QED BY <2>1, <2>2 DEF PositionsDeleted
<1> QED BY <1>5, <1>6

(* What is hidden of the table is hidden by its key; what is shown of the rest *)
(* was not to be hidden.                                                    *)
LEMMA HiddenRows ==
  ASSUME ScanIInv, scan.at = "scanning", scan.files # {}, NEW i \in Nat, <<File, i>> \in Rows(data, File)
  PROVE  /\ File \in Nat
         /\ (IsHidden(i) /\ <<File, i>> \in live[scan.snapshot]) =>
              scan.mode # "ignore-deletes" /\ IsDeletedByKey(<<File, i>>) /\ File \notin ours
         /\ (~Absolute /\ ~IsHidden(i)) =>
              \/ <<File, i>> \in live[scan.snapshot]
              \/ scan.mode = "ignore-deletes"
              \/ /\ scan.mode = "ignore-unsupported-deletes"
                 /\ \E d \in DOMAIN deletes : ~IsSupported(d) /\ <<File, i>> \in deletes[d].rows
<1> DEFINE row == <<File, i>>
<1>1. PICK h \in ScanHyd :
           /\ OpenFile = Planned(scan.mode, h) /\ File = h.id /\ File \in DOMAIN data /\ h.deletes \subseteq DOMAIN deletes
           /\ scan.mode = "strict" => \A d \in h.deletes : IsSupported(d)
           /\ \A r \in Rows(data, File) :
                r \in live[scan.snapshot] \/ \E d \in h.deletes : Removes(data, deletes, d, r)
           /\ \A d \in h.deletes : \A r \in live[scan.snapshot] : r \notin deletes[d].rows
           /\ \A d \in h.deletes : Applies(data, deletes, d, File)
           /\ h.deletes # {} => File \notin ours
  BY OpenFileIsPlanned
<1>2. FilesAreSound(data, deletes) /\ scan \in ScanState
  BY DEF ScanIInv, TablesAreSound, ScanIsSound
<1>3. OpenFile.deletes = PlannedDeletes(scan.mode, h) /\ OpenFile.deletes \subseteq DOMAIN deletes
  BY <1>1 DEF Planned, PlannedDeletes
<1>4. row[1] = File /\ row[2] = i /\ KeyOf(row) = data[File].rows[i + 1] /\ Key(data, row) = data[File].rows[i + 1]
      /\ PartitionOf(row) = data[File].partition
  BY DEF KeyOf, Key, PartitionOf
<1>5. File \in Nat
  BY <1>2, OpenFileIsLeft
<1>6. ASSUME IsHidden(i), row \in live[scan.snapshot]
      PROVE  scan.mode # "ignore-deletes" /\ IsDeletedByKey(row) /\ File \notin ours
  <2>1. \A d \in OpenFile.deletes : d \in h.deletes /\ scan.mode # "ignore-deletes"
    BY <1>3 DEF PlannedDeletes
  <2>2. i \notin PositionsDeleted
    BY <1>1, <1>2, <1>3, <1>6, <2>1, PositionsAreNamed
  <2>3. PICK d \in OpenFile.deletes : data[File].rows[i + 1] \in deletes[d].keys
    BY <1>6, <2>2 DEF IsHidden, KeysDeleted
  <2>4. deletes[d].partition \in {PartitionOf(row), NullPartition}
    BY <1>1, <1>4, <2>1, <2>3 DEF Applies
  <2>5. IsDeletedByKey(row)
    BY <1>3, <1>4, <2>3, <2>4 DEF IsDeletedByKey
  <2> QED BY <1>1, <2>1, <2>3, <2>5
<1>7. ASSUME ~Absolute, ~IsHidden(i), row \notin live[scan.snapshot], scan.mode # "ignore-deletes"
      PROVE  /\ scan.mode = "ignore-unsupported-deletes"
             /\ \E d \in DOMAIN deletes : ~IsSupported(d) /\ row \in deletes[d].rows
  <2>1. PICK d \in h.deletes : Removes(data, deletes, d, row)
    BY <1>1, <1>7
  <2>2. ~IsSupported(d)
    <3>1. SUFFICES ASSUME d \in OpenFile.deletes PROVE IsHidden(i)
      BY <1>3, <1>7, <2>1 DEF PlannedDeletes
    <3>2. CASE row \in deletes[d].rows
      BY <1>2, <1>3, <1>7, <3>1, <3>2, PositionsAreNamed DEF IsHidden
    <3>3. CASE Key(data, row) \in deletes[d].keys
      BY <1>4, <3>1, <3>3 DEF IsHidden, KeysDeleted
    <3> QED BY <2>1, <3>2, <3>3 DEF Removes
  <2>3. d \in DOMAIN deletes /\ deletes[d].keys = {}
    BY <1>1, <1>2, <2>1, <2>2 DEF FilesAreSound, IsSupported
  <2>4. row \in deletes[d].rows
    BY <2>1, <2>3 DEF Removes
  <2>5. scan.mode \in Modes /\ scan.mode # "strict"
    BY <1>1, <1>2, <2>1, <2>2 DEF ScanState
  <2> QED BY <1>7, <2>2, <2>3, <2>4, <2>5 DEF Modes
<1> HIDE DEF row
<1> QED BY <1>5, <1>6, <1>7 DEF row

(* What has been shown or pruned stays so.                                  *)
LEMMA ScanGoesOn ==
  ASSUME ScanIInv, UNCHANGED <<tableVars, table>>,
         scan'.snapshot = scan.snapshot, scan'.mode = scan.mode, scan'.where = scan.where,
         scan.shown \subseteq scan'.shown, scan.pruned \subseteq scan'.pruned
  PROVE  /\ ScanHyd' = ScanHyd
         /\ \A row : Accounted(row) => Accounted(row)'
<1>1. UNCHANGED <<data, deletes, snapshots>>
  BY DEF tableVars
<1>2. ScanHyd' = ScanHyd
  BY <1>1 DEF ScanHyd, Raw
<1>3. ours' = ours /\ \A row : IsDeletedByKey(row)' <=> IsDeletedByKey(row)
  BY TablesStay
<1> QED BY <1>2, <1>3 DEF Accounted

LEMMA ReadBatchStep ==
  ASSUME ScanIInv, NEW to \in Nat, NEW from \in 0..(to - 1), ReadBatch(from, to)
  PROVE  ScanIInv' /\ (~Absolute /\ ScanShows => ScanShows')
<1> DEFINE visible == {<<File, i>> : i \in VisibleRows(from, to)}
           skipped == {<<File, i>> : i \in scan.offset..(from - 1)}
           size == Len(data[File].rows)
<1>1. /\ scan.at = "scanning" /\ scan.files # {} /\ scan.offset <= from /\ from < to /\ to <= size
      /\ UNCHANGED <<tableVars, table>>
      /\ scan' = [scan EXCEPT !.offset = to, !.shown = @ \cup visible, !.pruned = @ \cup skipped]
  BY DEF ReadBatch
<1>2. scan \in ScanState /\ scan.offset \in Nat /\ from \in Nat /\ File \in Nat /\ OpenFile \in scan.files
  <2>1. scan \in ScanState
    BY DEF ScanIInv, ScanIsSound
  <2>2. scan.offset \in Nat
    BY <2>1 DEF ScanState
  <2> QED BY <1>1, <2>1, <2>2, OpenFileIsLeft
<1>3. size \in Nat
  <2>1. File \in DOMAIN data /\ data \in Seq(DataFile)
    BY <1>1, OpenFileIsPlanned DEF ScanIInv, TablesAreSound, FilesAreSound
  <2>2. data[File] \in DataFile
    BY <2>1
  <2>3. data[File].rows \in Seq(Nat)
    BY <2>2 DEF DataFile
  <2> QED BY <2>3
<1>4. visible \subseteq Nat \X Nat /\ skipped \subseteq Nat \X Nat
  BY <1>2 DEF VisibleRows
<1>5. \A i \in from..(to - 1) : i \in VisibleRows(from, to) <=> ~IsHidden(i)
  <2>1. \A i \in from..(to - 1) : RowOffset(from) + (i - from) = i
    BY <1>2 DEF RowOffset
  <2> QED BY <2>1 DEF VisibleRows, IsHidden
<1>6. \A i \in 0..(to - 1) : i \in Nat /\ <<File, i>> \in Rows(data, File)
  BY <1>1, <1>3 DEF Rows
<1>7. VisibleRows(from, to) \subseteq from..(to - 1)
  BY DEF VisibleRows
<1> HIDE DEF size, visible, skipped
<1>8. /\ scan' \in ScanState /\ scan'.at = "scanning" /\ scan'.snapshot = scan.snapshot /\ scan'.mode = scan.mode
      /\ scan'.where = scan.where /\ scan'.files = scan.files /\ scan'.offset = to
      /\ scan'.shown = scan.shown \cup visible /\ scan'.pruned = scan.pruned \cup skipped
  BY <1>1, <1>2, <1>4 DEF ScanState
<1>9. /\ ScanHyd' = ScanHyd /\ \A row : Accounted(row) => Accounted(row)'
  BY <1>1, <1>8, ScanGoesOn
<1>10. /\ data' = data /\ deletes' = deletes /\ live' = live /\ ours' = ours /\ table' = table
       /\ TablesAreSound'
       /\ \A mode, h : Planned(mode, h)' = Planned(mode, h)
       /\ \A where, f : PartitionMayMatch(where, f)' <=> PartitionMayMatch(where, f)
       /\ \A d : IsSupported(d)' <=> IsSupported(d)
       /\ \A row : IsDeletedByKey(row)' <=> IsDeletedByKey(row)
  BY <1>1, TablesStay
<1>11. OpenFile' = OpenFile /\ File' = File
  BY <1>8 DEF OpenFile, File
<1>12. ReadRowsAreAccounted'
  <2> SUFFICES ASSUME NEW i \in 0..(to - 1), NEW row, row = <<File, i>>, row \in live[scan.snapshot]
               PROVE  Accounted(row)'
    BY <1>8, <1>10, <1>11 DEF ReadRowsAreAccounted
  <2>1. CASE i \in 0..(scan.offset - 1)
    <3>1. ReadRowsAreAccounted
      BY <1>1 DEF ScanIInv, ScanIsSound
    <3>2. Accounted(row)
      BY <1>1, <2>1, <3>1 DEF ReadRowsAreAccounted
    <3> QED BY <1>9, <3>2
  <2>2. CASE i \in scan.offset..(from - 1)
    <3>1. row \in skipped
      BY <2>2 DEF skipped
    <3> QED BY <1>8, <3>1 DEF Accounted
  <2>3. CASE i \in from..(to - 1)
    <3>1. CASE IsHidden(i)
      <4>1. i \in Nat /\ <<File, i>> \in Rows(data, File)
        BY <1>6
      <4>2. scan.mode # "ignore-deletes" /\ IsDeletedByKey(<<File, i>>) /\ File \notin ours
        BY <1>1, <3>1, <4>1, HiddenRows
      <4>3. Accounted(row)
        BY <4>2 DEF Accounted
      <4> QED BY <1>9, <4>3
    <3>2. CASE ~IsHidden(i)
      <4>1. row \in visible
        BY <1>5, <2>3, <3>2 DEF visible
      <4> QED BY <1>8, <4>1 DEF Accounted
    <3> QED BY <3>1, <3>2
  <2> QED BY <1>2, <2>1, <2>2, <2>3
<1>13. FilesArePlanned'
  <2>1. FilesArePlanned
    BY <1>1 DEF ScanIInv, ScanIsSound
  <2> QED BY <1>8, <1>9, <1>10, <2>1 DEF FilesArePlanned
<1>14. FilesReadAreAccounted'
  <2>1. FilesReadAreAccounted
    BY <1>1 DEF ScanIInv, ScanIsSound
  <2> QED BY <1>8, <1>9, <1>10, <2>1 DEF FilesReadAreAccounted
<1>15. ScanIsSound'
  <2>1. scan'.snapshot \in 1..table'
    BY <1>1, <1>8, <1>10 DEF ScanIInv, ScanIsSound
  <2> QED BY <1>8, <1>12, <1>13, <1>14, <2>1 DEF ScanIsSound
<1>16. ASSUME ~Absolute, ScanShows PROVE ScanShows'
  <2>1. ShownAreHidden
    BY <1>1, <1>16 DEF ScanShows
  <2>2. ASSUME NEW row \in scan.shown \cup visible
        PROVE  \/ row \in live[scan.snapshot]
               \/ scan.mode = "ignore-deletes"
               \/ /\ scan.mode = "ignore-unsupported-deletes"
                  /\ \E d \in DOMAIN deletes : ~IsSupported(d) /\ row \in deletes[d].rows
    <3>1. CASE row \in scan.shown
      BY <2>1, <3>1 DEF ShownAreHidden
    <3>2. CASE row \in visible
      <4>1. PICK i \in VisibleRows(from, to) : row = <<File, i>>
        BY <3>2 DEF visible
      <4>2. i \in from..(to - 1) /\ i \in 0..(to - 1) /\ i \in Nat
        BY <1>2, <1>7
      <4>3. ~IsHidden(i) /\ <<File, i>> \in Rows(data, File)
        BY <1>5, <1>6, <4>2
      <4> QED BY <1>1, <1>16, <4>1, <4>2, <4>3, HiddenRows
    <3> QED BY <3>1, <3>2
  <2>3. ShownAreHidden'
    BY <1>8, <1>10, <2>2 DEF ShownAreHidden
  <2> QED BY <2>3 DEF ScanShows
<1> QED BY <1>10, <1>15, <1>16 DEF ScanIInv

LEMMA EndFileStep ==
  ASSUME ScanIInv, EndFile
  PROVE  ScanIInv' /\ (ScanShows => ScanShows')
<1> DEFINE rest == {<<File, i>> : i \in scan.offset..(Len(data[File].rows) - 1)}
<1>1. /\ scan.at = "scanning" /\ scan.files # {} /\ UNCHANGED <<tableVars, table>>
      /\ scan' = [scan EXCEPT !.files = @ \ {OpenFile}, !.offset = 0, !.pruned = @ \cup rest]
  BY DEF EndFile
<1>2. scan \in ScanState /\ scan.offset \in Nat /\ File \in Nat
  <2>1. scan \in ScanState
    BY DEF ScanIInv, ScanIsSound
  <2>2. scan.offset \in Nat
    BY <2>1 DEF ScanState
  <2> QED BY <1>1, <2>1, <2>2, OpenFileIsLeft
<1>3. rest \subseteq Nat \X Nat
  BY <1>2
<1>4. \A row \in Rows(data, File) : (\E i \in 0..(scan.offset - 1) : row = <<File, i>>) \/ row \in rest
  BY <1>2 DEF Rows
<1> HIDE DEF rest
<1>5. /\ scan' \in ScanState /\ scan'.at = "scanning" /\ scan'.snapshot = scan.snapshot /\ scan'.mode = scan.mode
      /\ scan'.where = scan.where /\ scan'.files = scan.files \ {OpenFile} /\ scan'.offset = 0
      /\ scan'.shown = scan.shown /\ scan'.pruned = scan.pruned \cup rest
  BY <1>1, <1>2, <1>3 DEF ScanState
<1>6. /\ ScanHyd' = ScanHyd /\ \A row : Accounted(row) => Accounted(row)'
  BY <1>1, <1>5, ScanGoesOn
<1>7. /\ data' = data /\ deletes' = deletes /\ live' = live /\ ours' = ours /\ table' = table
      /\ TablesAreSound'
      /\ \A mode, h : Planned(mode, h)' = Planned(mode, h)
      /\ \A where, f : PartitionMayMatch(where, f)' <=> PartitionMayMatch(where, f)
      /\ \A d : IsSupported(d)' <=> IsSupported(d)
  BY <1>1, TablesStay
<1>8. FilesArePlanned'
  <2>1. FilesArePlanned
    BY <1>1 DEF ScanIInv, ScanIsSound
  <2> QED BY <1>5, <1>6, <1>7, <2>1 DEF FilesArePlanned
<1>9. ReadRowsAreAccounted'
  BY <1>5 DEF ReadRowsAreAccounted
<1>10. FilesReadAreAccounted'
  <2>1. FilesReadAreAccounted /\ ReadRowsAreAccounted
    BY <1>1 DEF ScanIInv, ScanIsSound
  <2>2. ASSUME NEW row \in Rows(data, File), row \in live[scan.snapshot] PROVE Accounted(row)'
    <3>1. CASE row \in rest
      BY <1>5, <3>1 DEF Accounted
    <3>2. CASE row \notin rest
      <4>1. PICK i \in 0..(scan.offset - 1) : row = <<File, i>>
        BY <1>4, <3>2
      <4> QED BY <1>1, <1>6, <2>1, <2>2, <4>1 DEF ReadRowsAreAccounted
    <3> QED BY <3>1, <3>2
  <2>3. ASSUME NEW h \in ScanHyd, PartitionMayMatch(scan.where, h.id), ~\E x \in scan.files \ {OpenFile} : x.file = h.id
        PROVE  \A row \in Rows(data, h.id) : row \in live[scan.snapshot] => Accounted(row)'
    <3>1. CASE \E x \in scan.files : x.file = h.id
      <4>1. OpenFile.file = h.id
        BY <2>3, <3>1
      <4>2. File = h.id
        BY <4>1 DEF File
      <4> QED BY <2>2, <4>2
    <3>2. CASE ~\E x \in scan.files : x.file = h.id
      BY <1>6, <2>1, <2>3, <3>2 DEF FilesReadAreAccounted
    <3> QED BY <3>1, <3>2
  <2> QED BY <1>5, <1>6, <1>7, <2>3 DEF FilesReadAreAccounted
<1>11. ScanIsSound'
  <2>1. scan'.snapshot \in 1..table'
    BY <1>1, <1>5, <1>7 DEF ScanIInv, ScanIsSound
  <2> QED BY <1>5, <1>8, <1>9, <1>10, <2>1 DEF ScanIsSound
<1>12. ScanShows => ScanShows'
  BY <1>1, <1>5, <1>7 DEF ScanShows, ShownAreHidden
<1> QED BY <1>7, <1>11, <1>12 DEF ScanIInv

LEMMA EndScanStep ==
  ASSUME ScanIInv, EndScan
  PROVE  ScanIInv' /\ (ScanShows => ScanShows')
<1>1. scan.at = "scanning" /\ scan.files = {} /\ UNCHANGED <<tableVars, table>> /\ scan' = [scan EXCEPT !.at = "done"]
  BY DEF EndScan
<1>2. scan \in ScanState
  BY DEF ScanIInv, ScanIsSound
<1>3. /\ scan' \in ScanState /\ scan'.at = "done" /\ scan'.snapshot = scan.snapshot /\ scan'.mode = scan.mode
      /\ scan'.where = scan.where /\ scan'.files = {} /\ scan'.shown = scan.shown /\ scan'.pruned = scan.pruned
  BY <1>1, <1>2 DEF ScanState
<1>4. /\ ScanHyd' = ScanHyd /\ \A row : Accounted(row) => Accounted(row)'
  BY <1>1, <1>3, ScanGoesOn
<1>5. /\ data' = data /\ deletes' = deletes /\ live' = live /\ ours' = ours /\ table' = table
      /\ TablesAreSound'
      /\ \A where, f : PartitionMayMatch(where, f)' <=> PartitionMayMatch(where, f)
      /\ \A d : IsSupported(d)' <=> IsSupported(d)
  BY <1>1, TablesStay
<1>6. FilesArePlanned' /\ ReadRowsAreAccounted'
  BY <1>3 DEF FilesArePlanned, ReadRowsAreAccounted
<1>7. FilesReadAreAccounted'
  <2>1. FilesReadAreAccounted
    BY <1>1 DEF ScanIInv, ScanIsSound
  <2> QED BY <1>1, <1>3, <1>4, <1>5, <2>1 DEF FilesReadAreAccounted
<1>8. ScanIsSound'
  <2>1. scan'.snapshot \in 1..table'
    BY <1>1, <1>3, <1>5 DEF ScanIInv, ScanIsSound
  <2> QED BY <1>3, <1>6, <1>7, <2>1 DEF ScanIsSound
<1>9. ScanShows => ScanShows'
  BY <1>1, <1>3, <1>5 DEF ScanShows, ShownAreHidden
<1> QED BY <1>5, <1>8, <1>9 DEF ScanIInv

-----------------------------------------------------------------------------
LEMMA ScanInitHolds == ASSUME ScanInit PROVE ScanIInv /\ ScanShows
<1>1. data = <<>> /\ deletes = <<>> /\ snapshots = <<>> /\ live = <<>> /\ ours = {} /\ table = 0 /\ scan = NoScan
  BY DEF ScanInit
<1>2. TablesAreSound
  BY <1>1 DEF TablesAreSound, FilesAreSound
<1>3. scan \in ScanState /\ scan.at = "idle" /\ scan.shown = {} /\ scan.files = {}
  BY <1>1 DEF NoScan, ScanState, Modes
<1> QED BY <1>2, <1>3 DEF ScanIInv, ScanIsSound, ScanShows

(* A step keeps what is known of the tables and of the scan.  What is shown    *)
(* stays hidden only where a position delete spells the path of its file as    *)
(* the reader does.                                                         *)
LEMMA ScanNextKeeps ==
  ASSUME ScanIInv, [ScanNext]_scanVars
  PROVE  ScanIInv' /\ (~Absolute /\ ScanShows => ScanShows')
<1>1. ASSUME NEW partition \in Partitions, NEW rows \in Contents, Writes(Len(data) + 1, partition, rows)
      PROVE  ScanIInv' /\ (ScanShows => ScanShows')
  BY <1>1, EngineAppendStep, EngineUpsertStep, AppendOwnFileStep DEF Writes
<1>2. ASSUME NEW kind \in {"position-delete", "deletion-vector"}, NEW rows \in SUBSET LastLive,
             EngineDeleteRows(kind, rows)
      PROVE  ScanIInv' /\ (ScanShows => ScanShows')
  BY <1>2, EngineDeleteRowsStep
<1>3. ASSUME NEW key \in UNION {Range(rows) : rows \in Contents}, NEW partition \in Partitions,
             EngineDeleteKey(key, partition)
      PROVE  ScanIInv' /\ (ScanShows => ScanShows')
  <2>1. PICK rows \in Contents : key \in Range(rows)
    OBVIOUS
  <2>2. rows \in Seq(Nat)
    BY ContentsAssumption
  <2>3. key \in Nat
    BY <2>1, <2>2 DEF Range
  <2> QED BY <1>3, <2>3, EngineDeleteKeyStep
<1>4. ASSUME NEW f \in DOMAIN data, EngineCompact(f, Len(data) + 1) PROVE ScanIInv' /\ (ScanShows => ScanShows')
  BY <1>4, EngineCompactStep
<1>5. ASSUME NEW n \in 1..table, NEW mode \in Modes, NEW where \in Wheres, Plan(n, mode, where)
      PROVE  ScanIInv' /\ (ScanShows => ScanShows')
  BY <1>5, PlanStep
<1>6. ASSUME NEW to \in UNION {1..Len(rows) : rows \in Contents}, NEW from \in 0..(to - 1), ReadBatch(from, to)
      PROVE  ScanIInv' /\ (~Absolute /\ ScanShows => ScanShows')
  <2>1. to \in Nat
    OBVIOUS
  <2> QED BY <1>6, <2>1, ReadBatchStep
<1>7. ASSUME UNCHANGED scanVars PROVE ScanIInv' /\ (ScanShows => ScanShows')
  <2>1. UNCHANGED <<tableVars, table>> /\ scan' = scan
    BY <1>7 DEF scanVars
  <2>2. UNCHANGED <<data, deletes, snapshots, live, ours, table>>
    BY <2>1 DEF tableVars
  <2>3. /\ data' = data /\ deletes' = deletes /\ live' = live /\ ours' = ours /\ TablesAreSound'
        /\ ScanHyd' = ScanHyd /\ OpenFile' = OpenFile
    BY <2>1, <2>2, TablesStay DEF ScanHyd, Raw, OpenFile
  <2>4. ScanIsSound'
    <3>1. /\ FilesArePlanned => FilesArePlanned'
          /\ ReadRowsAreAccounted => ReadRowsAreAccounted'
          /\ FilesReadAreAccounted => FilesReadAreAccounted'
      BY <2>1, <2>2, <2>3
         DEF FilesArePlanned, Planned, PlannedDeletes, IsSupported, ReadRowsAreAccounted, FilesReadAreAccounted,
             Accounted, IsDeletedByKey, KeyOf, PartitionOf, PartitionMayMatch, File
    <3> QED BY <2>1, <2>2, <3>1 DEF ScanIInv, ScanIsSound
  <2>5. ScanShows => ScanShows'
    BY <2>1, <2>2 DEF ScanShows, ShownAreHidden, IsSupported
  <2> QED BY <2>3, <2>4, <2>5 DEF ScanIInv
<1> QED BY <1>1, <1>2, <1>3, <1>4, <1>5, <1>6, <1>7, LoadStep, EndFileStep, EndScanStep DEF ScanNext

(* The snapshots, the plan and the scan are what the proofs take them to be, in *)
(* every reachable state, however the engines write their paths.             *)
THEOREM ScanInvariance == ScanSpec => []ScanIInv
<1>1. ScanIInv /\ [ScanNext]_scanVars => ScanIInv'
  BY ScanNextKeeps
<1> QED BY <1>1, ScanInitHolds, PTL DEF ScanSpec

(* Every variable keeps its type.                                           *)
THEOREM ScanTypeCorrect == ScanSpec => []ScanTypeOK
<1>1. ScanIInv => ScanTypeOK
  <2> SUFFICES ASSUME ScanIInv PROVE ScanTypeOK
    OBVIOUS
  <2>1. ASSUME NEW f \in DOMAIN data PROVE data[f].partition \in Partitions /\ data[f].rows \in Seq(Nat)
    <3>1. data[f] \in DataFile
      BY DEF ScanIInv, TablesAreSound, FilesAreSound
    <3> QED BY <3>1 DEF DataFile
  <2>2. scan.at \in {"idle", "refused", "scanning", "done"}
    BY DEF ScanIInv, ScanIsSound, ScanState
  <2> QED BY <2>1, <2>2 DEF ScanTypeOK, ScanIInv, TablesAreSound
<1> QED BY <1>1, ScanInvariance, PTL

(* A finished scan leaves out no row of its snapshot but for the predicate, the *)
(* reader's pruning, and keys deleted in the row's partition or the null one   *)
(* (never of a file the reader appended), whatever was committed meanwhile.   *)
THEOREM LostExplained == ScanSpec => []LostRowsAreExplained
<1>1. ScanIInv => LostRowsAreExplained
  <2> SUFFICES ASSUME ScanIInv, scan.at = "done",
                      NEW row \in live[scan.snapshot] \ (scan.shown \cup scan.pruned), PartitionOf(row) \in scan.where
               PROVE  scan.mode # "ignore-deletes" /\ IsDeletedByKey(row) /\ row[1] \notin ours
    BY DEF LostRowsAreExplained
  <2>1. scan.snapshot \in DOMAIN snapshots /\ scan.files = {} /\ FilesReadAreAccounted
    BY DEF ScanIInv, ScanIsSound, TablesAreSound
  <2>2. RowsAreSound(data, ScanHyd, live[scan.snapshot])
    BY <2>1, LoadedIsSound DEF ScanHyd, IsSound
  <2>3. PICK h \in ScanHyd : h.id = row[1] /\ row \in Rows(data, row[1])
    BY <2>2 DEF RowsAreSound
  <2>4. PartitionMayMatch(scan.where, h.id)
    BY <2>3 DEF PartitionMayMatch, PartitionOf
  <2>5. Accounted(row)
    BY <2>1, <2>3, <2>4 DEF FilesReadAreAccounted
  <2> QED BY <2>5 DEF Accounted
<1> QED BY <1>1, ScanInvariance, PTL

(* Where the engines write paths that are relative to the store, no scan shows *)
(* a row that is deleted at its snapshot, unless it was told to ignore deletes  *)
(* or those it does not support.                                            *)
THEOREM DeletedHidden == ASSUME ~Absolute PROVE ScanSpec => []DeletedRowsStayHidden
<1>1. ScanInit => ScanIInv /\ ScanShows
  BY ScanInitHolds
<1>2. (ScanIInv /\ ScanShows) /\ [ScanNext]_scanVars => (ScanIInv /\ ScanShows)'
  BY ScanNextKeeps
<1>3. ScanIInv /\ ScanShows => DeletedRowsStayHidden
  BY DEF ScanIInv, ScanIsSound, ScanShows, ShownAreHidden, DeletedRowsStayHidden
<1> QED BY <1>1, <1>2, <1>3, PTL DEF ScanSpec

-----------------------------------------------------------------------------
(* LanceReader: what a step of a task does to the context *)

IsContext(c) == c = [requests |-> c.requests, bytes |-> c.bytes, memory |-> c.memory, decoded |-> c.decoded]
IsTask(k) ==
  k = [stage |-> k.stage, pending |-> k.pending, lease |-> k.lease, kept |-> k.kept, cells |-> k.cells, error |-> k.error]

(* A task and the context while the other tasks hold some bytes.             *)
AddsUp(others, k, c) ==
  /\ k.kept \in Nat /\ TotalBytes(k.lease) \in Nat
  /\ c.memory \in Nat /\ c.decoded \in Nat
  /\ c.memory = c.decoded + Holds(k) + others
  /\ c.memory <= take.budget.memory /\ take.budget.memory \in Nat
Balanced(others, k, c) == IsTask(k) /\ IsContext(c) /\ AddsUp(others, k, c)

(* A task between two reads, and one that waits for a stage it has.           *)
Kinds == {"ids", "deletion", "file"}
Idles(t, k) == IsFiniteSet(DOMAIN k.cells) /\ k.stage \in ToSet(Stages(t)) /\ k.lease = <<>>
Waits(t, k) ==
  ~Settled(k) => /\ k.stage \in ToSet(Stages(t)) /\ IsFiniteSet(DOMAIN k.cells)
                 /\ k.stage = "head" => k.lease = <<>>
Fine(others, t, outcome) == Balanced(others, outcome.task, outcome.io) /\ Waits(t, outcome.task)

(* An empty lease has no bytes.                                             *)
LEMMA NoLease == TotalBytes(<<>>) = 0
<1> DEFINE Equation(h) == h = [s \in SUBSET DOMAIN <<>> |-> IF s = {} THEN 0 ELSE LET x == Max(s) IN h[s \ {x}] + (<<>>[x]).length]
           iter == CHOOSE h : Equation(h)
<1>1. TotalBytes(<<>>) = iter[DOMAIN <<>>]
  BY DEF TotalBytes, FoldLeft, MapThenFoldSet
<1>2. DOMAIN <<>> = {}
  OBVIOUS
<1>3. Equation([s \in {{}} |-> 0])
  BY <1>2
<1>4. Equation(iter)
  BY <1>3
<1> HIDE DEF iter
<1> QED BY <1>1, <1>2, <1>4

(* What is given back was there.                                            *)
LEMMA Releases ==
  ASSUME NEW c, IsContext(c), c.memory \in Nat, NEW bytes \in Nat, bytes <= c.memory
  PROVE  releaseMemory(c, bytes) = [requests |-> c.requests, bytes |-> c.bytes, memory |-> c.memory - bytes, decoded |-> c.decoded]
<1>1. Max({0, c.memory - bytes}) = c.memory - bytes
  <2> DEFINE S == {0, c.memory - bytes}
  <2>1. c.memory - bytes \in S /\ \A y \in S : c.memory - bytes >= y
    OBVIOUS
  <2>2. \A x \in S : (\A y \in S : x >= y) => x = c.memory - bytes
    OBVIOUS
  <2> HIDE DEF S
  <2> QED BY <2>1, <2>2 DEF Max
<1> QED BY <1>1 DEF releaseMemory, IsContext

(* Without a lease a task holds what it keeps; the rest is given back.         *)
LEMMA RestIsReturned ==
  ASSUME NEW others \in Nat, NEW k, NEW c, AddsUp(others, k, c), NEW m, NEW d, TotalBytes(m.lease) = 0,
         m.kept \in Nat, m.kept <= Holds(k), d.decoded = c.decoded, d.memory = c.memory - (Holds(k) - m.kept)
  PROVE  AddsUp(others, m, d)
BY DEF AddsUp, Holds

LEMMA Rebalances ==
  ASSUME NEW others \in Nat, NEW k, NEW c, Balanced(others, k, c), NEW m, NEW d, IsTask(m), IsContext(d),
         m.lease = <<>>, m.kept \in Nat, m.kept <= Holds(k), d.decoded = c.decoded, d.memory = c.memory - (Holds(k) - m.kept)
  PROVE  Balanced(others, m, d)
<1>1. TotalBytes(m.lease) = 0
  BY NoLease
<1>2. AddsUp(others, m, d)
  BY <1>1, RestIsReturned DEF Balanced
<1> QED BY <1>2 DEF Balanced

(* A task that fails gives back what it holds, and so does one that is done.  *)
LEMMA FailsBalances ==
  ASSUME NEW others \in Nat, NEW k, NEW c, Balanced(others, k, c), NEW why, why # "none"
  PROVE  /\ Balanced(others, Fails(k, c, why).task, Fails(k, c, why).io)
         /\ Settled(Fails(k, c, why).task) /\ Fails(k, c, why).task.error # "none"
<1>1. Holds(k) \in Nat /\ Holds(k) <= c.memory
  BY DEF Balanced, AddsUp, Holds
<1>2. Fails(k, c, why).io =
        [requests |-> c.requests, bytes |-> c.bytes, memory |-> c.memory - Holds(k), decoded |-> c.decoded]
  BY <1>1, Releases DEF Balanced, AddsUp, Fails
<1>3. Fails(k, c, why).task =
        [stage |-> k.stage, pending |-> {}, lease |-> <<>>, kept |-> 0, cells |-> k.cells, error |-> why]
  BY DEF Balanced, Fails, IsTask
<1> HIDE DEF Fails
<1> DEFINE m == Fails(k, c, why).task
           d == Fails(k, c, why).io
<1>5. IsTask(m) /\ IsContext(d)
  BY <1>2, <1>3 DEF IsTask, IsContext
<1>6. /\ m.lease = <<>> /\ m.kept = 0 /\ Settled(m) /\ m.error # "none"
      /\ d.memory = c.memory - Holds(k) /\ d.decoded = c.decoded
  BY <1>2, <1>3 DEF Settled
<1> HIDE DEF m, d
<1>7. m.kept \in Nat /\ m.kept <= Holds(k) /\ d.memory = c.memory - (Holds(k) - m.kept)
  BY <1>1, <1>6
<1>8. Balanced(others, m, d)
  BY <1>5, <1>6, <1>7, Rebalances
<1> QED BY <1>6, <1>8 DEF m, d

LEMMA FinishesBalances ==
  ASSUME NEW others \in Nat, NEW k, NEW c, Balanced(others, k, c)
  PROVE  Balanced(others, Finishes(k, c).task, Finishes(k, c).io) /\ Settled(Finishes(k, c).task)
<1>1. Holds(k) \in Nat /\ Holds(k) <= c.memory
  BY DEF Balanced, AddsUp, Holds
<1>2. Finishes(k, c).io =
        [requests |-> c.requests, bytes |-> c.bytes, memory |-> c.memory - Holds(k), decoded |-> c.decoded]
  BY <1>1, Releases DEF Balanced, AddsUp, Finishes
<1>3. Finishes(k, c).task =
        [stage |-> "done", pending |-> k.pending, lease |-> <<>>, kept |-> 0, cells |-> k.cells, error |-> k.error]
  BY DEF Balanced, Finishes, IsTask
<1> HIDE DEF Finishes
<1> DEFINE m == Finishes(k, c).task
           d == Finishes(k, c).io
<1>5. IsTask(m) /\ IsContext(d)
  BY <1>2, <1>3 DEF IsTask, IsContext
<1>6. /\ m.lease = <<>> /\ m.kept = 0 /\ Settled(m)
      /\ d.memory = c.memory - Holds(k) /\ d.decoded = c.decoded
  BY <1>2, <1>3 DEF Settled
<1> HIDE DEF m, d
<1>7. m.kept \in Nat /\ m.kept <= Holds(k) /\ d.memory = c.memory - (Holds(k) - m.kept)
  BY <1>1, <1>6
<1>8. Balanced(others, m, d)
  BY <1>5, <1>6, <1>7, Rebalances
<1> QED BY <1>6, <1>8 DEF m, d

(* The lease of a read is given back or kept.                                *)
LEMMA ReleasedBalances ==
  ASSUME NEW others \in Nat, NEW k, NEW c, Balanced(others, k, c)
  PROVE  /\ Balanced(others, Released(k, c).task, Released(k, c).io)
         /\ Released(k, c).task =
              [stage |-> k.stage, pending |-> k.pending, lease |-> <<>>, kept |-> k.kept, cells |-> k.cells, error |-> k.error]
<1>1. TotalBytes(k.lease) \in Nat /\ TotalBytes(k.lease) <= c.memory
      /\ k.kept \in Nat /\ Holds(k) = TotalBytes(k.lease) + k.kept /\ c.memory \in Nat
  BY DEF Balanced, AddsUp, Holds
<1>2. Released(k, c).io =
        [requests |-> c.requests, bytes |-> c.bytes, memory |-> c.memory - TotalBytes(k.lease), decoded |-> c.decoded]
  BY <1>1, Releases DEF Balanced, AddsUp, Released
<1>3. Released(k, c).task =
        [stage |-> k.stage, pending |-> k.pending, lease |-> <<>>, kept |-> k.kept, cells |-> k.cells, error |-> k.error]
  BY DEF Balanced, Released, IsTask
<1> HIDE DEF Released
<1> DEFINE m == Released(k, c).task
           d == Released(k, c).io
<1>5. IsTask(m) /\ IsContext(d)
  BY <1>2, <1>3 DEF IsTask, IsContext
<1>6. /\ m.lease = <<>> /\ m.kept = k.kept
      /\ d.memory = c.memory - TotalBytes(k.lease) /\ d.decoded = c.decoded
  BY <1>2, <1>3
<1> HIDE DEF m, d
<1>7. m.kept \in Nat /\ m.kept <= Holds(k) /\ d.memory = c.memory - (Holds(k) - m.kept)
  BY <1>1, <1>6
<1>8. Balanced(others, m, d)
  BY <1>5, <1>6, <1>7, Rebalances
<1> QED BY <1>3, <1>8 DEF m, d

LEMMA KeptBalances ==
  ASSUME NEW others \in Nat, NEW k, NEW c, Balanced(others, k, c)
  PROVE  /\ Balanced(others, Kept(k, c).task, Kept(k, c).io)
         /\ Kept(k, c).task =
              [stage |-> k.stage, pending |-> k.pending, lease |-> <<>>, kept |-> k.kept + TotalBytes(k.lease),
               cells |-> k.cells, error |-> k.error]
<1>1. Kept(k, c).task =
        [stage |-> k.stage, pending |-> k.pending, lease |-> <<>>, kept |-> k.kept + TotalBytes(k.lease),
         cells |-> k.cells, error |-> k.error]
  BY DEF Balanced, Kept, IsTask
<1>2. Kept(k, c).io = c
  BY DEF Kept
<1> HIDE DEF Kept
<1> DEFINE m == Kept(k, c).task
<1>4. IsTask(m) /\ m.lease = <<>> /\ m.kept = k.kept + TotalBytes(k.lease)
  BY <1>1 DEF IsTask
<1> HIDE DEF m
<1>5. m.kept = Holds(k) /\ Holds(k) \in Nat /\ c.memory \in Nat
  BY <1>4 DEF Balanced, AddsUp, Holds
<1>6. c.memory = c.memory - (Holds(k) - m.kept) /\ IsContext(c)
  BY <1>5 DEF Balanced
<1>7. Balanced(others, m, c)
  BY <1>4, <1>5, <1>6, Rebalances
<1> QED BY <1>1, <1>2, <1>7 DEF m

(* What is decoded stays, if there is room for it.                           *)
LEMMA DecodedBalances ==
  ASSUME NEW others \in Nat, NEW k, NEW c, Balanced(others, k, c), NEW bytes, HasRoom(c, bytes)
  PROVE  Balanced(others, k, accountDecodedMemory(c, bytes))
<1> DEFINE after == accountDecodedMemory(c, bytes)
<1>1. after = [requests |-> c.requests, bytes |-> c.bytes, memory |-> c.memory + bytes, decoded |-> c.decoded + bytes]
  <2> DEFINE first == [requests |-> c.requests, bytes |-> c.bytes, memory |-> c.memory + bytes, decoded |-> c.decoded]
  <2>1. [c EXCEPT !.memory = @ + bytes] = first
    BY DEF Balanced, IsContext
  <2>2. [first EXCEPT !.decoded = c.decoded + bytes] =
          [requests |-> c.requests, bytes |-> c.bytes, memory |-> c.memory + bytes, decoded |-> c.decoded + bytes]
    OBVIOUS
  <2>3. after = [[c EXCEPT !.memory = @ + bytes] EXCEPT !.decoded = c.decoded + bytes]
    BY DEF accountDecodedMemory
  <2> QED BY <2>1, <2>2, <2>3
<1>2. bytes \in Nat /\ c.memory + bytes <= take.budget.memory
  BY DEF HasRoom
<1> HIDE DEF after
<1>3. IsContext(after)
  BY <1>1 DEF IsContext
<1>4. Holds(k) \in Nat
  BY DEF Balanced, AddsUp, Holds
<1>5. AddsUp(others, k, after)
  BY <1>1, <1>2, <1>4 DEF Balanced, AddsUp
<1> QED BY <1>3, <1>5 DEF after, Balanced

(* A task's cells, stage or answers hold nothing.                            *)
LEMMA HoldsOnly ==
  ASSUME NEW others, NEW k, NEW c, Balanced(others, k, c), NEW m, IsTask(m), m.lease = k.lease, m.kept = k.kept
  PROVE  Balanced(others, m, c)
BY DEF Balanced, AddsUp, Holds

LEMMA FailsFinely ==
  ASSUME NEW others \in Nat, NEW t, NEW k, NEW c, Balanced(others, k, c), NEW why, why # "none"
  PROVE  Fine(others, t, Fails(k, c, why))
BY FailsBalances DEF Fine, Waits

-----------------------------------------------------------------------------
(* LanceReader: sending a read *)

LEMMA CountedBalances ==
  ASSUME NEW others, NEW k, NEW c, Balanced(others, k, c), NEW physical
  PROVE  Balanced(others, k, Counted(c, physical))
<1> DEFINE d == Counted(c, physical)
           requests == c.requests + Len(physical)
           bytes == c.bytes + TotalBytes(physical)
           first == [requests |-> requests, bytes |-> c.bytes, memory |-> c.memory, decoded |-> c.decoded]
<1> HIDE DEF requests, bytes
<1>1. [c EXCEPT !.requests = requests] = first
  BY DEF Balanced, IsContext
<1>2. [first EXCEPT !.bytes = bytes] = [requests |-> requests, bytes |-> bytes, memory |-> c.memory, decoded |-> c.decoded]
  OBVIOUS
<1>3. d = [[c EXCEPT !.requests = requests] EXCEPT !.bytes = bytes]
  BY DEF Counted, requests, bytes
<1>4. d = [requests |-> requests, bytes |-> bytes, memory |-> c.memory, decoded |-> c.decoded]
  BY <1>1, <1>2, <1>3
<1> HIDE DEF d, first
<1>5. IsContext(d) /\ d.memory = c.memory /\ d.decoded = c.decoded
  BY <1>4 DEF IsContext
<1>6. AddsUp(others, k, d)
  BY <1>5 DEF Balanced, AddsUp
<1> QED BY <1>5, <1>6 DEF Balanced, d

(* A lease is reserved when it is taken.                                    *)
LEMMA LeaseIsReserved ==
  ASSUME NEW others \in Nat, NEW k, NEW c, AddsUp(others, k, c), NEW m, NEW d, TotalBytes(k.lease) = 0, TotalBytes(m.lease) \in Nat,
         m.kept = k.kept, d.decoded = c.decoded, d.memory = c.memory + TotalBytes(m.lease), d.memory <= take.budget.memory
  PROVE  AddsUp(others, m, d)
BY DEF AddsUp, Holds

LEMMA SendIsFine ==
  ASSUME NEW others \in Nat, NEW t, NEW k, NEW c, Balanced(others, k, c), Idles(t, k), k.stage # "head", NEW physical
  PROVE  Fine(others, t, Send(t, k, c, physical))
<1>1. CASE ~HasRoom(c, TotalBytes(physical))
  BY <1>1, FailsFinely DEF Send
<1>2. CASE HasRoom(c, TotalBytes(physical))
  <2> DEFINE m == [k EXCEPT !.lease = physical, !.pending = ToSet(physical)]
             first == [stage |-> k.stage, pending |-> k.pending, lease |-> physical, kept |-> k.kept, cells |-> k.cells, error |-> k.error]
             pending == ToSet(physical)
             d == Reserved(c, TotalBytes(physical))
             o == Send(t, k, c, physical)
  <2> HIDE DEF pending
  <2>1. [k EXCEPT !.lease = physical] = first
    BY DEF Balanced, IsTask
  <2>2. [first EXCEPT !.pending = pending] =
          [stage |-> k.stage, pending |-> pending, lease |-> physical, kept |-> k.kept, cells |-> k.cells, error |-> k.error]
    OBVIOUS
  <2>3. m = [[k EXCEPT !.lease = physical] EXCEPT !.pending = pending]
    BY DEF pending
  <2>4. m = [stage |-> k.stage, pending |-> pending, lease |-> physical, kept |-> k.kept, cells |-> k.cells, error |-> k.error]
    BY <2>1, <2>2, <2>3
  <2>5. d = [requests |-> c.requests, bytes |-> c.bytes, memory |-> c.memory + TotalBytes(physical), decoded |-> c.decoded]
    BY DEF Reserved, Balanced, IsContext
  <2>6. o.task = m /\ o.io = d
    BY <1>2 DEF Send
  <2> HIDE DEF m, d, first, o
  <2>7. /\ IsTask(m) /\ IsContext(d) /\ m.lease = physical /\ m.kept = k.kept /\ m.cells = k.cells
        /\ m.stage = k.stage /\ d.decoded = c.decoded /\ d.memory = c.memory + TotalBytes(physical)
    BY <2>4, <2>5 DEF IsTask, IsContext
  <2>8. TotalBytes(k.lease) = 0
    BY NoLease DEF Idles
  <2>9. TotalBytes(m.lease) = TotalBytes(physical)
    BY <2>7
  <2>10. TotalBytes(physical) \in Nat /\ c.memory + TotalBytes(physical) <= take.budget.memory
    BY <1>2 DEF HasRoom
  <2>11. TotalBytes(m.lease) \in Nat /\ d.memory = c.memory + TotalBytes(m.lease) /\ d.memory <= take.budget.memory
    BY <2>7, <2>9, <2>10
  <2>12. AddsUp(others, m, d)
    BY <2>7, <2>8, <2>11, LeaseIsReserved DEF Balanced
  <2>13. Waits(t, m)
    BY <2>7 DEF Waits, Idles
  <2> QED BY <2>6, <2>7, <2>12, <2>13 DEF Fine, Balanced, o
<1> QED BY <1>1, <1>2

LEMMA ReadIsFine ==
  ASSUME NEW others \in Nat, NEW t, NEW k, NEW c, Balanced(others, k, c), Idles(t, k)
  PROVE  Fine(others, t, readRanges(t, k, c))
<1>1. CASE expired
  <2>1. "expired" # "none"
    OBVIOUS
  <2> QED BY <1>1, <2>1, FailsFinely DEF readRanges
<1>2. CASE ~expired /\ k.stage = "head"
  <2> DEFINE m == [k EXCEPT !.pending = {Span(0, 0)}]
             o == readRanges(t, k, c)
  <2>1. m = [stage |-> k.stage, pending |-> {Span(0, 0)}, lease |-> k.lease, kept |-> k.kept, cells |-> k.cells, error |-> k.error]
    BY DEF Balanced, IsTask
  <2>2. o.task = m /\ o.io = c
    BY <1>2 DEF readRanges
  <2> HIDE DEF m, o
  <2>3. IsTask(m) /\ m.lease = k.lease /\ m.kept = k.kept /\ m.stage = k.stage /\ m.cells = k.cells
    BY <2>1 DEF IsTask
  <2>4. Balanced(others, m, c)
    BY <2>3, HoldsOnly
  <2>5. Waits(t, m)
    BY <2>3 DEF Waits, Idles
  <2> QED BY <2>2, <2>4, <2>5 DEF Fine, o
<1>3. CASE ~expired /\ k.stage # "head"
  <2> DEFINE physical == Requests(t, k.cells, k.stage)
  <2>1. readRanges(t, k, c) = Request(t, k, c, physical)
    BY <1>3 DEF readRanges
  <2> HIDE DEF physical
  <2>2. Fine(others, t, Fails(k, c, "whole"))
    <3>1. "whole" # "none"
      OBVIOUS
    <3> QED BY <3>1, FailsFinely
  <2>3. Fine(others, t, Fails(k, c, "budget"))
    <3>1. "budget" # "none"
      OBVIOUS
    <3> QED BY <3>1, FailsFinely
  <2>4. Fine(others, t, Send(t, k, Counted(c, physical), physical))
    BY <1>3, CountedBalances, SendIsFine
  <2> QED BY <2>1, <2>2, <2>3, <2>4 DEF Request
<1> QED BY <1>1, <1>2, <1>3

(* The first of some stages is one of them.                                  *)
LEMMA LeastIsIn ==
  ASSUME NEW T, T \subseteq Nat, T # {}
  PROVE  Min(T) \in T
<1>1. PICK n \in T : \A m \in T : n <= m
  BY LeastNatural
<1> QED BY <1>1 DEF Min

LEMMA StagesAreCounted ==
  ASSUME NEW t, t[1] \in Kinds
  PROVE  DOMAIN Stages(t) \subseteq Nat
BY DEF Stages, Kinds

(* The end of a file is given back before its cells are read.                *)
LEMMA StartCellsIsFine ==
  ASSUME NEW others \in Nat, NEW t, NEW k, NEW c, Balanced(others, k, c), Idles(t, k)
  PROVE  Fine(others, t, StartCells(t, k, c))
<1>1. Fine(others, t, Fails(k, c, "invalid"))
  <2>1. "invalid" # "none"
    OBVIOUS
  <2> QED BY <2>1, FailsFinely
<1> QED BY <1>1, ReadIsFine DEF StartCells

LEMMA EnterStageIsFine ==
  ASSUME NEW others \in Nat, NEW t, NEW k, NEW c, Balanced(others, k, c), Idles(t, k)
  PROVE  Fine(others, t, EnterStage(t, k, c))
<1>1. CASE k.stage = "one"
  <2> DEFINE m == [k EXCEPT !.kept = 0]
             d == releaseMemory(c, k.kept)
  <2>1. m = [stage |-> k.stage, pending |-> k.pending, lease |-> k.lease, kept |-> 0, cells |-> k.cells, error |-> k.error]
    BY DEF Balanced, IsTask
  <2>2. TotalBytes(k.lease) = 0
    BY NoLease DEF Idles
  <2>3. k.kept \in Nat /\ Holds(k) = k.kept /\ k.kept <= c.memory /\ c.memory \in Nat
    BY <2>2 DEF Balanced, AddsUp, Holds
  <2>4. d = [requests |-> c.requests, bytes |-> c.bytes, memory |-> c.memory - k.kept, decoded |-> c.decoded]
    BY <2>3, Releases DEF Balanced
  <2>5. EnterStage(t, k, c) = StartCells(t, m, d)
    BY <1>1 DEF EnterStage
  <2> HIDE DEF m, d
  <2>6. /\ IsTask(m) /\ IsContext(d) /\ m.lease = k.lease /\ m.kept = 0 /\ m.cells = k.cells /\ m.stage = k.stage
        /\ d.memory = c.memory - k.kept /\ d.decoded = c.decoded
    BY <2>1, <2>4 DEF IsTask, IsContext
  <2>7. m.lease = <<>> /\ Idles(t, m)
    BY <2>6 DEF Idles
  <2>8. m.kept \in Nat /\ m.kept <= Holds(k) /\ d.memory = c.memory - (Holds(k) - m.kept)
    BY <2>3, <2>6
  <2>9. Balanced(others, m, d)
    BY <2>6, <2>7, <2>8, Rebalances
  <2> QED BY <2>5, <2>7, <2>9, StartCellsIsFine
<1>2. CASE k.stage # "one"
  BY <1>2, ReadIsFine DEF EnterStage
<1> QED BY <1>1, <1>2

LEMMA EnterIsFine ==
  ASSUME NEW others \in Nat, NEW t, t[1] \in Kinds, NEW k, NEW c, Balanced(others, k, c),
         k.lease = <<>>, IsFiniteSet(DOMAIN k.cells), NEW from
  PROVE  Fine(others, t, Enter(t, k, c, from))
<1> DEFINE stages == StagesAfter(t, k, from)
<1>1. stages \subseteq DOMAIN Stages(t)
  BY DEF StagesAfter
<1>2. Enter(t, k, c, from) = EnterFirst(t, k, c, stages)
  BY DEF Enter
<1> HIDE DEF stages
<1>3. CASE stages = {}
  BY <1>2, <1>3, FinishesBalances DEF EnterFirst, Fine, Waits
<1>4. CASE stages # {}
  <2> DEFINE s == Stages(t)[Min(stages)]
             m == [k EXCEPT !.stage = s]
  <2>1. Min(stages) \in DOMAIN Stages(t)
    BY <1>1, <1>4, StagesAreCounted, LeastIsIn
  <2>2. s \in ToSet(Stages(t))
    BY <2>1 DEF ToSet
  <2>3. EnterFirst(t, k, c, stages) = EnterStage(t, m, c)
    BY <1>4 DEF EnterFirst
  <2> HIDE DEF s
  <2>4. m = [stage |-> s, pending |-> k.pending, lease |-> k.lease, kept |-> k.kept, cells |-> k.cells, error |-> k.error]
    BY DEF Balanced, IsTask
  <2> HIDE DEF m
  <2>5. IsTask(m) /\ m.stage = s /\ m.lease = k.lease /\ m.kept = k.kept /\ m.cells = k.cells
    BY <2>4 DEF IsTask
  <2>6. Balanced(others, m, c)
    BY <2>5, HoldsOnly
  <2>7. Idles(t, m)
    BY <2>2, <2>5 DEF Idles
  <2> QED BY <1>2, <2>3, <2>6, <2>7, EnterStageIsFine
<1> QED BY <1>3, <1>4

-----------------------------------------------------------------------------
(* LanceReader: the cells of a task are finitely many *)

LEMMA ImageIsFinite ==
  ASSUME NEW f, NEW S, IsFiniteSet(S)
  PROVE  IsFiniteSet({f[x] : x \in S})
<1> DEFINE T == {f[x] : x \in S}
           g == [x \in S |-> f[x]]
<1>1. g \in Surjection(S, T)
  BY DEF Surjection
<1> QED BY <1>1, FS_Surjection

LEMMA CellsAreFinite ==
  ASSUME take \in Takes, IsFiniteSet(DOMAIN addresses), NEW t
  PROVE  IsFiniteSet(Cells(t))
<1>1. IsFiniteSet(ToSet(take.select))
  BY TakesAssumption, ImageIsFinite DEF ToSet
<1>2. IsFiniteSet(SelectedIn(t))
  BY <1>1, FS_Subset DEF SelectedIn
<1>3. IsFiniteSet(RowsIn(t[2]))
  <2> DEFINE there == {x \in DOMAIN addresses : addresses[x][1] = t[2]}
             row == [id \in DOMAIN addresses |-> addresses[id][2]]
  <2>1. IsFiniteSet(there)
    BY FS_Subset
  <2>2. RowsIn(t[2]) = {row[id] : id \in there}
    BY DEF RowsIn
  <2> HIDE DEF row, there
  <2> QED BY <2>1, <2>2, ImageIsFinite
<1> QED BY <1>2, <1>3, FS_Product DEF Cells

-----------------------------------------------------------------------------
(* LanceReader: what a task makes of its answers *)

Ready(others, outcome) ==
  /\ Balanced(others, outcome.task, outcome.io)
  /\ ~Settled(outcome.task) => outcome.task.lease = <<>> /\ IsFiniteSet(DOMAIN outcome.task.cells)

LEMMA FailsReadily ==
  ASSUME NEW others \in Nat, NEW k, NEW c, Balanced(others, k, c), NEW why, why # "none"
  PROVE  Ready(others, Fails(k, c, why))
BY FailsBalances DEF Ready

LEMMA ReleasedIsReady ==
  ASSUME NEW others \in Nat, NEW k, NEW c, Balanced(others, k, c), IsFiniteSet(DOMAIN k.cells)
  PROVE  Ready(others, Released(k, c))
<1> DEFINE m == Released(k, c).task
<1>1. m = [stage |-> k.stage, pending |-> k.pending, lease |-> <<>>, kept |-> k.kept, cells |-> k.cells, error |-> k.error]
  BY ReleasedBalances
<1> HIDE DEF m
<1>2. m.lease = <<>> /\ IsFiniteSet(DOMAIN m.cells)
  BY <1>1
<1> QED BY <1>2, ReleasedBalances DEF Ready, m

LEMMA KeptIsReady ==
  ASSUME NEW others \in Nat, NEW k, NEW c, Balanced(others, k, c), IsFiniteSet(DOMAIN k.cells)
  PROVE  Ready(others, Kept(k, c))
<1> DEFINE m == Kept(k, c).task
<1>1. m = [stage |-> k.stage, pending |-> k.pending, lease |-> <<>>, kept |-> k.kept + TotalBytes(k.lease), cells |-> k.cells, error |-> k.error]
  BY KeptBalances
<1> HIDE DEF m
<1>2. m.lease = <<>> /\ IsFiniteSet(DOMAIN m.cells)
  BY <1>1
<1> QED BY <1>2, KeptBalances DEF Ready, m

LEMMA CopiedIsReady ==
  ASSUME NEW others \in Nat, NEW k, NEW c, Balanced(others, k, c), IsFiniteSet(DOMAIN k.cells)
  PROVE  Ready(others, Copied(k, c))
<1> DEFINE length == TotalBytes(k.lease)
<1>1. Ready(others, Fails(k, c, "budget"))
  <2>1. "budget" # "none"
    OBVIOUS
  <2> QED BY <2>1, FailsReadily
<1>2. HasRoom(c, length) => Ready(others, Released(k, accountDecodedMemory(c, length)))
  BY DecodedBalances, ReleasedIsReady
<1> QED BY <1>1, <1>2 DEF Copied

LEMMA DecompressedIsReady ==
  ASSUME NEW others \in Nat, NEW t, NEW k, NEW c, Balanced(others, k, c), IsFiniteSet(DOMAIN k.cells), NEW isValid
  PROVE  Ready(others, Decompressed(t, k, c, isValid))
<1>1. Ready(others, Fails(k, c, "budget"))
  <2>1. "budget" # "none"
    OBVIOUS
  <2> QED BY <2>1, FailsReadily
<1>2. Ready(others, Fails(k, c, "invalid"))
  <2>1. "invalid" # "none"
    OBVIOUS
  <2> QED BY <2>1, FailsReadily
<1> QED BY <1>1, <1>2, ReleasedIsReady DEF Decompressed

LEMMA DeletionsAreReady ==
  ASSUME NEW others \in Nat, NEW t, NEW k, NEW c, Balanced(others, k, c), IsFiniteSet(DOMAIN k.cells)
  PROVE  Ready(others, readRequestedDeletionOffsets(t, k, c))
<1> DEFINE matches == DeletedOffsets(t) \cap RowsIn(t[2])
           bytes == Cardinality(matches) * MatchBytes
           o == Decompressed(t, k, c, ValidDeletions(t))
           m == [o.task EXCEPT !.cells = matches]
           d == accountDecodedMemory(o.io, bytes)
<1>1. readRequestedDeletionOffsets(t, k, c) =
        IF o.task.error # "none" THEN o
        ELSE IF ~HasRoom(o.io, bytes) THEN Fails(o.task, o.io, "budget") ELSE Finishes(m, d)
  BY DEF readRequestedDeletionOffsets
<1>2. Ready(others, o)
  BY DecompressedIsReady
<1> HIDE DEF matches, bytes, o
<1>3. Balanced(others, o.task, o.io)
  BY <1>2 DEF Ready
<1>4. Ready(others, Fails(o.task, o.io, "budget"))
  <2>1. "budget" # "none"
    OBVIOUS
  <2> QED BY <1>3, <2>1, FailsReadily
<1>5. ASSUME HasRoom(o.io, bytes) PROVE Ready(others, Finishes(m, d))
  <2>1. m = [stage |-> o.task.stage, pending |-> o.task.pending, lease |-> o.task.lease, kept |-> o.task.kept,
             cells |-> matches, error |-> o.task.error]
    BY <1>3 DEF Balanced, IsTask
  <2>2. Balanced(others, o.task, d)
    BY <1>3, <1>5, DecodedBalances
  <2> HIDE DEF m, d
  <2>3. IsTask(m) /\ m.lease = o.task.lease /\ m.kept = o.task.kept
    BY <2>1 DEF IsTask
  <2>4. Balanced(others, m, d)
    BY <2>2, <2>3, HoldsOnly
  <2> QED BY <2>4, FinishesBalances DEF Ready
<1> HIDE DEF m, d
<1> QED BY <1>1, <1>2, <1>4, <1>5

(* Values are decoded one by one while there is room.                        *)
LEMMA SumOfNone == ASSUME NEW costs, DOMAIN costs = {} PROVE SumOf(costs) = 0
<1> DEFINE Equation(h) == h = [s \in SUBSET DOMAIN costs |-> IF s = {} THEN 0 ELSE LET x == Max(s) IN h[s \ {x}] + costs[x]]
           iter == CHOOSE h : Equation(h)
<1>1. SumOf(costs) = iter[DOMAIN costs]
  BY DEF SumOf, FoldLeft, MapThenFoldSet
<1>2. Equation([s \in {{}} |-> 0])
  OBVIOUS
<1>3. Equation(iter)
  BY <1>2
<1> HIDE DEF iter
<1> QED BY <1>1, <1>3

LEMMA GreatestIsIn ==
  ASSUME NEW n \in Nat, NEW s, s \subseteq 0..n, 0 \in s
  PROVE  Max(s) \in s
<1> DEFINE back == {n - x : x \in s}
<1>1. \A x \in s : x \in Int /\ n - x \in Nat
  <2>1. \A x \in 0..n : x \in Int /\ n - x \in Nat
    OBVIOUS
  <2> QED BY <2>1
<1>2. back \subseteq Nat /\ back # {}
  BY <1>1
<1>3. PICK b \in back : \A c \in back : b <= c
  <2> HIDE DEF back
  <2> QED BY <1>2, LeastNatural
<1>4. PICK x \in s : b = n - x
  OBVIOUS
<1>5. \A y \in s : n - x <= n - y
  BY <1>3, <1>4
<1>6. \A y \in s : x \in Int /\ y \in Int
  BY <1>1
<1>7. \A y \in s : x >= y
  BY <1>5, <1>6
<1> QED BY <1>7 DEF Max

LEMMA FittingHasRoom ==
  ASSUME NEW others \in Nat, NEW k, NEW c, Balanced(others, k, c), NEW costs, Len(costs) \in Nat
  PROVE  HasRoom(c, Fitting(c, costs))
<1> DEFINE upTo(n) == SumOf(SubSeq(costs, 1, n))
           fit == {n \in 0..Len(costs) : \A m \in 1..n : HasRoom(c, upTo(m))}
<1>1. Fitting(c, costs) = upTo(Max(fit))
  BY DEF Fitting
<1>2. 0 \in fit /\ fit \subseteq 0..Len(costs)
  OBVIOUS
<1>3. Max(fit) \in fit
  <2> HIDE DEF fit
  <2> QED BY <1>2, GreatestIsIn
<1>4. CASE Max(fit) = 0
  <2>1. DOMAIN SubSeq(costs, 1, 0) = {}
    OBVIOUS
  <2>2. upTo(0) = 0
    BY <2>1, SumOfNone
  <2>3. HasRoom(c, 0)
    BY DEF HasRoom, Balanced, AddsUp
  <2> QED BY <1>1, <1>4, <2>2, <2>3
<1>5. CASE Max(fit) # 0
  <2> DEFINE n == Max(fit)
  <2>1. n \in 0..Len(costs) /\ \A m \in 1..n : HasRoom(c, upTo(m))
    BY <1>3
  <2> HIDE DEF n
  <2>2. n \in 1..n
    BY <1>5, <2>1 DEF n
  <2>3. HasRoom(c, upTo(n))
    BY <2>1, <2>2
  <2> QED BY <1>1, <2>3 DEF n
<1> QED BY <1>4, <1>5

(* A set as a sequence has each element once.                                *)
LEMMA SetAsSeq ==
  ASSUME NEW S, IsFiniteSet(S)
  PROVE  /\ Cardinality(S) \in Nat
         /\ SetToSeq(S) \in [1..Cardinality(S) -> S]
         /\ IsInjective(SetToSeq(S))
<1>1. Cardinality(S) \in Nat /\ ExistsBijection(1..Cardinality(S), S)
  BY FS_CardinalityType
<1>2. \E f \in [1..Cardinality(S) -> S] : IsInjective(f)
  BY <1>1 DEF ExistsBijection, Bijection, Injection
<1> QED BY <1>1, <1>2 DEF SetToSeq

LEMMA CostsAreCounted ==
  ASSUME NEW t, NEW cells, NEW S, IsFiniteSet(S)
  PROVE  Len(CostsOf(t, cells, SetToSeq(S))) \in Nat
<1> DEFINE new == SetToSeq(S)
           cost(i) == estimateDecodedValueBytes(PlanOf(t, new[i]), cells[new[i]])
           n == Cardinality(S)
<1>1. n \in Nat /\ DOMAIN new = 1..n
  BY SetAsSeq
<1>2. CostsOf(t, cells, new) = [i \in 1..n |-> cost(i)]
  BY <1>1 DEF CostsOf
<1> HIDE DEF new, cost, n
<1>3. Len([i \in 1..n |-> cost(i)]) = n
  BY <1>1
<1> QED BY <1>1, <1>2, <1>3 DEF new

LEMMA AccountIsReady ==
  ASSUME NEW others \in Nat, NEW k, NEW c, Balanced(others, k, c), IsFiniteSet(DOMAIN k.cells), NEW costs, Len(costs) \in Nat
  PROVE  Ready(others, Account(k, c, costs))
<1> DEFINE accounted == accountDecodedMemory(c, Fitting(c, costs))
<1>1. Balanced(others, k, accounted)
  BY FittingHasRoom, DecodedBalances
<1> HIDE DEF accounted
<1>2. Ready(others, Fails(k, accounted, "lost"))
  <2>1. "lost" # "none"
    OBVIOUS
  <2> QED BY <1>1, <2>1, FailsReadily
<1>3. Ready(others, Fails(k, accounted, "invalid"))
  <2>1. "invalid" # "none"
    OBVIOUS
  <2> QED BY <1>1, <2>1, FailsReadily
<1>4. Ready(others, Fails(k, accounted, "budget"))
  <2>1. "budget" # "none"
    OBVIOUS
  <2> QED BY <1>1, <2>1, FailsReadily
<1>5. Ready(others, Released(k, accounted))
  BY <1>1, ReleasedIsReady
<1> QED BY <1>2, <1>3, <1>4, <1>5 DEF Account, accounted

LEMMA CellPlansAreReady ==
  ASSUME take \in Takes, IsFiniteSet(DOMAIN addresses), NEW others \in Nat, NEW t, NEW k, NEW c,
         Balanced(others, k, c), IsFiniteSet(DOMAIN k.cells), k.stage \in {"one", "two", "offsets", "items"}
  PROVE  Ready(others, executeCellPlans(t, k, c))
<1> DEFINE cells == Decoded(t, k, k.stage)
           m == [k EXCEPT !.cells = cells]
           new == NewlyDone(k.cells, cells)
           costs == CostsOf(t, cells, SetToSeq(new))
<1>1. executeCellPlans(t, k, c) = Account(m, c, costs)
  BY DEF executeCellPlans, AccountCells
<1>2. DOMAIN cells = Cells(t) \/ DOMAIN cells = DOMAIN k.cells
  BY DEF Decoded
<1> HIDE DEF cells
<1>3. IsFiniteSet(DOMAIN cells)
  BY <1>2, CellsAreFinite
<1>4. IsFiniteSet(new)
  <2>1. new \subseteq DOMAIN cells
    BY DEF NewlyDone, At
  <2> QED BY <1>3, <2>1, FS_Subset
<1> HIDE DEF new
<1>5. Len(costs) \in Nat
  BY <1>4, CostsAreCounted
<1>6. m = [stage |-> k.stage, pending |-> k.pending, lease |-> k.lease, kept |-> k.kept, cells |-> cells, error |-> k.error]
  BY DEF Balanced, IsTask
<1> HIDE DEF m, costs
<1>7. IsTask(m) /\ m.lease = k.lease /\ m.kept = k.kept /\ IsFiniteSet(DOMAIN m.cells)
  BY <1>3, <1>6 DEF IsTask
<1>8. Balanced(others, m, c)
  BY <1>7, HoldsOnly
<1> QED BY <1>1, <1>5, <1>7, <1>8, AccountIsReady

LEMMA GainedIsReady ==
  ASSUME take \in Takes, IsFiniteSet(DOMAIN addresses), NEW others \in Nat, NEW t, t[1] \in Kinds, NEW k, NEW c,
         Balanced(others, k, c), Waits(t, k), ~Settled(k)
  PROVE  Ready(others, Gained(t, k, c))
<1>1. IsFiniteSet(DOMAIN k.cells) /\ k.stage \in ToSet(Stages(t)) /\ (k.stage = "head" => k.lease = <<>>)
  BY DEF Waits
<1>2. CASE k.stage = "head"
  <2>1. Gained(t, k, c) = [task |-> k, io |-> c]
    BY <1>2 DEF Gained, IsDataRead
  <2>2. Ready(others, [task |-> k, io |-> c])
    BY <1>1, <1>2 DEF Ready
  <2> QED BY <2>1, <2>2
<1>3. CASE t[1] = "ids" /\ k.stage # "head"
  <2>1. k.stage = "ids"
    BY <1>1, <1>3 DEF Stages, ToSet
  <2>2. Gained(t, k, c) = Copied(k, c)
    BY <1>3, <2>1 DEF Gained, IsDataRead
  <2> QED BY <1>1, <2>2, CopiedIsReady
<1>4. CASE t[1] = "deletion" /\ k.stage # "head"
  <2>1. k.stage \in {"edges", "footer", "metadata", "validity", "values"}
    BY <1>1, <1>4 DEF Stages, ToSet
  <2>2. CASE k.stage \in {"edges", "footer", "metadata"}
    <3>1. Gained(t, k, c) = Kept(k, c)
      BY <1>4, <2>2 DEF Gained, IsDataRead
    <3> QED BY <1>1, <3>1, KeptIsReady
  <2>4. CASE k.stage = "validity"
    <3>1. Gained(t, k, c) = Decompressed(t, k, c, ~DeletionOf(t).hasNulls)
      BY <1>4, <2>4 DEF Gained, IsDataRead
    <3> QED BY <1>1, <3>1, DecompressedIsReady
  <2>5. CASE k.stage = "values"
    <3>1. Gained(t, k, c) = readRequestedDeletionOffsets(t, k, c)
      BY <1>4, <2>5 DEF Gained, IsDataRead
    <3> QED BY <1>1, <3>1, DeletionsAreReady
  <2> QED BY <2>1, <2>2, <2>4, <2>5
<1>5. CASE t[1] = "file" /\ k.stage # "head"
  <2>1. k.stage \in {"tail", "table", "metadata", "one", "two", "offsets", "items"}
    BY <1>1, <1>5 DEF Stages, ToSet
  <2>2. CASE k.stage = "tail"
    <3>1. Gained(t, k, c) = Kept(k, c)
      BY <1>5, <2>2 DEF Gained, IsDataRead
    <3> QED BY <1>1, <3>1, KeptIsReady
  <2>3. CASE k.stage \in {"table", "metadata"}
    <3>1. Gained(t, k, c) = Released(k, c)
      BY <1>5, <2>3 DEF Gained, IsDataRead
    <3> QED BY <1>1, <3>1, ReleasedIsReady
  <2>4. CASE k.stage \in {"one", "two", "offsets", "items"}
    <3>1. Gained(t, k, c) = executeCellPlans(t, k, c)
      BY <1>5, <2>4 DEF Gained, IsDataRead
    <3> QED BY <1>1, <2>4, <3>1, CellPlansAreReady
  <2> QED BY <2>1, <2>2, <2>3, <2>4
<1> QED BY <1>2, <1>3, <1>4, <1>5 DEF Kinds

LEMMA ProcessedIsReady ==
  ASSUME take \in Takes, IsFiniteSet(DOMAIN addresses), NEW others \in Nat, NEW t, t[1] \in Kinds, NEW k, NEW c,
         Balanced(others, k, c), Waits(t, k), ~Settled(k)
  PROVE  Ready(others, Processed(t, k, c))
<1>1. "expired" # "none" /\ "invalid" # "none"
  OBVIOUS
<1>2. Ready(others, Fails(k, c, "expired")) /\ Ready(others, Fails(k, c, "invalid"))
  BY <1>1, FailsReadily
<1> QED BY <1>2, GainedIsReady DEF Processed

LEMMA ContinuedIsFine ==
  ASSUME NEW others \in Nat, NEW t, t[1] \in Kinds, NEW outcome, Ready(others, outcome)
  PROVE  Fine(others, t, Continued(t, outcome))
<1>1. CASE Settled(outcome.task)
  BY <1>1 DEF Continued, Ready, Fine, Waits
<1>2. CASE ~Settled(outcome.task)
  <2>1. Balanced(others, outcome.task, outcome.io) /\ outcome.task.lease = <<>> /\ IsFiniteSet(DOMAIN outcome.task.cells)
    BY <1>2 DEF Ready
  <2> QED BY <1>2, <2>1, EnterIsFine DEF Continued
<1> QED BY <1>1, <1>2

-----------------------------------------------------------------------------
(* LanceReader: all tasks together *)

AreTasks(ts) ==
  /\ IsFiniteSet(DOMAIN ts)
  /\ \A t \in DOMAIN ts :
       t[1] \in Kinds /\ IsTask(ts[t]) /\ ts[t].kept \in Nat /\ TotalBytes(ts[t].lease) \in Nat /\ Waits(t, ts[t])
HeldInAll(ts, c) ==
  /\ c.memory \in Nat /\ c.decoded \in Nat
  /\ c.memory = c.decoded + HeldBy(ts)
  /\ c.memory <= take.budget.memory /\ take.budget.memory \in Nat
Whole(ts, c) == AreTasks(ts) /\ IsContext(c) /\ HeldInAll(ts, c)

HeldEach(ts) == [t \in DOMAIN ts |-> Holds(ts[t])]
HeldByOthers(ts, t) == SumOver(HeldEach(ts), DOMAIN ts \ {t})
Put(ts, t, m) == [x \in DOMAIN ts \cup {t} |-> IF x = t THEN m ELSE ts[x]]

(* What tasks hold together is a sum.                                        *)
LEMMA HeldIsSum ==
  ASSUME NEW ts, IsFiniteSet(DOMAIN ts)
  PROVE  HeldBy(ts) = SumOver(HeldEach(ts), DOMAIN ts)
<1> DEFINE D == DOMAIN ts
           w == HeldEach(ts)
           Equation(h) == h = [s \in SUBSET D |-> IF s = {} THEN 0 ELSE LET x == CHOOSE x \in s : TRUE IN Holds(ts[x]) + h[s \ {x}]]
           iter == CHOOSE h : Equation(h)
<1>1. \A t \in D : w[t] = Holds(ts[t])
  BY DEF HeldEach
<1>2. HeldBy(ts) = iter[D]
  BY DEF HeldBy, MapThenSumSet, MapThenFoldSet
<1> HIDE DEF w
<1>3. PICK f : Adds(w, f, D)
  BY SomeAdds
<1>4. Equation([s \in SUBSET D |-> f[s]])
  <2> DEFINE h == [s \in SUBSET D |-> f[s]]
  <2>1. \A s \in SUBSET D : h[s] = IF s = {} THEN 0 ELSE Holds(ts[One(s)]) + h[s \ {One(s)}]
    <3> TAKE s \in SUBSET D
    <3>1. f[s] = Added(w, f, s)
      BY <1>3 DEF Adds
    <3>2. s # {} => One(s) \in D /\ s \ {One(s)} \in SUBSET D
      BY OneIsIn
    <3> QED BY <1>1, <3>1, <3>2 DEF Added
  <2>2. h = [s \in SUBSET D |-> IF s = {} THEN 0 ELSE Holds(ts[One(s)]) + h[s \ {One(s)}]]
    BY <2>1
  <2> HIDE DEF h
  <2>3. Equation(h)
    BY <2>2 DEF One
  <2> QED BY <2>3 DEF h
<1>5. Equation(iter)
  <2> HIDE DEF Equation
  <2> QED BY <1>4
<1>6. Adds(w, iter, D)
  <2> HIDE DEF iter
  <2>1. \A s \in SUBSET D : iter[s] = IF s = {} THEN 0 ELSE Holds(ts[One(s)]) + iter[s \ {One(s)}]
    BY <1>5 DEF One
  <2>2. \A s \in SUBSET D : s # {} => w[One(s)] = Holds(ts[One(s)])
    BY <1>1, OneIsIn
  <2> QED BY <2>1, <2>2 DEF Adds, Added
<1> HIDE DEF iter
<1>7. SumOver(w, D) = iter[D]
  BY <1>6, SumAdds
<1> QED BY <1>2, <1>7 DEF w

(* A sum is that of the numbers that are added.                              *)
LEMMA SameSum ==
  ASSUME NEW v, NEW w, NEW S, IsFiniteSet(S), Integers(w, S), \A x \in S : v[x] = w[x]
  PROVE  SumOver(v, S) = SumOver(w, S)
<1> DEFINE name == [x \in S |-> x]
<1>1. Named(name, S) = S /\ Injects(name, S) /\ \A x \in S : v[name[x]] = w[x]
  BY DEF Named, Injects
<1> HIDE DEF name
<1>2. SumOver(v, Named(name, S)) = SumOver(w, S)
  BY <1>1, SumRenamed
<1> QED BY <1>1, <1>2

LEMMA LoadsAreNaturals ==
  ASSUME NEW ts, AreTasks(ts)
  PROVE  Naturals(HeldEach(ts), DOMAIN ts) /\ IsFiniteSet(DOMAIN ts) /\ \A t : HeldByOthers(ts, t) \in Nat
<1>1. \A t \in DOMAIN ts : ts[t].kept \in Nat /\ TotalBytes(ts[t].lease) \in Nat
  BY DEF AreTasks
<1>2. \A t \in DOMAIN ts : Holds(ts[t]) \in Nat
  BY <1>1 DEF Holds
<1>3. Naturals(HeldEach(ts), DOMAIN ts)
  BY <1>2 DEF Naturals, HeldEach
<1>4. IsFiniteSet(DOMAIN ts)
  BY DEF AreTasks
<1>5. ASSUME NEW t PROVE HeldByOthers(ts, t) \in Nat
  <2>1. IsFiniteSet(DOMAIN ts \ {t}) /\ Naturals(HeldEach(ts), DOMAIN ts \ {t})
    BY <1>3, <1>4, FS_Subset DEF Naturals
  <2> QED BY <2>1, SumSplits DEF HeldByOthers
<1> QED BY <1>3, <1>4, <1>5

(* A task of them is one beside the others,                                  *)
LEMMA TaskIsOne ==
  ASSUME NEW ts, NEW c, Whole(ts, c), NEW t \in DOMAIN ts
  PROVE  Balanced(HeldByOthers(ts, t), ts[t], c)
<1>1. AreTasks(ts) /\ IsContext(c) /\ HeldInAll(ts, c)
  BY DEF Whole
<1>2. HeldBy(ts) = HeldEach(ts)[t] + HeldByOthers(ts, t)
  BY <1>1, LoadsAreNaturals, HeldIsSum, SumSplits DEF HeldByOthers
<1>3. HeldEach(ts)[t] = Holds(ts[t])
  BY DEF HeldEach
<1>4. IsTask(ts[t]) /\ ts[t].kept \in Nat /\ TotalBytes(ts[t].lease) \in Nat
  BY <1>1 DEF AreTasks
<1>5. HeldByOthers(ts, t) \in Nat
  BY <1>1, LoadsAreNaturals
<1>6. Holds(ts[t]) \in Nat
  BY <1>4 DEF Holds
<1>7. AddsUp(HeldByOthers(ts, t), ts[t], c)
  <2> DEFINE others == HeldByOthers(ts, t)
             k == ts[t]
  <2> HIDE DEF others, k
  <2>1. others \in Nat /\ Holds(k) \in Nat /\ HeldBy(ts) = Holds(k) + others /\ k.kept \in Nat /\ TotalBytes(k.lease) \in Nat
    BY <1>2, <1>3, <1>4, <1>5, <1>6 DEF others, k
  <2>2. /\ c.memory \in Nat /\ c.decoded \in Nat
        /\ c.memory = c.decoded + HeldBy(ts)
        /\ c.memory <= take.budget.memory /\ take.budget.memory \in Nat
    BY <1>1 DEF HeldInAll
  <2>3. c.memory = c.decoded + Holds(k) + others
    BY <2>1, <2>2
  <2>4. AddsUp(others, k, c)
    BY <2>1, <2>2, <2>3 DEF AddsUp
  <2> QED BY <2>4 DEF others, k
<1> QED BY <1>1, <1>4, <1>7 DEF Balanced

(* and beside the others it may become another.                              *)
LEMMA TaskIsPut ==
  ASSUME NEW ts, AreTasks(ts), NEW t, t[1] \in Kinds, NEW m, NEW d, Balanced(HeldByOthers(ts, t), m, d), Waits(t, m)
  PROVE  Whole(Put(ts, t, m), d)
<1> DEFINE all == Put(ts, t, m)
           D == DOMAIN ts \cup {t}
<1>1. DOMAIN all = D /\ all[t] = m /\ \A x \in D \ {t} : all[x] = ts[x]
  BY DEF Put
<1> HIDE DEF all
<1>2. IsFiniteSet(D)
  BY FS_AddElement DEF AreTasks
<1>3. IsTask(m) /\ IsContext(d) /\ AddsUp(HeldByOthers(ts, t), m, d)
  BY DEF Balanced
<1>4. m.kept \in Nat /\ TotalBytes(m.lease) \in Nat
  BY <1>3 DEF AddsUp
<1>5. AreTasks(all)
  BY <1>1, <1>2, <1>3, <1>4 DEF AreTasks
<1>6. HeldBy(all) = HeldEach(all)[t] + SumOver(HeldEach(all), D \ {t})
  BY <1>1, <1>5, LoadsAreNaturals, HeldIsSum, SumSplits
<1>7. HeldEach(all)[t] = Holds(m) /\ \A x \in D \ {t} : HeldEach(all)[x] = HeldEach(ts)[x]
  BY <1>1 DEF HeldEach
<1>8. D \ {t} = DOMAIN ts \ {t}
  OBVIOUS
<1>9. SumOver(HeldEach(all), D \ {t}) = HeldByOthers(ts, t)
  <2> DEFINE S == DOMAIN ts \ {t}
  <2>1. IsFiniteSet(S) /\ Integers(HeldEach(ts), S)
    BY LoadsAreNaturals, FS_Subset DEF Integers, Naturals
  <2>2. \A x \in S : HeldEach(all)[x] = HeldEach(ts)[x]
    BY <1>7
  <2> HIDE DEF S, D
  <2>3. SumOver(HeldEach(all), S) = SumOver(HeldEach(ts), S)
    BY <2>1, <2>2, SameSum
  <2> QED BY <1>8, <2>3 DEF HeldByOthers, S
<1>10. HeldByOthers(ts, t) \in Nat
  BY LoadsAreNaturals
<1>11. HeldInAll(all, d)
  <2> DEFINE others == HeldByOthers(ts, t)
  <2> HIDE DEF others, D
  <2>1. HeldBy(all) = Holds(m) + others /\ others \in Nat
    BY <1>6, <1>7, <1>9, <1>10 DEF others
  <2>2. Holds(m) \in Nat
    BY <1>4 DEF Holds
  <2>3. AddsUp(others, m, d)
    BY <1>3 DEF others
  <2>4. d.decoded \in Nat /\ d.memory = d.decoded + Holds(m) + others
    BY <2>3 DEF AddsUp
  <2>5. d.memory = d.decoded + HeldBy(all)
    BY <2>1, <2>2, <2>4
  <2> QED BY <2>3, <2>5 DEF AddsUp, HeldInAll
<1> QED BY <1>3, <1>5, <1>11 DEF Whole, all

(* A task that has not started holds nothing.                                *)
LEMMA NewTaskIsOne ==
  ASSUME NEW ts, NEW c, Whole(ts, c), NEW t, t \notin DOMAIN ts
  PROVE  Balanced(HeldByOthers(ts, t), NoTask, c)
<1>1. AreTasks(ts) /\ IsContext(c) /\ HeldInAll(ts, c)
  BY DEF Whole
<1>2. DOMAIN ts \ {t} = DOMAIN ts
  OBVIOUS
<1>3. HeldBy(ts) = HeldByOthers(ts, t) /\ HeldByOthers(ts, t) \in Nat
  BY <1>1, <1>2, HeldIsSum, LoadsAreNaturals DEF HeldByOthers
<1>4. IsTask(NoTask) /\ NoTask.kept = 0 /\ TotalBytes(NoTask.lease) = 0
  BY NoLease DEF NoTask, IsTask
<1>5. AddsUp(HeldByOthers(ts, t), NoTask, c)
  <2> DEFINE others == HeldByOthers(ts, t)
             k == NoTask
  <2> HIDE DEF others, k
  <2>1. others \in Nat /\ k.kept = 0 /\ TotalBytes(k.lease) = 0 /\ HeldBy(ts) = others
    BY <1>3, <1>4 DEF others, k
  <2>2. Holds(k) = 0
    BY <2>1 DEF Holds
  <2>3. AddsUp(others, k, c)
    BY <1>1, <2>1, <2>2 DEF AddsUp, HeldInAll
  <2> QED BY <2>3 DEF others, k
<1> QED BY <1>1, <1>4, <1>5 DEF Balanced

-----------------------------------------------------------------------------
(* LanceReader: starting tasks one after the other *)

AreFresh(ts, others) == IsFiniteSet(ts) /\ ts \cap DOMAIN others = {} /\ \A t \in ts : t[1] \in Kinds

LEMMA StartedIsWhole ==
  ASSUME NEW started, Whole(started.tasks, started.io), NEW t, t[1] \in Kinds, t \notin DOMAIN started.tasks
  PROVE  /\ Whole(Started(started, t).tasks, Started(started, t).io)
         /\ DOMAIN Started(started, t).tasks = DOMAIN started.tasks \cup {t}
<1> DEFINE outcome == Opened(t, started.io)
           others == HeldByOthers(started.tasks, t)
<1>1. AreTasks(started.tasks) /\ others \in Nat
  BY LoadsAreNaturals DEF Whole
<1>2. Balanced(others, NoTask, started.io)
  BY NewTaskIsOne
<1>3. NoTask.lease = <<>> /\ IsFiniteSet(DOMAIN NoTask.cells)
  <2>1. DOMAIN <<>> = {}
    OBVIOUS
  <2> QED BY <2>1, FS_EmptySet DEF NoTask
<1> HIDE DEF others
<1>4. Fine(others, t, outcome)
  <2>1. "unsupported" # "none"
    OBVIOUS
  <2>2. Fine(others, t, Fails(NoTask, started.io, "unsupported"))
    BY <1>1, <1>2, <2>1, FailsFinely
  <2>3. Fine(others, t, Enter(t, NoTask, started.io, 0))
    BY <1>1, <1>2, <1>3, EnterIsFine
  <2> QED BY <2>2, <2>3 DEF Opened
<1>5. /\ Started(started, t).tasks = Put(started.tasks, t, outcome.task)
      /\ Started(started, t).io = outcome.io
  BY DEF Started, With, Put
<1> HIDE DEF outcome
<1>6. Whole(Put(started.tasks, t, outcome.task), outcome.io)
  BY <1>1, <1>4, TaskIsPut DEF Fine, others
<1>7. DOMAIN Put(started.tasks, t, outcome.task) = DOMAIN started.tasks \cup {t}
  BY DEF Put
<1> QED BY <1>5, <1>6, <1>7

(* The recursion behind it: the last of them is started last.                *)
StartedOf(base, q, h, s) == IF s = {} THEN base ELSE Started(h[s \ {Max(s)}], q[Max(s)])

LEMMA SomeStarts ==
  ASSUME NEW base, NEW q, NEW n \in Nat
  PROVE  \E h : h = [s \in SUBSET (1..n) |-> StartedOf(base, q, h, s)]
<1> DEFINE S == 1..n
           Good == {k \in Nat : \E h : \A s \in Small(S, k) : h[s] = StartedOf(base, q, h, s)}
<1>0. IsFiniteSet(S) /\ \A s \in SUBSET S : s # {} => Max(s) \in s
  <2>1. \A s \in SUBSET S : s # {} => Max(s) \in s
    BY LastIndex
  <2>2. IsFiniteSet(S)
    BY FS_Interval
  <2> QED BY <2>1, <2>2
<1> HIDE DEF S
<1>1. 0 \in Good
  <2> DEFINE h == [s \in {{}} |-> base]
  <2>1. \A s \in Small(S, 0) : h[s] = StartedOf(base, q, h, s)
    BY <1>0, SmallestIsEmpty DEF StartedOf
  <2> QED BY <2>1
<1>2. ASSUME NEW k \in Nat, k \in Good PROVE k + 1 \in Good
  <2>1. PICK f : \A s \in Small(S, k) : f[s] = StartedOf(base, q, f, s)
    BY <1>2
  <2> DEFINE g == [s \in Small(S, k + 1) |-> StartedOf(base, q, f, s)]
  <2>2. Small(S, k) \subseteq Small(S, k + 1)
    BY <1>0, FS_Subset, FS_CardinalityType DEF Small
  <2>3. \A s \in Small(S, k) : g[s] = f[s]
    BY <2>1, <2>2
  <2>4. \A s \in Small(S, k + 1) : StartedOf(base, q, f, s) = StartedOf(base, q, g, s)
    <3> TAKE s \in Small(S, k + 1)
    <3>1. CASE s = {}
      BY <3>1 DEF StartedOf
    <3>2. CASE s # {}
      <4>1. s \ {Max(s)} \in Small(S, k)
        <5>1. Max(s) \in s
          BY <1>0, <3>2 DEF Small
        <5> QED BY <1>0, <5>1, SmallerIsSmall
      <4>2. g[s \ {Max(s)}] = f[s \ {Max(s)}]
        BY <2>3, <4>1
      <4> HIDE DEF g
      <4> QED BY <3>2, <4>2 DEF StartedOf
    <3> QED BY <3>1, <3>2
  <2>5. \A s \in Small(S, k + 1) : g[s] = StartedOf(base, q, g, s)
    BY <2>4
  <2>6. \E h : \A s \in Small(S, k + 1) : h[s] = StartedOf(base, q, h, s)
    <3> HIDE DEF g
    <3> QED BY <2>5
  <2> QED BY <2>6
<1>3. Nat \subseteq Good
  <2> HIDE DEF Good
  <2> QED BY <1>1, <1>2, EveryNatural
<1>4. Cardinality(S) \in Good /\ SUBSET S = Small(S, Cardinality(S))
  <2> HIDE DEF Good
  <2> QED BY <1>0, <1>3, AllAreSmall
<1>5. PICK f : \A s \in SUBSET S : f[s] = StartedOf(base, q, f, s)
  BY <1>4
<1> DEFINE h == [s \in SUBSET S |-> f[s]]
<1>6. \A s \in SUBSET S : StartedOf(base, q, f, s) = StartedOf(base, q, h, s)
  <2> TAKE s \in SUBSET S
  <2>1. h[s \ {Max(s)}] = f[s \ {Max(s)}]
    OBVIOUS
  <2> HIDE DEF h
  <2> QED BY <2>1 DEF StartedOf
<1>7. h = [s \in SUBSET S |-> StartedOf(base, q, h, s)]
  BY <1>5, <1>6
<1> HIDE DEF h
<1> QED BY <1>7 DEF S

(* Each element of a set is in it as a sequence.                             *)
LEMMA SetAsSeqHasAll ==
  ASSUME NEW S, IsFiniteSet(S)
  PROVE  \A x \in S : \E i \in 1..Cardinality(S) : SetToSeq(S)[i] = x
<1> DEFINE n == Cardinality(S)
           q == SetToSeq(S)
           R == {q[i] : i \in 1..n}
<1>1. n \in Nat /\ q \in [1..n -> S] /\ IsInjective(q)
  BY SetAsSeq
<1>2. IsFiniteSet(1..n) /\ Cardinality(1..n) = n
  BY <1>1, FS_Interval
<1> HIDE DEF q, n
<1>3. q \in Bijection(1..n, R)
  BY <1>1 DEF Bijection, Injection, Surjection, IsInjective
<1> HIDE DEF R
<1>4. Cardinality(R) = n
  <2>1. ExistsBijection(1..n, R)
    BY <1>3 DEF ExistsBijection
  <2> QED BY <1>2, <2>1, FS_Bijection
<1>5. R \subseteq S
  BY <1>1 DEF R
<1>6. R = S
  BY <1>4, <1>5, FS_Subset DEF n
<1> QED BY <1>6 DEF R, q, n

(* When all are started, the bytes of all are counted.                       *)
LEMMA AllAreStarted ==
  ASSUME Whole(tasks, io), NEW ts, AreFresh(ts, tasks)
  PROVE  /\ Whole(StartedAll(ts).tasks, StartedAll(ts).io)
         /\ DOMAIN StartedAll(ts).tasks = DOMAIN tasks \cup ts
<1> DEFINE q == SetToSeq(ts)
           n == Cardinality(ts)
           base == [tasks |-> tasks, io |-> io]
           Equation(h) == h = [s \in SUBSET DOMAIN q |-> IF s = {} THEN base ELSE LET x == Max(s) IN Started(h[s \ {x}], q[x])]
           iter == CHOOSE h : Equation(h)
           Begun(k) == {q[i] : i \in 1..k}
           Sound(k, started) == Whole(started.tasks, started.io) /\ DOMAIN started.tasks = DOMAIN tasks \cup Begun(k)
           Good == {k \in Nat : k <= n => Sound(k, iter[1..k])}
<1>1. n \in Nat /\ q \in [1..n -> ts] /\ IsInjective(q)
  BY SetAsSeq DEF AreFresh
<1>2. DOMAIN q = 1..n /\ \A i \in 1..n : q[i] \in ts
  BY <1>1
<1>3. StartedAll(ts) = iter[DOMAIN q]
  BY DEF StartedAll, FoldLeft, MapThenFoldSet
<1> HIDE DEF q, n, base
<1>4. PICK h : h = [s \in SUBSET (1..n) |-> StartedOf(base, q, h, s)]
  BY <1>1, SomeStarts
<1>5. Equation(h)
  BY <1>2, <1>4 DEF StartedOf
<1>6. Equation(iter)
  <2> HIDE DEF Equation
  <2> QED BY <1>5
<1> HIDE DEF iter
<1>7. \A s \in SUBSET (1..n) : iter[s] = StartedOf(base, q, iter, s)
  BY <1>2, <1>6 DEF StartedOf
<1>8. 0 \in Good
  <2>1. 1..0 = {}
    OBVIOUS
  <2>2. iter[1..0] = base
    BY <1>7, <2>1 DEF StartedOf
  <2>3. Begun(0) = {}
    BY <2>1
  <2>4. base.tasks = tasks /\ base.io = io
    BY DEF base
  <2> HIDE DEF Begun
  <2>5. Sound(0, base)
    BY <2>3, <2>4
  <2> QED BY <2>2, <2>5
<1>9. ASSUME NEW k \in Nat, k \in Good PROVE k + 1 \in Good
  <2> SUFFICES ASSUME k + 1 <= n PROVE Sound(k + 1, iter[1..(k + 1)])
    OBVIOUS
  <2>1. Sound(k, iter[1..k])
    BY <1>1, <1>9
  <2>2. Max(1..(k + 1)) = k + 1
    <3> DEFINE T == 1..(k + 1)
    <3>1. k + 1 \in T /\ \A y \in T : k + 1 >= y
      OBVIOUS
    <3>2. \A x \in T : (\A y \in T : x >= y) => x = k + 1
      OBVIOUS
    <3> HIDE DEF T
    <3> QED BY <3>1, <3>2 DEF Max
  <2>3. /\ 1..(k + 1) \in SUBSET (1..n) /\ 1..(k + 1) # {} /\ (1..(k + 1)) \ {k + 1} = 1..k
        /\ k + 1 \in 1..n /\ \A i \in 1..k : i \in 1..n /\ i # k + 1
    <3>0. n \in Nat
      BY <1>1
    <3>1. \A i \in 1..(k + 1) : i \in 1..n /\ (i # k + 1 => i \in 1..k)
      BY <3>0
    <3>2. \A i \in 1..k : i \in 1..(k + 1) /\ i \in 1..n /\ i # k + 1
      BY <3>0
    <3>3. k + 1 \in 1..(k + 1)
      OBVIOUS
    <3> QED BY <3>1, <3>2, <3>3
  <2>4. iter[1..(k + 1)] = Started(iter[1..k], q[k + 1])
    BY <1>7, <2>2, <2>3 DEF StartedOf
  <2> DEFINE t == q[k + 1]
             x == iter[1..k]
  <2>5. t \in ts /\ t \notin Begun(k)
    BY <1>1, <1>2, <2>3 DEF IsInjective
  <2>6. Begun(k + 1) = Begun(k) \cup {t}
    <3>1. \A i \in 1..(k + 1) : i \in 1..k \/ i = k + 1
      OBVIOUS
    <3>2. \A i \in 1..k : i \in 1..(k + 1)
      OBVIOUS
    <3> QED BY <2>3, <3>1, <3>2
  <2>7. Whole(x.tasks, x.io) /\ DOMAIN x.tasks = DOMAIN tasks \cup Begun(k)
    BY <2>1
  <2> HIDE DEF t, x, Begun
  <2>8. t[1] \in Kinds /\ t \notin DOMAIN x.tasks
    BY <2>5, <2>7 DEF AreFresh
  <2>9. Whole(Started(x, t).tasks, Started(x, t).io) /\ DOMAIN Started(x, t).tasks = DOMAIN x.tasks \cup {t}
    BY <2>7, <2>8, StartedIsWhole
  <2>10. Sound(k + 1, Started(x, t))
    BY <2>6, <2>7, <2>9
  <2> QED BY <2>4, <2>10 DEF t, x
<1>10. n \in Good
  <2> HIDE DEF Good
  <2> QED BY <1>1, <1>8, <1>9, EveryNatural
<1>11. Sound(n, iter[1..n])
  BY <1>1, <1>10
<1>12. Begun(n) = ts
  <2>1. \A t \in ts : \E i \in 1..n : q[i] = t
    <3>1. IsFiniteSet(ts)
      BY DEF AreFresh
    <3> QED BY <3>1, SetAsSeqHasAll DEF q, n
  <2> QED BY <1>2, <2>1
<1> HIDE DEF Begun
<1> QED BY <1>2, <1>3, <1>11, <1>12

-----------------------------------------------------------------------------
(* LanceReader: the invariant *)

(* Tasks of a kind start in one phase, when none of them is there.            *)
PhasesFollow ==
  /\ phase \in {"start", "ids"} => \A t \in DOMAIN tasks : t[1] = "ids"
  /\ phase = "deletions" => \A t \in DOMAIN tasks : t[1] # "file"
AddressesAreFound ==
  IsFiniteSet(DOMAIN addresses) /\ \A id \in DOMAIN addresses : addresses[id][1] \in DOMAIN Fragments
TakeIInv == take \in Takes /\ Whole(tasks, io) /\ AddressesAreFound /\ PhasesFollow

LEMMA WholeAfter ==
  ASSUME NEW ts, NEW c, Whole(ts, c), tasks' = ts, io' = c, take' = take
  PROVE  Whole(tasks, io)'
BY DEF Whole, HeldInAll

LEMMA AddressesStay ==
  ASSUME AddressesAreFound, UNCHANGED <<take, addresses>>
  PROVE  AddressesAreFound'
BY DEF AddressesAreFound, Fragments

(* At its end a call gives back what it has decoded.                         *)
LEMMA DecodedIsReturned ==
  ASSUME NEW ts, NEW c, Whole(ts, c)
  PROVE  Whole(ts, releaseDecodedMemory(c))
<1> DEFINE first == releaseMemory(c, c.decoded)
           d == releaseDecodedMemory(c)
<1>1. AreTasks(ts) /\ IsContext(c) /\ HeldInAll(ts, c)
  BY DEF Whole
<1>2. HeldBy(ts) \in Nat
  BY <1>1, LoadsAreNaturals, HeldIsSum, SumSplits
<1>3. /\ c.memory \in Nat /\ c.decoded \in Nat /\ c.decoded <= c.memory
      /\ c.memory - c.decoded = HeldBy(ts) /\ HeldBy(ts) <= take.budget.memory /\ take.budget.memory \in Nat
  BY <1>1, <1>2 DEF HeldInAll
<1>4. first = [requests |-> c.requests, bytes |-> c.bytes, memory |-> HeldBy(ts), decoded |-> c.decoded]
  BY <1>1, <1>3, Releases
<1>5. d = [first EXCEPT !.decoded = 0]
  BY DEF releaseDecodedMemory
<1> HIDE DEF first, d
<1>6. d = [requests |-> c.requests, bytes |-> c.bytes, memory |-> HeldBy(ts), decoded |-> 0]
  BY <1>4, <1>5
<1>7. IsContext(d) /\ d.memory = HeldBy(ts) /\ d.decoded = 0
  BY <1>6 DEF IsContext
<1>8. HeldInAll(ts, d)
  BY <1>2, <1>3, <1>7 DEF HeldInAll
<1> QED BY <1>1, <1>7, <1>8 DEF Whole, d

CallEnds == phase' = "over" /\ io' = releaseDecodedMemory(io)

LEMMA EndsWhole ==
  ASSUME Whole(tasks, io), CallEnds, UNCHANGED <<take, tasks>>
  PROVE  Whole(tasks, io)' /\ phase' = "over"
BY DecodedIsReturned, WholeAfter DEF CallEnds

(* An outcome of a task that is fine keeps all of them whole.                *)
LEMMA BecomesFine ==
  ASSUME Whole(tasks, io), NEW t \in DOMAIN tasks, NEW outcome, Fine(HeldByOthers(tasks, t), t, outcome),
         Becomes(t, outcome), take' = take
  PROVE  Whole(tasks, io)' /\ DOMAIN tasks' = DOMAIN tasks
<1>1. tasks' = Put(tasks, t, outcome.task)
  <2>1. tasks' = [tasks EXCEPT ![t] = outcome.task] /\ DOMAIN tasks \cup {t} = DOMAIN tasks
    BY DEF Becomes
  <2>2. tasks' = [x \in DOMAIN tasks |-> IF x = t THEN outcome.task ELSE tasks[x]]
    BY <2>1
  <2> QED BY <2>1, <2>2 DEF Put
<1>2. AreTasks(tasks) /\ t[1] \in Kinds
  BY DEF Whole, AreTasks
<1>3. Whole(Put(tasks, t, outcome.task), outcome.io)
  BY <1>2, TaskIsPut DEF Fine
<1>4. DOMAIN Put(tasks, t, outcome.task) = DOMAIN tasks
  BY DEF Put
<1> QED BY <1>1, <1>3, <1>4, WholeAfter DEF Becomes

(* Tasks that are started have the bytes of all counted.                     *)
LEMMA AwaitKeeps ==
  ASSUME Whole(tasks, io), NEW ts, AreFresh(ts, tasks), NEW next, Await(StartedAll(ts), next), take' = take
  PROVE  Whole(tasks, io)' /\ DOMAIN tasks' = DOMAIN tasks \cup ts /\ phase' = next
BY AllAreStarted, WholeAfter DEF Await

-----------------------------------------------------------------------------
(* LanceReader: every step keeps it *)

LEMMA TakeStarts == TakeInit => TakeIInv
<1> SUFFICES ASSUME TakeInit PROVE TakeIInv
  OBVIOUS
<1>1. take \in Takes /\ take.budget.memory \in Nat
  BY TakesAssumption DEF TakeInit
<1>2. DOMAIN <<>> = {} /\ tasks = <<>> /\ addresses = <<>> /\ phase = "start" /\ io = NoReads
  BY DEF TakeInit
<1>3. IsFiniteSet(DOMAIN tasks) /\ IsFiniteSet(DOMAIN addresses)
  BY <1>2, FS_EmptySet
<1>4. AreTasks(tasks)
  BY <1>2, <1>3 DEF AreTasks
<1>5. HeldBy(tasks) = 0
  BY <1>2, <1>3, HeldIsSum, SumEmpty
<1>6. IsContext(io) /\ io.memory = 0 /\ io.decoded = 0
  BY <1>2 DEF NoReads, IsContext
<1>7. HeldInAll(tasks, io)
  BY <1>1, <1>5, <1>6 DEF HeldInAll
<1> QED BY <1>1, <1>2, <1>3, <1>4, <1>6, <1>7 DEF TakeIInv, Whole, AddressesAreFound, PhasesFollow

LEMMA BeginKeeps ==
  ASSUME TakeIInv, Begin
  PROVE  TakeIInv'
<1>1. take' = take /\ addresses' = addresses /\ tasks' = tasks /\ phase = "start" /\ AddressesAreFound'
  BY AddressesStay DEF Begin, Throws, ThrowsWith, TakeIInv
<1>2. CASE CallEnds
  BY <1>1, <1>2, EndsWhole DEF TakeIInv, PhasesFollow
<1>3. CASE phase' = "ids" /\ UNCHANGED io
  <2>1. Whole(tasks, io)'
    BY <1>1, <1>3, WholeAfter DEF TakeIInv
  <2> QED BY <1>1, <1>3, <2>1 DEF TakeIInv, PhasesFollow
<1> QED BY <1>2, <1>3 DEF Begin, Throws, ThrowsWith, CallEnds

LEMMA ReadIdsKeeps ==
  ASSUME TakeIInv, ReadIds
  PROVE  TakeIInv'
<1> DEFINE ts == {<<"ids", cursor>>}
<1>1. AreFresh(ts, tasks)
  <2>1. IsFiniteSet(ts)
    BY FS_Singleton
  <2>2. <<"ids", cursor>>[1] = "ids" /\ <<"ids", cursor>> \notin DOMAIN tasks
    BY DEF ReadIds
  <2> QED BY <2>1, <2>2 DEF AreFresh, Kinds
<1>2. Await(StartedAll(ts), "ids") /\ phase = "ids" /\ UNCHANGED <<take, addresses>>
  BY DEF ReadIds
<1>3. \A t \in ts : t[1] = "ids"
  OBVIOUS
<1> HIDE DEF ts
<1>4. Whole(tasks, io)' /\ DOMAIN tasks' = DOMAIN tasks \cup ts /\ phase' = "ids"
  BY <1>1, <1>2, AwaitKeeps DEF TakeIInv
<1>5. PhasesFollow'
  BY <1>2, <1>3, <1>4 DEF TakeIInv, PhasesFollow
<1> QED BY <1>2, <1>4, <1>5, AddressesStay DEF TakeIInv

LEMMA ResolveIdsKeeps ==
  ASSUME TakeIInv, ResolveIds
  PROVE  TakeIInv'
<1>1. take' = take /\ tasks' = tasks /\ phase = "ids" /\ cursor \in DOMAIN Fragments
  BY DEF ResolveIds
<1> DEFINE fragment == Fragments[cursor]
           found == resolveRequestedRowIds(Missing, fragment.segments)
<1>2. CASE CallEnds /\ UNCHANGED addresses
  <2>1. AddressesAreFound'
    BY <1>1, <1>2, AddressesStay DEF TakeIInv
  <2> QED BY <1>1, <1>2, <2>1, EndsWhole DEF TakeIInv, PhasesFollow
<1>3. CASE /\ addresses' = [id \in DOMAIN addresses \cup DOMAIN found |->
                              IF id \in DOMAIN found THEN <<cursor, found[id]>> ELSE addresses[id]]
           /\ UNCHANGED <<phase, io>>
  <2>1. IsFiniteSet(ToSet(take.ids))
    BY TakesAssumption, ImageIsFinite DEF ToSet, TakeIInv
  <2>2. DOMAIN found \subseteq Missing
    BY DEF resolveRequestedRowIds
  <2> HIDE DEF found
  <2>3. IsFiniteSet(DOMAIN found)
    BY <2>1, <2>2, FS_Subset DEF Missing
  <2>4. IsFiniteSet(DOMAIN addresses \cup DOMAIN found)
    BY <2>3, FS_Union DEF TakeIInv, AddressesAreFound
  <2>5. DOMAIN addresses' = DOMAIN addresses \cup DOMAIN found
    BY <1>3
  <2>6. \A id \in DOMAIN addresses' : addresses'[id][1] \in DOMAIN Fragments
    BY <1>1, <1>3, <2>5 DEF TakeIInv, AddressesAreFound
  <2>7. AddressesAreFound'
    BY <1>1, <2>4, <2>5, <2>6 DEF AddressesAreFound, Fragments
  <2>8. Whole(tasks, io)'
    BY <1>1, <1>3, WholeAfter DEF TakeIInv
  <2> QED BY <1>1, <1>3, <2>7, <2>8 DEF TakeIInv, PhasesFollow
<1> QED BY <1>2, <1>3 DEF ResolveIds, Throws, ThrowsWith, CallEnds

LEMMA ReadDeletionsKeeps ==
  ASSUME TakeIInv, ReadDeletions
  PROVE  TakeIInv'
<1> DEFINE fragments == {addresses[id][1] : id \in DOMAIN addresses}
           some == {x \in fragments : Fragments[x].deletion.size > 0}
           ts == {<<"deletion", f>> : f \in some}
<1>1. Await(StartedAll(ts), "deletions") /\ phase = "ids" /\ UNCHANGED <<take, addresses>>
  BY DEF ReadDeletions
<1>2. IsFiniteSet(ts)
  <2> DEFINE fragment == [id \in DOMAIN addresses |-> addresses[id][1]]
             task == [f \in some |-> <<"deletion", f>>]
  <2>1. fragments = {fragment[id] : id \in DOMAIN addresses} /\ ts = {task[f] : f \in some}
    OBVIOUS
  <2> HIDE DEF fragment, task, ts
  <2>2. IsFiniteSet(fragments)
    BY <2>1, ImageIsFinite DEF TakeIInv, AddressesAreFound
  <2>3. IsFiniteSet(some)
    BY <2>2, FS_Subset
  <2> QED BY <2>1, <2>3, ImageIsFinite
<1>3. \A t \in ts : t[1] = "deletion"
  OBVIOUS
<1> HIDE DEF ts
<1>4. \A t \in DOMAIN tasks : t[1] = "ids"
  BY <1>1 DEF TakeIInv, PhasesFollow
<1>5. AreFresh(ts, tasks)
  BY <1>2, <1>3, <1>4 DEF AreFresh, Kinds
<1>6. Whole(tasks, io)' /\ DOMAIN tasks' = DOMAIN tasks \cup ts /\ phase' = "deletions"
  BY <1>1, <1>5, AwaitKeeps DEF TakeIInv
<1>7. PhasesFollow'
  BY <1>3, <1>4, <1>6 DEF PhasesFollow
<1> QED BY <1>1, <1>6, <1>7, AddressesStay DEF TakeIInv

(* The data files of some fragments are finitely many.                       *)
LEMMA FilesAreFinite ==
  ASSUME TakeIInv, NEW ids, ids \subseteq DOMAIN addresses
  PROVE  IsFiniteSet(FilesOf(ids)) /\ \A t \in FilesOf(ids) : t[1] = "file"
<1> DEFINE at == {addresses[id][1] : id \in ids}
           filesIn(f) == {<<"file", f, k>> : k \in DOMAIN Fragments[f].files}
           every == {filesIn(f) : f \in at}
<1>1. FilesOf(ids) \subseteq UNION every
  BY DEF FilesOf
<1>2. IsFiniteSet(at)
  <2> DEFINE fragment == [id \in ids |-> addresses[id][1]]
  <2>1. at = {fragment[id] : id \in ids}
    OBVIOUS
  <2>2. IsFiniteSet(ids)
    BY FS_Subset DEF TakeIInv, AddressesAreFound
  <2> HIDE DEF fragment, at
  <2> QED BY <2>1, <2>2, ImageIsFinite
<1>3. IsFiniteSet(every)
  <2> DEFINE filesOf == [f \in at |-> filesIn(f)]
  <2>1. every = {filesOf[f] : f \in at}
    OBVIOUS
  <2> HIDE DEF filesOf, at, every
  <2> QED BY <1>2, <2>1, ImageIsFinite
<1>4. ASSUME NEW f \in at PROVE IsFiniteSet(filesIn(f))
  <2>1. f \in DOMAIN Fragments /\ take \in Takes
    BY DEF TakeIInv, AddressesAreFound
  <2>2. IsFiniteSet(DOMAIN Fragments[f].files)
    BY <2>1, TakesAssumption DEF Fragments
  <2> DEFINE D == DOMAIN Fragments[f].files
             task == [k \in D |-> <<"file", f, k>>]
  <2>3. filesIn(f) = {task[k] : k \in D}
    OBVIOUS
  <2> HIDE DEF task, D, filesIn
  <2> QED BY <2>2, <2>3, ImageIsFinite DEF D
<1>5. IsFiniteSet(UNION every)
  BY <1>3, <1>4, FS_UNION
<1>6. \A t \in FilesOf(ids) : t[1] = "file"
  BY DEF FilesOf
<1> QED BY <1>1, <1>5, <1>6, FS_Subset

LEMMA ReadFilesKeeps ==
  ASSUME TakeIInv, ReadFiles
  PROVE  TakeIInv'
<1> DEFINE left == {id \in DOMAIN addresses : ~IsDeleted(id)}
           objected == {f \in {addresses[id][1] : id \in left} : Objections(f) # <<>>}
           sound == {id \in left : addresses[id][1] \notin objected}
           ts == FilesOf(sound)
           started == StartedAll(ts)
<1>1. /\ take' = take /\ phase = "deletions" /\ addresses' = [id \in left |-> addresses[id]]
      /\ left \subseteq DOMAIN addresses /\ sound \subseteq DOMAIN addresses
  BY DEF ReadFiles
<1>2. \/ CallEnds /\ UNCHANGED tasks
      \/ phase' = "over" /\ io' = releaseDecodedMemory(started.io) /\ tasks' = started.tasks
      \/ Await(started, "files")
  BY DEF ReadFiles, Throws, ThrowsWith, CallEnds
<1>3. IsFiniteSet(ts) /\ \A t \in ts : t[1] = "file"
  BY <1>1, FilesAreFinite
<1> HIDE DEF left, sound, ts
<1>4. AddressesAreFound'
  <2>1. IsFiniteSet(left)
    BY <1>1, FS_Subset DEF TakeIInv, AddressesAreFound
  <2>2. DOMAIN addresses' = left /\ \A id \in left : addresses'[id] = addresses[id]
    BY <1>1
  <2> QED BY <1>1, <2>1, <2>2 DEF TakeIInv, AddressesAreFound, Fragments
<1>5. AreFresh(ts, tasks)
  BY <1>1, <1>3 DEF AreFresh, Kinds, TakeIInv, PhasesFollow
<1>6. CASE CallEnds /\ UNCHANGED tasks
  BY <1>1, <1>4, <1>6, EndsWhole DEF TakeIInv, PhasesFollow
<1>7. CASE phase' = "over" /\ io' = releaseDecodedMemory(started.io) /\ tasks' = started.tasks
  <2>1. Whole(started.tasks, started.io)
    BY <1>5, AllAreStarted DEF TakeIInv
  <2> HIDE DEF started
  <2>2. Whole(tasks, io)'
    BY <1>1, <1>7, <2>1, DecodedIsReturned, WholeAfter
  <2> QED BY <1>1, <1>4, <1>7, <2>2 DEF TakeIInv, PhasesFollow
<1>8. CASE Await(started, "files")
  <2>1. Whole(tasks, io)' /\ phase' = "files"
    BY <1>1, <1>5, <1>8, AwaitKeeps DEF TakeIInv
  <2> QED BY <1>1, <1>4, <2>1 DEF TakeIInv, PhasesFollow
<1> QED BY <1>2, <1>6, <1>7, <1>8

LEMMA TaskStepKeeps ==
  ASSUME TakeIInv, NEW t \in DOMAIN tasks, Deliver(t) \/ Fail(t) \/ Continue(t)
  PROVE  TakeIInv'
<1> DEFINE others == HeldByOthers(tasks, t)
           k == tasks[t]
<1>1. UNCHANGED <<take, phase, addresses>>
  BY DEF Deliver, Fail, Continue
<1>2. Balanced(others, k, io) /\ Waits(t, k) /\ others \in Nat /\ t[1] \in Kinds /\ take \in Takes /\ IsFiniteSet(DOMAIN addresses)
  BY TaskIsOne, LoadsAreNaturals DEF TakeIInv, Whole, AreTasks, AddressesAreFound
<1> HIDE DEF others
<1>3. \E outcome : Fine(others, t, outcome) /\ Becomes(t, outcome)
  <2>1. CASE Deliver(t)
    <3>1. PICK range \in k.pending :
            Becomes(t, IF expired THEN Fails(k, io, "expired") ELSE [task |-> [k EXCEPT !.pending = @ \ {range}], io |-> io])
      BY <2>1 DEF Deliver
    <3>2. CASE expired
      <4>1. "expired" # "none"
        OBVIOUS
      <4> QED BY <1>2, <3>1, <3>2, <4>1, FailsFinely
    <3>3. CASE ~expired
      <4> DEFINE pending == k.pending \ {range}
                 m == [k EXCEPT !.pending = pending]
                 o == [task |-> m, io |-> io]
      <4>1. Becomes(t, o)
        BY <3>1, <3>3
      <4> HIDE DEF pending
      <4>2. m = [stage |-> k.stage, pending |-> pending, lease |-> k.lease, kept |-> k.kept, cells |-> k.cells, error |-> k.error]
        BY <1>2 DEF Balanced, IsTask
      <4>3. o.task = m /\ o.io = io
        OBVIOUS
      <4> HIDE DEF m, o
      <4>4. /\ IsTask(m) /\ m.lease = k.lease /\ m.kept = k.kept
            /\ m.stage = k.stage /\ m.cells = k.cells /\ m.error = k.error
        BY <4>2 DEF IsTask
      <4>5. Balanced(others, m, io)
        BY <1>2, <4>4, HoldsOnly
      <4>6. Waits(t, m)
        BY <1>2, <4>4 DEF Waits, Settled
      <4> QED BY <4>1, <4>3, <4>5, <4>6 DEF Fine
    <3> QED BY <3>2, <3>3
  <2>2. CASE Fail(t)
    <3>1. "failed" # "none"
      OBVIOUS
    <3> QED BY <1>2, <2>2, <3>1, FailsFinely DEF Fail
  <2>3. CASE Continue(t)
    <3>1. ~Settled(k) /\ Becomes(t, Continued(t, Processed(t, k, io)))
      BY <2>3 DEF Continue
    <3>2. Ready(others, Processed(t, k, io))
      BY <1>2, <3>1, ProcessedIsReady
    <3> QED BY <1>2, <3>1, <3>2, ContinuedIsFine
  <2> QED BY <2>1, <2>2, <2>3
<1>4. Whole(tasks, io)' /\ DOMAIN tasks' = DOMAIN tasks
  BY <1>1, <1>3, BecomesFine DEF TakeIInv, others
<1>5. PhasesFollow'
  BY <1>1, <1>4 DEF TakeIInv, PhasesFollow
<1> QED BY <1>1, <1>4, <1>5, AddressesStay DEF TakeIInv

LEMMA EndKeeps ==
  ASSUME TakeIInv, Return \/ Reject
  PROVE  TakeIInv'
<1>1. UNCHANGED <<take, tasks, addresses>> /\ CallEnds
  BY DEF Return, Reject, Throws, ThrowsWith, CallEnds
<1>2. Whole(tasks, io)' /\ phase' = "over"
  BY <1>1, EndsWhole DEF TakeIInv
<1> QED BY <1>1, <1>2, AddressesStay DEF TakeIInv, PhasesFollow

LEMMA ExpireKeeps ==
  ASSUME TakeIInv, Expire \/ UNCHANGED takeVars
  PROVE  TakeIInv'
<1>1. UNCHANGED <<take, tasks, io, addresses, phase>>
  BY DEF Expire, takeVars
<1>2. Whole(tasks, io)'
  BY <1>1, WholeAfter DEF TakeIInv
<1> QED BY <1>1, <1>2, AddressesStay DEF TakeIInv, PhasesFollow

(* Of every call of takeRows, whatever reads fail, in whatever order they are   *)
(* answered: the reads under way have a stage of their kind, and the memory of *)
(* the context is what all of them hold and what is decoded.                 *)
THEOREM TakesAreWhole == TakeSpec => []TakeIInv
<1>1. TakeIInv /\ [TakeNext]_takeVars => TakeIInv'
  BY BeginKeeps, ReadIdsKeeps, ResolveIdsKeeps, ReadDeletionsKeeps, ReadFilesKeeps, EndKeeps, ExpireKeeps, TaskStepKeeps DEF TakeNext
<1> QED BY <1>1, TakeStarts, PTL DEF TakeSpec

(* The leases of reads are given back on every path: the memory that is counted *)
(* is that of the leases held and the values decoded, and within the budget.  *)
THEOREM LeasesReturned == TakeSpec => []LeasesAreReturned
<1>1. TakeIInv => LeasesAreReturned
  BY DEF TakeIInv, Whole, HeldInAll, LeasesAreReturned
<1> QED BY <1>1, TakesAreWhole, PTL
=============================================================================
