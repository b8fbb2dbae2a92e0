------------------------ MODULE TaskCheckpointProofs ------------------------
(***************************************************************************)
(* Proofs about TaskCheckpoint, for every set of tasks, workers and keys,  *)
(* every number of files and every clock.                                  *)
(***************************************************************************)
EXTENDS TaskCheckpoint, TLAPS

(* A checkpoint of task t that is safe to store while the store holds O: it  *)
(* has outputs exactly when its stage says so, and then the whole list of    *)
(* its key, all of it in O.                                                  *)
Whole(t, c, O) ==
  /\ c.state # "absent" => c.key \in Key
  /\ c.state \in OutputStages => c.outputs = PathsOf(t, c.key) /\ c.outputs \subseteq O
  /\ c.state \notin OutputStages => c.outputs = NoOutputs

(* What an active call knows of the store O and of its task's checkpoint K:  *)
(* its outputs are those of its own key, the files before ord are written,   *)
(* all of them once it is past writing, and by then the task has a           *)
(* checkpoint.  A put that is decided stores a whole checkpoint.             *)
CallSound(c, O, K) ==
  /\ c.entries = PathsOf(c.task, c.key)
  /\ c.next \notin OutputStages => c.ord = 1
  /\ c.pc \in {"check", "write"} =>
       /\ c.next = "output-written"
       /\ c.ord \in Ordinal
       /\ \A o \in Ordinal : o < c.ord => <<c.task, c.key, o>> \in O
  /\ c.pc \in {"advance", "persist"} /\ c.next \in OutputStages =>
       PathsOf(c.task, c.key) \subseteq O
  /\ c.next \in OutputStages => K.state # "absent"
  /\ c.pc = "persist" =>
       /\ Whole(c.task, c.read, O)
       /\ Accepts(c.read, InputOf(c))
       /\ c.next \in OutputStages => c.read.state # "absent"

CheckpointsWhole == \A t \in Task : Whole(t, ck[t], objs)

CallsSound ==
  \A w \in Worker : Active(w) => CallSound(call[w], objs, ck[call[w].task])

IInv ==
  /\ TypeOK
  /\ CheckpointsWhole
  /\ ReturnedOutputsExist
  /\ CallsSound

-----------------------------------------------------------------------------
(* Types of the operators the actions are built from. *)

LEMMA StateRankValues ==
  /\ stateRank \in [Stages -> 0..4]
  /\ stateRank["planned"] = 0 /\ stateRank["running"] = 1
  /\ stateRank["output-written"] = 2 /\ stateRank["manifest-recorded"] = 3
  /\ stateRank["complete"] = 4
BY DEF stateRank, Stages

LEMMA AbsentType == Absent \in Checkpoint
BY DEF Absent, Checkpoint, Outputs

LEMMA PathsType ==
  ASSUME NEW t \in Task, NEW k \in Key
  PROVE  PathsOf(t, k) \in Outputs
BY DEF PathsOf, Outputs, Path

LEMMA IdleCallType == IdleCall \in Call
<1>1. (CHOOSE t \in Task : TRUE) \in Task /\ (CHOOSE k \in Key : TRUE) \in Key
  BY ConstantsAssumption
<1> QED
  BY <1>1, AbsentType DEF IdleCall, Call, Phases, Modes, Stages, Outputs

LEMMA InputType ==
  ASSUME NEW c \in Call
  PROVE  InputOf(c) \in TransitionInput
<1>1. c.now + stateRank[c.next] \in Nat
  BY StateRankValues DEF Call
<1>2. NoOutputs \in Outputs /\ c.entries \in Outputs
  BY DEF Outputs, Call
<1> QED
  BY <1>1, <1>2 DEF InputOf, TransitionInput, Call

LEMMA TransitionType ==
  ASSUME NEW existing \in Checkpoint, NEW in \in TransitionInput
  PROVE  transitionTaskCheckpoint(existing, in) \in Checkpoint
<1>1. createCheckpoint(in) \in Checkpoint
  BY DEF createCheckpoint, Checkpoint, TransitionInput
<1>2. [createCheckpoint(in) EXCEPT !.outputs = existing.outputs] \in Checkpoint
  BY <1>1 DEF Checkpoint
<1> QED
  BY <1>1, <1>2 DEF transitionTaskCheckpoint

LEMMA StartedType ==
  ASSUME TypeOK, NEW t \in Task, NEW k \in Key, NEW mode \in Modes, NEW takeover \in BOOLEAN
  PROVE  Started(t, k, mode, takeover) \in Call
<1>1. ck[t] \in Checkpoint /\ clock \in Nat
  BY ConstantsAssumption DEF TypeOK
<1>2. FirstStage(ck[t], k) \in Stages
  BY DEF FirstStage, Stages
<1>3. (IF ResumesRecording(ck[t], k) THEN ck[t].outputs ELSE PathsOf(t, k)) \in Outputs
  BY <1>1, PathsType DEF Checkpoint
<1> QED
  BY <1>1, <1>2, <1>3, AbsentType DEF Started, Call, Phases

LEMMA RejectedType ==
  ASSUME NEW c \in Call
  PROVE  Rejected(c) \in Call
BY IdleCallType DEF Rejected, Call, Phases

LEMMA AfterPersistType ==
  ASSUME NEW c \in Call
  PROVE  AfterPersist(c) \in Call
<1>1. FilePhase(c) \in Phases
  BY DEF FilePhase, Phases
<1>2. c.next \in Stages
  BY DEF Call
<1>3. CASE c.next = "planned"
  BY <1>3, AbsentType DEF AfterPersist, Call, Phases, Stages
<1>4. CASE c.next = "running"
  BY <1>4, <1>1, AbsentType DEF AfterPersist, Call, Stages
<1>5. CASE c.next = "output-written"
  BY <1>5, AbsentType DEF AfterPersist, Call, Phases, Stages
<1>6. CASE c.next = "manifest-recorded"
  BY <1>6, AbsentType DEF AfterPersist, Call, Phases, Stages
<1>7. CASE c.next = "complete"
  BY <1>7, IdleCallType DEF AfterPersist
<1> QED
  BY <1>2, <1>3, <1>4, <1>5, <1>6, <1>7 DEF Stages

-----------------------------------------------------------------------------
(* Type correctness. *)

LEMMA InitTypeOK == Init => TypeOK
BY ConstantsAssumption, AbsentType, IdleCallType DEF Init, TypeOK

LEMMA StartTypeOK ==
  ASSUME TypeOK, NEW w \in Worker, NEW t \in Task, NEW k \in Key, NEW mode \in Modes,
         NEW takeover \in BOOLEAN, Start(w, t, k, mode, takeover)
  PROVE  TypeOK'
<1>1. Started(t, k, mode, takeover) \in Call
  BY StartedType
<1>2. \A v \in Worker : [call[v] EXCEPT !.alone = FALSE] \in Call
  BY DEF TypeOK, Call
<1>3. call' \in [Worker -> Call]
  BY <1>1, <1>2, IdleCallType DEF Start, TypeOK
<1>4. Ack(t, k, ck[t].outputs) \in [task: Task, key: Key, entries: Outputs]
  BY DEF Ack, TypeOK, Checkpoint
<1> QED
  BY <1>3, <1>4 DEF Start, TypeOK

LEMMA PersistTypeOK ==
  ASSUME TypeOK, NEW w \in Worker, Persist(w)
  PROVE  TypeOK'
<1>1. call[w] \in Call
  BY DEF TypeOK
<1>2. transitionTaskCheckpoint(call[w].read, InputOf(call[w])) \in Checkpoint
  BY <1>1, InputType, TransitionType DEF Call
<1>3. AfterPersist(call[w]) \in Call
  BY <1>1, AfterPersistType
<1>4. Ack(call[w].task, call[w].key, call[w].entries) \in
        [task: Task, key: Key, entries: Outputs]
  BY <1>1 DEF Ack, Call
<1> QED
  BY <1>1, <1>2, <1>3, <1>4 DEF Persist, TypeOK

(* The file a call writes is one of its own only because its ordinal is in   *)
(* range, so typing a step needs what the call knows.                        *)
LEMMA NextTypeOK == IInv /\ [Next]_vars => TypeOK'
<1> SUFFICES ASSUME IInv, [Next]_vars PROVE TypeOK'
  OBVIOUS
<1>0. TypeOK /\ CallsSound
  BY DEF IInv
<1>1. CASE Tick
  BY <1>0, <1>1 DEF Tick, TypeOK
<1>2. ASSUME NEW w \in Worker, NEW t \in Task, NEW k \in Key, NEW mode \in Modes,
             NEW takeover \in BOOLEAN, Start(w, t, k, mode, takeover)
      PROVE  TypeOK'
  BY <1>0, <1>2, StartTypeOK
<1>3. ASSUME NEW w \in Worker, Advance(w) PROVE TypeOK'
  <2>1. call[w] \in Call /\ ck[call[w].task] \in Checkpoint
    BY <1>0 DEF TypeOK, Call
  <2>2. [call[w] EXCEPT !.pc = "persist", !.read = ck[call[w].task]] \in Call
    BY <2>1 DEF Call, Phases
  <2>3. Rejected(call[w]) \in Call
    BY <2>1, RejectedType
  <2> QED
    BY <1>0, <1>3, <2>2, <2>3 DEF Advance, TypeOK
<1>4. ASSUME NEW w \in Worker, Persist(w) PROVE TypeOK'
  BY <1>0, <1>4, PersistTypeOK
<1>5. ASSUME NEW w \in Worker, CheckAbsent(w) PROVE TypeOK'
  <2>1. Rejected(call[w]) \in Call /\ [call[w] EXCEPT !.pc = "write"] \in Call
    BY <1>0, RejectedType DEF TypeOK, Call, Phases
  <2> QED
    BY <1>0, <1>5, <2>1 DEF CheckAbsent, TypeOK
<1>6. ASSUME NEW w \in Worker, WriteFile(w) PROVE TypeOK'
  <2>0. CallSound(call[w], objs, ck[call[w].task])
    BY <1>0, <1>6 DEF WriteFile, Active, CallsSound
  <2>1. call[w] \in Call
    BY <1>0 DEF TypeOK
  <2>2. PathAt(call[w]) \in Path
    BY <1>6, <2>0, <2>1 DEF CallSound, WriteFile, PathAt, Path, Call
  <2>3. /\ (IF call[w].ord >= NFiles THEN "advance" ELSE FilePhase(call[w])) \in Phases
        /\ call[w].ord + 1 \in Nat
    BY <2>1 DEF Call, Phases, FilePhase
  <2> QED
    BY <1>0, <1>6, <2>1, <2>2, <2>3 DEF WriteFile, TypeOK, Call
<1>7. ASSUME NEW w \in Worker, Crash(w) PROVE TypeOK'
  BY <1>0, <1>7, IdleCallType DEF Crash, TypeOK
<1>8. CASE UNCHANGED vars
  BY <1>0, <1>8 DEF vars, TypeOK
<1> QED
  BY <1>1, <1>2, <1>3, <1>4, <1>5, <1>6, <1>7, <1>8 DEF Next

-----------------------------------------------------------------------------
(* What a put stores. *)

(* The checkpoint a decided put stores is whole, belongs to the call's key   *)
(* and is at the stage the call advances to.                                 *)
LEMMA TransitionWhole ==
  ASSUME NEW c \in Call, NEW O, NEW K, CallSound(c, O, K), c.pc = "persist"
  PROVE  LET new == transitionTaskCheckpoint(c.read, InputOf(c))
         IN  new.state = c.next /\ new.key = c.key /\ Whole(c.task, new, O)
<1> DEFINE in == InputOf(c)
           new == transitionTaskCheckpoint(c.read, in)
<1>1. /\ in \in TransitionInput /\ c.read \in Checkpoint /\ new \in Checkpoint
      /\ in.state = c.next /\ in.key = c.key
      /\ in.outputs = IF c.next = "output-written" THEN c.entries ELSE NoOutputs
      /\ in.takeover => c.next \in {"planned", "running"}
  BY InputType, TransitionType DEF Call, InputOf
<1>2. /\ c.entries = PathsOf(c.task, c.key) /\ c.entries # NoOutputs
      /\ c.next \in OutputStages => c.entries \subseteq O /\ c.read.state # "absent"
      /\ Whole(c.task, c.read, O) /\ Accepts(c.read, in)
  BY ConstantsAssumption DEF CallSound, PathsOf, NoOutputs, Path, Call
<1>3. c.next \in Stages /\ c.key \in Key
  BY DEF Call
<1>4. new.state = c.next /\ new.key = c.key
  BY <1>1 DEF transitionTaskCheckpoint, createCheckpoint, Replays, Checkpoint
<1>5. CASE c.read.state = "absent"
  <2>1. c.next \in {"planned", "running"}
    BY <1>2, <1>3, <1>5 DEF Stages, OutputStages
  <2>2. new.outputs = NoOutputs
    BY <1>1, <1>5, <2>1 DEF transitionTaskCheckpoint, createCheckpoint
  <2> QED
    BY <1>3, <1>4, <2>1, <2>2 DEF Whole, OutputStages
<1>6. CASE c.read.state # "absent" /\ Replays(c.read, in)
  BY <1>2, <1>4, <1>6 DEF transitionTaskCheckpoint
<1>7. CASE c.read.state # "absent" /\ ~Replays(c.read, in)
  <2>1. transitionAllowed(c.read.state, c.next, Stale(c.read, in))
    BY <1>1, <1>2, <1>7 DEF Accepts
  <2>2. c.read.state \in Stages
    BY <1>1, <1>7 DEF Checkpoint
  <2>3. CASE c.next \in {"planned", "running"}
    <3>1. in.outputs = NoOutputs
      BY <1>1, <2>3
    <3>2. stateRank[c.next] > stateRank[c.read.state] => c.read.outputs = NoOutputs
      BY <1>2, <2>2, <2>3, StateRankValues DEF Whole, Stages, OutputStages
    <3>3. new.outputs = NoOutputs
      BY <1>1, <1>7, <3>1, <3>2 DEF transitionTaskCheckpoint, createCheckpoint
    <3> QED
      BY <1>3, <1>4, <2>3, <3>3 DEF Whole, OutputStages
  <2>4. CASE c.next = "output-written"
    <3>1. new.outputs = c.entries
      BY <1>1, <1>2, <1>7, <2>4 DEF transitionTaskCheckpoint, createCheckpoint
    <3> QED
      BY <1>2, <1>3, <1>4, <2>4, <3>1 DEF Whole, OutputStages
  <2>5. CASE c.next \in {"manifest-recorded", "complete"}
    <3>1. ~Stale(c.read, in) /\ c.read.key = c.key
      BY <1>1, <1>2, <1>7, <2>5 DEF Accepts, Stale
    <3>2. stateRank[c.next] = stateRank[c.read.state] + 1
      BY <2>1, <3>1, <2>5 DEF transitionAllowed
    <3>3. c.read.state \in OutputStages
      BY <2>2, <2>5, <3>2, StateRankValues DEF Stages, OutputStages
    <3>4. stateRank[c.next] > stateRank[c.read.state]
      BY <2>2, <1>3, <3>2, StateRankValues
    <3>5. new.outputs = c.read.outputs
      BY <1>1, <1>7, <2>5, <3>4 DEF transitionTaskCheckpoint, createCheckpoint
    <3> QED
      BY <1>2, <1>3, <1>4, <2>5, <3>1, <3>3, <3>5 DEF Whole, OutputStages
  <2> QED
    BY <1>3, <2>3, <2>4, <2>5 DEF Stages
<1> QED
  BY <1>4, <1>5, <1>6, <1>7

(* Nothing a call knows is undone while the store grows and checkpoints stay. *)
LEMMA CallSoundGrows ==
  ASSUME NEW c, NEW O, NEW K, NEW O2, NEW K2, CallSound(c, O, K),
         O \subseteq O2, K.state # "absent" => K2.state # "absent"
  PROVE  CallSound(c, O2, K2)
BY DEF CallSound, Whole

LEMMA WholeGrows ==
  ASSUME NEW t, NEW c, NEW O, NEW O2, Whole(t, c, O), O \subseteq O2
  PROVE  Whole(t, c, O2)
BY DEF Whole

-----------------------------------------------------------------------------
(* The invariant is inductive. *)

LEMMA InitIInv == Init => IInv
<1> SUFFICES ASSUME Init PROVE IInv
  OBVIOUS
<1>1. TypeOK
  BY InitTypeOK
<1>2. CheckpointsWhole
  BY DEF Init, CheckpointsWhole, Whole, Absent, OutputStages
<1>3. ReturnedOutputsExist
  BY DEF Init, ReturnedOutputsExist
<1>4. CallsSound
  BY DEF Init, CallsSound, Active, IdleCall
<1> QED
  BY <1>1, <1>2, <1>3, <1>4 DEF IInv

(* A step of one worker that touches neither checkpoints nor results keeps   *)
(* the invariant if the worker's own call stays sound.                       *)
LEMMA OwnStep ==
  ASSUME IInv, NEW w \in Worker, UNCHANGED <<ck, acked>>, objs \subseteq objs',
         \A v \in Worker \ {w} : call'[v] = call[v],
         Active(w)' => CallSound(call'[w], objs', ck'[call'[w].task])
  PROVE  CheckpointsWhole' /\ ReturnedOutputsExist' /\ CallsSound'
<1>1. CheckpointsWhole'
  BY WholeGrows DEF IInv, CheckpointsWhole
<1>2. ReturnedOutputsExist'
  BY DEF IInv, ReturnedOutputsExist
<1>3. ASSUME NEW v \in Worker, Active(v)'
      PROVE  CallSound(call'[v], objs', ck'[call'[v].task])
  <2>1. CASE v = w
    BY <1>3, <2>1
  <2>2. CASE v # w
    <3>1. CallSound(call[v], objs, ck[call[v].task])
      BY <1>3, <2>2 DEF IInv, CallsSound, Active
    <3> QED
      BY <2>2, <3>1, CallSoundGrows
  <2> QED
    BY <2>1, <2>2
<1>4. CallsSound'
  BY <1>3 DEF CallsSound
<1> QED
  BY <1>1, <1>2, <1>4

LEMMA StartIInv ==
  ASSUME IInv, NEW w \in Worker, NEW t \in Task, NEW k \in Key, NEW mode \in Modes,
         NEW takeover \in BOOLEAN, Start(w, t, k, mode, takeover)
  PROVE  CheckpointsWhole' /\ ReturnedOutputsExist' /\ CallsSound'
<1>1. CheckpointsWhole'
  BY DEF IInv, CheckpointsWhole, Start
<1>2. ck[t] \in Checkpoint /\ Whole(t, ck[t], objs)
  BY DEF IInv, TypeOK, CheckpointsWhole
<1>3. ReturnedOutputsExist'
  <2>1. CASE ReturnsAtOnce(ck[t], k)
    <3>1. ck[t].key = k /\ ck[t].state \in OutputStages
      BY <2>1 DEF ReturnsAtOnce, checkpointOutputs, OutputStages
    <3>2. ck[t].outputs = PathsOf(t, k) /\ ck[t].outputs \subseteq objs
      BY <1>2, <3>1 DEF Whole
    <3>3. acked' = acked \cup {Ack(t, k, ck[t].outputs)} /\ objs' = objs
      BY <2>1 DEF Start
    <3> QED
      BY <3>2, <3>3 DEF IInv, ReturnedOutputsExist, Ack
  <2>2. CASE ~ReturnsAtOnce(ck[t], k)
    BY <2>2 DEF Start, IInv, ReturnedOutputsExist
  <2> QED
    BY <2>1, <2>2
<1>4. CallSound(Started(t, k, mode, takeover), objs, ck[t])
  <2> DEFINE c == Started(t, k, mode, takeover)
  <2>1. /\ c.pc = "advance" /\ c.task = t /\ c.key = k /\ c.ord = 1
        /\ c.next = FirstStage(ck[t], k)
        /\ c.entries = IF ResumesRecording(ck[t], k) THEN ck[t].outputs ELSE PathsOf(t, k)
    BY DEF Started
  <2>2. CASE ResumesRecording(ck[t], k)
    <3>1. ck[t].key = k /\ ck[t].state \in OutputStages
      BY <2>2 DEF ResumesRecording, checkpointOutputs, OutputStages
    <3>2. ck[t].outputs = PathsOf(t, k) /\ ck[t].outputs \subseteq objs /\ ck[t].state # "absent"
      BY <1>2, <3>1 DEF Whole, OutputStages
    <3> QED
      BY <2>1, <2>2, <3>2 DEF CallSound
  <2>3. CASE ~ResumesRecording(ck[t], k)
    BY <2>1, <2>3 DEF CallSound, FirstStage, OutputStages
  <2> QED
    BY <2>2, <2>3
<1>5. ASSUME NEW v \in Worker, Active(v)'
      PROVE  CallSound(call'[v], objs', ck'[call'[v].task])
  <2>1. ck' = ck /\ objs' = objs /\ call'[v].pc \in {"advance", "persist", "check", "write"}
    BY <1>5 DEF Start, Active
  <2>2. CASE v = w
    <3>1. ~ReturnsAtOnce(ck[t], k)
      BY <2>1, <2>2 DEF Start, IdleCall
    <3>2. call'[v] = Started(t, k, mode, takeover)
      BY <2>2, <3>1 DEF Start
    <3>3. call'[v].task = t
      BY <3>2 DEF Started
    <3> QED
      BY <1>4, <2>1, <3>2, <3>3
  <2>3. CASE v # w
    <3>1. call[v] \in Call
      BY DEF IInv, TypeOK
    <3>2. call'[v] \in {call[v], [call[v] EXCEPT !.alone = FALSE]}
      BY <2>3 DEF Start
    <3>3. Active(v) /\ CallSound(call[v], objs, ck[call[v].task])
      BY <2>1, <3>1, <3>2 DEF IInv, CallsSound, Active, Call
    <3>4. CASE call'[v] = call[v]
      BY <2>1, <3>3, <3>4
    <3>5. CASE call'[v] = [call[v] EXCEPT !.alone = FALSE]
      <4>1. /\ InputOf(call'[v]) = InputOf(call[v])
            /\ call'[v].pc = call[v].pc /\ call'[v].task = call[v].task
            /\ call'[v].key = call[v].key /\ call'[v].next = call[v].next
            /\ call'[v].ord = call[v].ord /\ call'[v].entries = call[v].entries
            /\ call'[v].read = call[v].read
        BY <3>1, <3>5 DEF Call, InputOf
      <4> QED
        BY <2>1, <3>3, <4>1 DEF CallSound
    <3> QED
      BY <3>2, <3>4, <3>5
  <2> QED
    BY <2>2, <2>3
<1>6. CallsSound'
  BY <1>5 DEF CallsSound
<1> QED
  BY <1>1, <1>3, <1>6

LEMMA AdvanceIInv ==
  ASSUME IInv, NEW w \in Worker, Advance(w)
  PROVE  CheckpointsWhole' /\ ReturnedOutputsExist' /\ CallsSound'
<1> DEFINE c == call[w]
           existing == ck[c.task]
<1>1. /\ c \in Call /\ existing \in Checkpoint
      /\ Whole(c.task, existing, objs)
      /\ c.pc = "advance" /\ CallSound(c, objs, existing)
  BY DEF IInv, TypeOK, CheckpointsWhole, CallsSound, Advance, Active, Call
<1>2. CASE Accepts(existing, InputOf(c))
  <2>1. call'[w] = [c EXCEPT !.pc = "persist", !.read = existing]
    BY <1>1, <1>2 DEF Advance, IInv, TypeOK
  <2>2. /\ call'[w].pc = "persist" /\ call'[w].read = existing
        /\ call'[w].task = c.task /\ call'[w].key = c.key /\ call'[w].next = c.next
        /\ call'[w].ord = c.ord
        /\ call'[w].entries = c.entries /\ InputOf(call'[w]) = InputOf(c)
    BY <1>1, <2>1 DEF Call, InputOf
  <2>3. CallSound(call'[w], objs', ck'[call'[w].task])
    BY <1>1, <1>2, <2>2 DEF CallSound, Advance
  <2> QED
    BY <2>3, OwnStep DEF Advance, IInv, TypeOK
<1>3. CASE ~Accepts(existing, InputOf(c))
  <2>1. call'[w].pc = "rejected"
    BY <1>1, <1>3 DEF Advance, IInv, TypeOK, Rejected, IdleCall
  <2> QED
    BY <2>1, OwnStep DEF Advance, IInv, TypeOK, Active
<1> QED
  BY <1>2, <1>3

(* The step that follows a put leaves the call sound. *)
LEMMA AfterPersistSound ==
  ASSUME NEW c \in Call, NEW O, NEW K, NEW K2, CallSound(c, O, K),
         c.pc = "persist", c.next # "complete", K2.state # "absent"
  PROVE  CallSound(AfterPersist(c), O, K2)
<1> DEFINE d == AfterPersist(c)
<1>1. c.next \in Stages /\ c.entries = PathsOf(c.task, c.key)
  BY DEF Call, CallSound
<1>2. CASE c.next = "planned"
  <2>1. /\ d.pc = "advance" /\ d.next = "running" /\ d.entries = c.entries
        /\ d.task = c.task /\ d.key = c.key /\ d.ord = c.ord
    BY <1>2 DEF AfterPersist, Call
  <2> QED
    BY <1>1, <1>2, <2>1 DEF CallSound, OutputStages
<1>3. CASE c.next = "running"
  <2>1. /\ d.pc = FilePhase(c) /\ d.next = "output-written" /\ d.entries = c.entries
        /\ d.task = c.task /\ d.key = c.key /\ d.ord = c.ord /\ c.ord = 1
    BY <1>3 DEF AfterPersist, Call, CallSound, OutputStages
  <2>2. CASE NFiles = 0
    <3>1. d.pc = "advance" /\ PathsOf(c.task, c.key) = {}
      BY <2>1, <2>2 DEF FilePhase, PathsOf, Ordinal
    <3> QED
      BY <1>1, <2>1, <3>1 DEF CallSound, OutputStages
  <2>3. CASE NFiles # 0
    <3>1. d.pc \in {"check", "write"}
      BY <2>1, <2>3 DEF FilePhase
    <3>2. 1 \in Ordinal /\ \A o \in Ordinal : ~(o < 1)
      BY <2>3, ConstantsAssumption DEF Ordinal
    <3> QED
      BY <1>1, <2>1, <3>1, <3>2 DEF CallSound, OutputStages
  <2> QED
    BY <2>2, <2>3
<1>4. CASE c.next \in {"output-written", "manifest-recorded"}
  <2>1. /\ d.pc = "advance" /\ d.next \in {"manifest-recorded", "complete"}
        /\ d.entries = c.entries /\ d.task = c.task /\ d.key = c.key
    BY <1>4 DEF AfterPersist, Call
  <2>2. PathsOf(c.task, c.key) \subseteq O
    BY <1>4 DEF CallSound, OutputStages
  <2> QED
    BY <1>1, <2>1, <2>2 DEF CallSound, OutputStages
<1> QED
  BY <1>1, <1>2, <1>3, <1>4 DEF Stages

LEMMA PersistIInv ==
  ASSUME IInv, NEW w \in Worker, Persist(w)
  PROVE  CheckpointsWhole' /\ ReturnedOutputsExist' /\ CallsSound'
<1> DEFINE c == call[w]
           new == transitionTaskCheckpoint(c.read, InputOf(c))
<1>1. /\ c \in Call /\ c.pc = "persist" /\ c.task \in Task /\ c.key \in Key
      /\ CallSound(c, objs, ck[c.task])
  BY DEF IInv, TypeOK, CallsSound, Persist, Active, Call
<1>2. new.state = c.next /\ new.key = c.key /\ Whole(c.task, new, objs)
  BY <1>1, TransitionWhole
<1>3. /\ objs' = objs
      /\ ck' = [ck EXCEPT ![c.task] = new]
      /\ call' = [call EXCEPT ![w] = AfterPersist(c)]
  BY DEF Persist
<1>4. ck'[c.task] = new /\ \A t \in Task \ {c.task} : ck'[t] = ck[t]
  BY <1>1, <1>3 DEF IInv, TypeOK
<1>5. ck'[c.task].state # "absent"
  BY <1>1, <1>2, <1>4 DEF Call, Stages
<1>6. CheckpointsWhole'
  BY <1>2, <1>3, <1>4 DEF CheckpointsWhole, IInv
<1>7. ReturnedOutputsExist'
  <2>1. CASE c.next = "complete"
    <3>1. c.entries = PathsOf(c.task, c.key) /\ c.entries \subseteq objs
      BY <1>1, <2>1 DEF CallSound, OutputStages
    <3>2. acked' = acked \cup {Ack(c.task, c.key, c.entries)}
      BY <2>1 DEF Persist
    <3> QED
      BY <1>3, <3>1, <3>2 DEF IInv, ReturnedOutputsExist, Ack
  <2>2. CASE c.next # "complete"
    BY <1>3, <2>2 DEF Persist, IInv, ReturnedOutputsExist
  <2> QED
    BY <2>1, <2>2
<1>8. ASSUME NEW v \in Worker, Active(v)'
      PROVE  CallSound(call'[v], objs', ck'[call'[v].task])
  <2>1. CASE v = w
    <3>1. call'[v] = AfterPersist(c)
      BY <1>3, <2>1 DEF IInv, TypeOK
    <3>2. c.next # "complete"
      BY <1>8, <3>1 DEF AfterPersist, IdleCall, Active
    <3>3. AfterPersist(c).task = c.task
      BY <1>1, <3>2 DEF AfterPersist, Call, Stages
    <3>4. CallSound(AfterPersist(c), objs, ck'[c.task])
      BY <1>1, <1>5, <3>2, AfterPersistSound
    <3> QED
      BY <1>3, <3>1, <3>3, <3>4
  <2>2. CASE v # w
    <3>1. call'[v] = call[v] /\ call[v] \in Call
      BY <1>3, <2>2 DEF IInv, TypeOK
    <3>2. CallSound(call[v], objs, ck[call[v].task])
      BY <1>8, <3>1 DEF IInv, CallsSound, Active
    <3>3. call[v].task \in Task
      BY <3>1 DEF Call
    <3>4. ck[call[v].task].state # "absent" => ck'[call[v].task].state # "absent"
      BY <1>4, <1>5, <3>3
    <3> QED
      BY <1>3, <3>1, <3>2, <3>4, CallSoundGrows
  <2> QED
    BY <2>1, <2>2
<1>9. CallsSound'
  BY <1>8 DEF CallsSound
<1> QED
  BY <1>6, <1>7, <1>9

LEMMA CheckAbsentIInv ==
  ASSUME IInv, NEW w \in Worker, CheckAbsent(w)
  PROVE  CheckpointsWhole' /\ ReturnedOutputsExist' /\ CallsSound'
<1> DEFINE c == call[w]
<1>1. /\ c \in Call /\ c.pc = "check" /\ CallSound(c, objs, ck[c.task])
  BY DEF IInv, TypeOK, CallsSound, CheckAbsent, Active
<1>2. CASE PathAt(c) \in objs
  <2>1. call'[w].pc = "rejected"
    BY <1>2 DEF CheckAbsent, IInv, TypeOK, Rejected, IdleCall
  <2> QED
    BY <2>1, OwnStep DEF CheckAbsent, IInv, TypeOK, Active
<1>3. CASE PathAt(c) \notin objs
  <2>1. call'[w] = [c EXCEPT !.pc = "write"]
    BY <1>3 DEF CheckAbsent, IInv, TypeOK
  <2>2. /\ call'[w].pc = "write"
        /\ call'[w].task = c.task /\ call'[w].key = c.key /\ call'[w].next = c.next
        /\ call'[w].ord = c.ord /\ call'[w].entries = c.entries
    BY <1>1, <2>1 DEF Call
  <2>3. CallSound(call'[w], objs', ck'[call'[w].task])
    BY <1>1, <2>2 DEF CallSound, CheckAbsent
  <2> QED
    BY <2>3, OwnStep DEF CheckAbsent, IInv, TypeOK
<1> QED
  BY <1>2, <1>3

LEMMA WriteFileIInv ==
  ASSUME IInv, NEW w \in Worker, WriteFile(w)
  PROVE  CheckpointsWhole' /\ ReturnedOutputsExist' /\ CallsSound'
<1> DEFINE c == call[w]
           d == call'[w]
<1>1. /\ c \in Call /\ c.pc = "write" /\ CallSound(c, objs, ck[c.task])
  BY DEF IInv, TypeOK, CallsSound, WriteFile, Active
<1>2. /\ c.next = "output-written" /\ c.ord \in Ordinal /\ c.ord \in Nat /\ NFiles \in Nat
      /\ c.entries = PathsOf(c.task, c.key)
      /\ \A o \in Ordinal : o < c.ord => <<c.task, c.key, o>> \in objs
      /\ ck[c.task].state # "absent"
  BY <1>1, ConstantsAssumption DEF CallSound, Ordinal, OutputStages
<1>3. /\ d.pc = IF c.ord >= NFiles THEN "advance" ELSE FilePhase(c)
      /\ d.ord = c.ord + 1 /\ d.task = c.task /\ d.key = c.key
      /\ d.next = c.next /\ d.entries = c.entries
  BY <1>1 DEF WriteFile, IInv, TypeOK, Call
<1>4. objs' = objs \cup {<<c.task, c.key, c.ord>>} /\ ck' = ck
  BY DEF WriteFile, PathAt
<1>5. \A o \in Ordinal : o < c.ord + 1 => <<c.task, c.key, o>> \in objs'
  BY <1>2, <1>4 DEF Ordinal
<1>6. CASE c.ord >= NFiles
  <2>1. \A o \in Ordinal : o < c.ord + 1
    BY <1>2, <1>6 DEF Ordinal
  <2>2. PathsOf(c.task, c.key) \subseteq objs'
    BY <1>5, <2>1 DEF PathsOf
  <2>3. d.pc = "advance"
    BY <1>3, <1>6
  <2>4. CallSound(d, objs', ck'[d.task])
    BY <1>2, <1>3, <1>4, <2>2, <2>3 DEF CallSound, OutputStages
  <2> QED
    BY <1>4, <2>4, OwnStep DEF WriteFile, IInv, TypeOK
<1>7. CASE ~(c.ord >= NFiles)
  <2>1. c.ord + 1 \in Ordinal /\ d.pc \in {"check", "write"}
    BY <1>2, <1>3, <1>7 DEF Ordinal, FilePhase
  <2>2. CallSound(d, objs', ck'[d.task])
    BY <1>2, <1>3, <1>4, <1>5, <2>1 DEF CallSound, OutputStages
  <2> QED
    BY <1>4, <2>2, OwnStep DEF WriteFile, IInv, TypeOK
<1> QED
  BY <1>6, <1>7

LEMMA NextIInv == IInv /\ [Next]_vars => IInv'
<1> SUFFICES ASSUME IInv, [Next]_vars PROVE IInv'
  OBVIOUS
<1>0. TypeOK'
  BY NextTypeOK
<1> SUFFICES CheckpointsWhole' /\ ReturnedOutputsExist' /\ CallsSound'
  BY <1>0 DEF IInv
<1>1. CASE Tick
  BY <1>1 DEF Tick, IInv, CheckpointsWhole, ReturnedOutputsExist, CallsSound, Active
<1>2. ASSUME NEW w \in Worker, NEW t \in Task, NEW k \in Key, NEW mode \in Modes,
             NEW takeover \in BOOLEAN, Start(w, t, k, mode, takeover)
      PROVE  CheckpointsWhole' /\ ReturnedOutputsExist' /\ CallsSound'
  BY <1>2, StartIInv
<1>3. ASSUME NEW w \in Worker, Advance(w)
      PROVE  CheckpointsWhole' /\ ReturnedOutputsExist' /\ CallsSound'
  BY <1>3, AdvanceIInv
<1>4. ASSUME NEW w \in Worker, Persist(w)
      PROVE  CheckpointsWhole' /\ ReturnedOutputsExist' /\ CallsSound'
  BY <1>4, PersistIInv
<1>5. ASSUME NEW w \in Worker, CheckAbsent(w)
      PROVE  CheckpointsWhole' /\ ReturnedOutputsExist' /\ CallsSound'
  BY <1>5, CheckAbsentIInv
<1>6. ASSUME NEW w \in Worker, WriteFile(w)
      PROVE  CheckpointsWhole' /\ ReturnedOutputsExist' /\ CallsSound'
  BY <1>6, WriteFileIInv
<1>7. ASSUME NEW w \in Worker, Crash(w)
      PROVE  CheckpointsWhole' /\ ReturnedOutputsExist' /\ CallsSound'
  <2>1. ~Active(w)'
    BY <1>7 DEF Crash, Active, IdleCall, IInv, TypeOK
  <2> QED
    BY <1>7, <2>1, OwnStep DEF Crash, IInv, TypeOK
<1>8. CASE UNCHANGED vars
  BY <1>8 DEF vars, IInv, CheckpointsWhole, ReturnedOutputsExist, CallsSound, Active
<1> QED
  BY <1>1, <1>2, <1>3, <1>4, <1>5, <1>6, <1>7, <1>8 DEF Next

-----------------------------------------------------------------------------
(* Every reachable state satisfies the inductive invariant. *)
THEOREM Invariance == Spec => []IInv
BY InitIInv, NextIInv, PTL DEF Spec

(* Type correctness. *)
THEOREM TypeCorrect == Spec => []TypeOK
<1>1. IInv => TypeOK
  BY DEF IInv
<1> QED
  BY <1>1, Invariance, PTL

(* No interleaving of duplicate workers, crashes, retries and takeovers      *)
(* leaves a task at output-written or later with a partial list of outputs,  *)
(* the outputs of another key, or outputs that are not in the store.         *)
THEOREM OutputsWhole == Spec => []RecordedOutputsAreWhole
<1>1. IInv => RecordedOutputsAreWhole
  BY DEF IInv, CheckpointsWhole, Whole, RecordedOutputsAreWhole
<1> QED
  BY <1>1, Invariance, PTL

(* What writePartitionedParquetTask returned is in the store for good.       *)
THEOREM ReturnedWhole == Spec => []ReturnedOutputsExist
<1>1. IInv => ReturnedOutputsExist
  BY DEF IInv
<1> QED
  BY <1>1, Invariance, PTL

(* The output manifest of a job is sound: existing objects, one key per      *)
(* task, every completed task of the job whose id carries the marker.        *)
THEOREM ManifestSound == Spec => []ManifestIsSound
<1>1. ASSUME IInv PROVE ManifestIsSound
  <2>1. ASSUME NEW t \in Task, ck[t].outputs # NoOutputs
        PROVE  ck[t].outputs = PathsOf(t, ck[t].key) /\ ck[t].outputs \subseteq objs
    BY <1>1, <2>1 DEF IInv, CheckpointsWhole, Whole
  <2>2. ASSUME NEW t \in Task, ck[t].state = "complete"
        PROVE  ck[t].outputs = PathsOf(t, ck[t].key) /\ ck[t].outputs # NoOutputs
    <3>1. ck[t].outputs = PathsOf(t, ck[t].key) /\ ck[t].key \in Key
      BY <1>1, <2>2 DEF IInv, CheckpointsWhole, Whole, OutputStages
    <3>2. NoPath \notin PathsOf(t, ck[t].key)
      BY <3>1, ConstantsAssumption DEF PathsOf, Path
    <3> QED
      BY <3>1, <3>2 DEF NoOutputs
  <2> SUFFICES ASSUME NEW j \in Job
               PROVE  /\ OutputManifest(j) \subseteq objs
                      /\ \A p, q \in OutputManifest(j) : p[1] = q[1] => p[2] = q[2]
                      /\ \A t \in MarkedTask : JobOf[t] = j /\ ck[t].state = "complete" =>
                           PathsOf(t, ck[t].key) \subseteq OutputManifest(j)
    BY DEF ManifestIsSound
  <2>3. \A p \in OutputManifest(j) : \E t \in Task :
          p \in PathsOf(t, ck[t].key) /\ p \in objs
    BY <2>1 DEF OutputManifest
  <2>4. OutputManifest(j) \subseteq objs
    BY <2>3
  <2>5. \A p \in OutputManifest(j) : p[2] = ck[p[1]].key
    BY <2>3 DEF PathsOf
  <2>6. ASSUME NEW t \in MarkedTask, JobOf[t] = j, ck[t].state = "complete"
        PROVE  PathsOf(t, ck[t].key) \subseteq OutputManifest(j)
    BY <2>2, <2>6, ConstantsAssumption DEF OutputManifest, jobIdFromTaskId
  <2> QED
    BY <2>4, <2>5, <2>6
<1> QED
  BY <1>1, Invariance, PTL

(* Only a put changes a checkpoint, and one decided from the checkpoint it   *)
(* replaces moves it one stage under the same key or restarts a stale one.   *)
LEMMA FreshPutStep ==
  ASSUME IInv, [Next]_vars, NEW w \in Worker, NEW t \in Task, FreshPut(w, t)
  PROVE  \/ ck[t].state = "absent" /\ ck'[t].state \in {"planned", "running"}
         \/ ck[t].state # "absent" /\ (OneStage(ck[t], ck'[t]) \/ StaleRestart(ck[t], ck'[t]))
<1> DEFINE c == call[w]
           in == InputOf(c)
           new == transitionTaskCheckpoint(c.read, in)
<1>1. Persist(w)
  <2>1. ck' # ck /\ call'[w] # call[w]
    BY DEF FreshPut
  <2>2. PICK v \in Worker : Persist(v)
    BY <2>1 DEF Next, vars, Tick, Start, Advance, CheckAbsent, WriteFile, Crash
  <2>3. v = w
    BY <2>1, <2>2 DEF Persist, IInv, TypeOK
  <2> QED
    BY <2>2, <2>3
<1>2. /\ c \in Call /\ c.pc = "persist" /\ c.task = t /\ c.read = ck[t]
      /\ CallSound(c, objs, ck[c.task]) /\ ck'[t] = new /\ new # c.read
  BY <1>1 DEF FreshPut, IInv, TypeOK, CallsSound, Active, Persist
<1>3. new.state = c.next /\ new.key = c.key /\ Accepts(c.read, in)
  BY <1>2, TransitionWhole DEF CallSound
<1>4. /\ in \in TransitionInput /\ c.read \in Checkpoint /\ c.next \in Stages
      /\ in.state = c.next /\ in.key = c.key
      /\ in.takeover => c.next \in {"planned", "running"}
  BY <1>2, InputType DEF Call, InputOf
<1>5. CASE c.read.state = "absent"
  <2>1. c.next \notin OutputStages
    BY <1>2, <1>5 DEF CallSound
  <2> QED
    BY <1>2, <1>3, <1>4, <1>5, <2>1 DEF Stages, OutputStages
<1>6. CASE c.read.state # "absent"
  <2>1. ~Replays(c.read, in)
    BY <1>2, <1>6 DEF transitionTaskCheckpoint
  <2>2. new.at = in.at
    BY <1>6, <2>1 DEF transitionTaskCheckpoint, createCheckpoint
  <2>3. /\ c.read.key = in.key \/ Stale(c.read, in)
        /\ transitionAllowed(c.read.state, in.state, Stale(c.read, in))
    BY <1>3, <1>6, <2>1 DEF Accepts
  <2>4. CASE in.state = "running" /\ Stale(c.read, in)
    BY <1>2, <1>3, <1>4, <1>6, <2>2, <2>4 DEF Stale, StaleRestart
  <2>5. CASE ~(in.state = "running" /\ Stale(c.read, in))
    <3>1. stateRank[c.next] = stateRank[c.read.state] + 1
      BY <1>4, <2>3, <2>5 DEF transitionAllowed
    <3>2. c.read.state \in Stages
      BY <1>4, <1>6 DEF Checkpoint
    <3>3. ~Stale(c.read, in)
      BY <1>4, <2>5, <3>1, <3>2, StateRankValues DEF Stale, Stages
    <3> QED
      BY <1>2, <1>3, <1>4, <1>6, <2>3, <3>1, <3>3 DEF OneStage
  <2> QED
    BY <2>4, <2>5
<1> QED
  BY <1>5, <1>6

(* A put decided from the checkpoint it replaces never skips a stage, moves  *)
(* back or changes the owner of a checkpoint that is not stale.              *)
THEOREM FreshPutsAreOrdered == Spec => FreshPutsMoveOneStage
<1>1. IInv /\ [Next]_vars =>
        [\A w \in Worker, t \in Task : FreshPut(w, t) =>
           \/ ck[t].state = "absent" /\ ck'[t].state \in {"planned", "running"}
           \/ ck[t].state # "absent" /\ (OneStage(ck[t], ck'[t]) \/ StaleRestart(ck[t], ck'[t]))
        ]_vars
  BY FreshPutStep
<1> QED
  BY <1>1, Invariance, PTL DEF Spec, FreshPutsMoveOneStage

-----------------------------------------------------------------------------
(* Retries that run alone *)

Lone(c) == c.alone /\ c.fits

(* The stages a checkpoint can be at when a lone call puts the next one.     *)
Before(next) ==
  CASE next = "planned" -> {"absent", "planned"}
    [] next = "running" -> {"planned", "running"}
    [] next = "output-written" -> {"running"}
    [] next = "manifest-recorded" -> {"output-written"}
    [] next = "complete" -> {"manifest-recorded"}

(* A lone call finds the checkpoint where it left it, under its own key; and  *)
(* one that found manifest-recorded has nothing left but complete.           *)
Ready(c, K) ==
  /\ c.recorded => c.next = "complete"
  /\ c.pc \in {"advance", "check", "write"} =>
       K.state \in Before(c.next) /\ (K.state # "absent" => K.key = c.key)

LoneCallsAreReady == \A w \in Worker : Active(w) /\ Lone(call[w]) => Ready(call[w], ck[call[w].task])

(* No other call of its task overlaps a call that is alone.                  *)
LoneMeansAlone ==
  \A v, w \in Worker : v # w /\ Active(v) /\ Active(w) /\ call[v].task = call[w].task => ~call[v].alone

ChecksAreCreates == \A w \in Worker : call[w].pc = "check" => call[w].mode = "create"

LoneInv == LoneCallsAreReady /\ LoneMeansAlone /\ ChecksAreCreates /\ LoneRetrySucceeds

(* The stages before the next are those from which it is accepted.           *)
LEMMA ReadyIsAccepted ==
  ASSUME NEW c \in Call, NEW K \in Checkpoint, Ready(c, K), c.pc = "advance"
  PROVE  Accepts(K, InputOf(c))
<1>1. InputOf(c).state = c.next /\ InputOf(c).key = c.key /\ c.next \in Stages
  BY DEF InputOf, Call
<1>2. K.state \in Before(c.next) /\ (K.state # "absent" => K.key = c.key)
  BY DEF Ready
<1>3. ASSUME K.state # "absent", K.state # c.next PROVE stateRank[c.next] = stateRank[K.state] + 1
  BY <1>1, <1>2, <1>3, StateRankValues DEF Before, Stages
<1> QED BY <1>1, <1>2, <1>3 DEF Accepts, Replays, transitionAllowed

(* A call that starts with its own key, or none, finds such a stage.         *)
LEMMA StartedIsReady ==
  ASSUME IInv, NEW t \in Task, NEW k \in Key, NEW mode \in Modes, NEW takeover \in BOOLEAN,
         ~ReturnsAtOnce(ck[t], k), Started(t, k, mode, takeover).fits
  PROVE  Ready(Started(t, k, mode, takeover), ck[t])
<1> DEFINE c == Started(t, k, mode, takeover)
           K == ck[t]
<1>1. /\ c.pc = "advance" /\ c.key = k /\ c.next = FirstStage(K, k) /\ (c.recorded <=> K.state = "manifest-recorded")
      /\ K.key \in {k, NoKey}
  BY DEF Started
<1>2. K \in Checkpoint /\ Whole(t, K, objs)
  BY DEF IInv, TypeOK, CheckpointsWhole
<1>3. K.state # "absent" => K.key = k
  BY <1>1, <1>2, ConstantsAssumption DEF Whole
<1>4. K.state \in OutputStages => checkpointOutputs(K, k) # NoOutputs
  <2>1. NoPath \notin PathsOf(t, k)
    BY ConstantsAssumption DEF PathsOf, Path
  <2> QED BY <1>2, <1>3, <2>1 DEF Whole, OutputStages, checkpointOutputs, NoOutputs
<1>5. K.state # "complete"
  BY <1>4 DEF ReturnsAtOnce, OutputStages
<1>6. K.state \in Stages \cup {"absent"}
  BY <1>2 DEF Checkpoint
<1>7. K.state \in Before(c.next) /\ (c.recorded => c.next = "complete")
  BY <1>1, <1>4, <1>5, <1>6 DEF FirstStage, ResumesRecording, OutputStages, Before, Stages
<1> QED BY <1>1, <1>3, <1>7 DEF Ready

(* After its put a lone call finds the checkpoint where it left it.          *)
LEMMA AfterPersistIsReady ==
  ASSUME NEW c \in Call, NEW K, c.recorded => c.next = "complete", c.next # "complete",
         K.state = c.next, K.key = c.key
  PROVE  /\ Ready(AfterPersist(c), K)
         /\ AfterPersist(c).pc = "check" => AfterPersist(c).mode = "create"
         /\ AfterPersist(c).pc # "rejected"
         /\ AfterPersist(c).task = c.task /\ AfterPersist(c).alone = c.alone /\ AfterPersist(c).fits = c.fits
<1> DEFINE d == AfterPersist(c)
<1>1. c.next \in Stages /\ ~c.recorded /\ c.recorded \in BOOLEAN /\ FilePhase(c) # "rejected"
      /\ (FilePhase(c) = "check" => c.mode = "create")
  BY DEF Call, FilePhase
<1>2. CASE c.next = "planned"
  BY <1>1, <1>2 DEF AfterPersist, Call, Ready, Before
<1>3. CASE c.next = "running"
  <2>1. /\ d.pc = FilePhase(c) /\ d.next = "output-written" /\ d.recorded = c.recorded /\ d.mode = c.mode
        /\ d.key = c.key /\ d.task = c.task /\ d.alone = c.alone /\ d.fits = c.fits
    BY <1>3 DEF AfterPersist, Call
  <2> QED BY <1>1, <1>3, <2>1 DEF Ready, Before
<1>4. CASE c.next = "output-written"
  BY <1>1, <1>4 DEF AfterPersist, Call, Ready, Before
<1>5. CASE c.next = "manifest-recorded"
  BY <1>1, <1>5 DEF AfterPersist, Call, Ready, Before
<1> QED BY <1>1, <1>2, <1>3, <1>4, <1>5 DEF Stages

(* A step of one call keeps the invariant if that call stays ready and no     *)
(* lone call of another worker finds its checkpoint changed.                *)
LEMMA OneCallChanges ==
  ASSUME LoneInv, NEW w \in Worker,
         \A v \in Worker \ {w} : call'[v] = call[v],
         \A v \in Worker \ {w} :
           Active(v) /\ Lone(call[v]) => ck'[call[v].task] = ck[call[v].task],
         Active(w)' => Active(w) /\ call'[w].task = call[w].task /\ call'[w].alone = call[w].alone,
         Active(w)' /\ Lone(call'[w]) => Ready(call'[w], ck'[call'[w].task]),
         call'[w].pc = "check" => call'[w].mode = "create",
         call'[w].pc = "rejected" /\ Lone(call'[w]) => call'[w].mode = "create"
  PROVE  LoneInv'
<1>1. \A v \in Worker \ {w} : Active(v)' <=> Active(v)
  BY DEF Active
<1>2. LoneCallsAreReady'
  <2> SUFFICES ASSUME NEW v \in Worker, Active(v)', Lone(call'[v]) PROVE Ready(call'[v], ck'[call'[v].task])
    BY DEF LoneCallsAreReady
  <2>1. CASE v = w
    BY <2>1
  <2>2. CASE v # w
    BY <1>1, <2>2 DEF LoneInv, LoneCallsAreReady
  <2> QED BY <2>1, <2>2
<1>3. LoneMeansAlone'
  <2> SUFFICES ASSUME NEW u \in Worker, NEW v \in Worker, u # v, Active(u)', Active(v)', call'[u].task = call'[v].task
               PROVE  ~call'[u].alone
    BY DEF LoneMeansAlone
  <2>1. Active(u) /\ call'[u].task = call[u].task /\ call'[u].alone = call[u].alone
    BY <1>1
  <2>2. Active(v) /\ call'[v].task = call[v].task
    BY <1>1
  <2> QED BY <2>1, <2>2 DEF LoneInv, LoneMeansAlone
<1>4. ChecksAreCreates' /\ LoneRetrySucceeds'
  BY DEF LoneInv, ChecksAreCreates, LoneRetrySucceeds, Lone
<1> QED BY <1>2, <1>3, <1>4 DEF LoneInv

LEMMA StartKeepsLone ==
  ASSUME IInv, LoneInv, NEW w \in Worker, NEW t \in Task, NEW k \in Key, NEW mode \in Modes,
         NEW takeover \in BOOLEAN, Start(w, t, k, mode, takeover)
  PROVE  LoneInv'
<1> DEFINE c == Started(t, k, mode, takeover)
           starts == ~ReturnsAtOnce(ck[t], k)
<1>1. ck' = ck /\ ~Active(w) /\ call \in [Worker -> Call]
  BY DEF Start, IInv, TypeOK
<1>2. call'[w] = IF starts THEN c ELSE IdleCall
  BY DEF Start
<1>3. ASSUME NEW v \in Worker, v # w
      PROVE  /\ Active(v)' <=> Active(v)
             /\ call'[v].task = call[v].task /\ call'[v].pc = call[v].pc /\ call'[v].mode = call[v].mode
             /\ call'[v].alone => call[v].alone
             /\ Active(v) /\ call[v].task = t => ~call'[v].alone
             /\ call'[v].alone => call'[v] = call[v]
  <2>1. call'[v] = IF Active(v) /\ call[v].task = t THEN [call[v] EXCEPT !.alone = FALSE] ELSE call[v]
    BY <1>3 DEF Start
  <2>2. call[v] \in Call
    BY <1>1
  <2> QED BY <2>1, <2>2 DEF Active, Call
<1>4. /\ c.pc = "advance" /\ c.task = t
      /\ c.alone <=> \A v \in Worker : ~(Active(v) /\ call[v].task = t)
  BY DEF Started
<1>5. IdleCall.pc = "idle"
  BY DEF IdleCall
<1>6. Active(w)' <=> starts
  BY <1>2, <1>4, <1>5 DEF Active
<1> HIDE DEF c, starts
<1>7. LoneCallsAreReady'
  <2> SUFFICES ASSUME NEW v \in Worker, Active(v)', Lone(call'[v]) PROVE Ready(call'[v], ck[call'[v].task])
    BY <1>1 DEF LoneCallsAreReady
  <2>1. CASE v = w
    <3>1. starts /\ call'[v] = c /\ c.fits
      BY <1>2, <1>6, <2>1 DEF Lone
    <3>2. Ready(c, ck[t])
      BY <3>1, StartedIsReady DEF c, starts
    <3> QED BY <1>4, <3>1, <3>2
  <2>2. CASE v # w
    <3>1. Active(v) /\ call'[v] = call[v]
      BY <1>3, <2>2 DEF Lone
    <3> QED BY <3>1 DEF LoneInv, LoneCallsAreReady
  <2> QED BY <2>1, <2>2
<1>8. LoneMeansAlone'
  <2> SUFFICES ASSUME NEW u \in Worker, NEW v \in Worker, u # v, Active(u)', Active(v)', call'[u].task = call'[v].task
               PROVE  ~call'[u].alone
    BY DEF LoneMeansAlone
  <2>1. CASE u = w
    <3>1. starts /\ call'[u] = c /\ Active(v) /\ call[v].task = t
      BY <1>2, <1>3, <1>4, <1>6, <2>1
    <3> QED BY <1>4, <3>1
  <2>2. CASE v = w
    <3>1. starts /\ call'[v] = c /\ Active(u) /\ call[u].task = t
      BY <1>2, <1>3, <1>4, <1>6, <2>2
    <3> QED BY <1>3, <2>2, <3>1
  <2>3. CASE u # w /\ v # w
    BY <1>3, <2>3 DEF LoneInv, LoneMeansAlone
  <2> QED BY <2>1, <2>2, <2>3
<1>9. ChecksAreCreates'
  BY <1>2, <1>3, <1>4, <1>5 DEF LoneInv, ChecksAreCreates
<1>10. LoneRetrySucceeds'
  BY <1>2, <1>3, <1>4, <1>5 DEF LoneInv, LoneRetrySucceeds
<1> QED BY <1>7, <1>8, <1>9, <1>10 DEF LoneInv

(* A lone call's advance is accepted; one that is rejected is not lone.      *)
LEMMA AdvanceKeepsLone ==
  ASSUME IInv, LoneInv, NEW w \in Worker, Advance(w)
  PROVE  LoneInv'
<1> DEFINE c == call[w]
           K == ck[c.task]
<1>1. /\ c \in Call /\ c.pc = "advance" /\ c.task \in Task /\ K \in Checkpoint /\ ck' = ck
      /\ \A v \in Worker \ {w} : call'[v] = call[v]
      /\ call'[w] = IF Accepts(K, InputOf(c)) THEN [c EXCEPT !.pc = "persist", !.read = K] ELSE Rejected(c)
  BY DEF Advance, IInv, TypeOK, Call
<1>2. Active(w)
  BY <1>1 DEF Active
<1>3. CASE Accepts(K, InputOf(c))
  <2>1. /\ call'[w].pc = "persist" /\ call'[w].task = c.task /\ call'[w].alone = c.alone /\ call'[w].fits = c.fits
        /\ call'[w].recorded = c.recorded /\ call'[w].next = c.next
    BY <1>1, <1>3 DEF Call
  <2>2. Lone(call'[w]) => Ready(call'[w], ck'[call'[w].task])
    BY <1>1, <1>2, <2>1 DEF LoneInv, LoneCallsAreReady, Lone, Ready
  <2> QED BY <1>1, <1>2, <2>1, <2>2, OneCallChanges
<1>4. CASE ~Accepts(K, InputOf(c))
  <2>1. call'[w].pc = "rejected" /\ call'[w].alone = c.alone /\ call'[w].fits = c.fits
    BY <1>1, <1>4 DEF Rejected, IdleCall
  <2>2. ~Lone(c)
    BY <1>1, <1>2, <1>4, ReadyIsAccepted DEF LoneInv, LoneCallsAreReady
  <2>3. ~Active(w)' /\ ~Lone(call'[w])
    BY <2>1, <2>2 DEF Active, Lone
  <2> QED BY <1>1, <2>1, <2>3, OneCallChanges
<1> QED BY <1>3, <1>4

(* A put changes the checkpoint of no lone call but its own.                 *)
LEMMA PersistKeepsLone ==
  ASSUME IInv, LoneInv, NEW w \in Worker, Persist(w)
  PROVE  LoneInv'
<1> DEFINE c == call[w]
           new == transitionTaskCheckpoint(c.read, InputOf(c))
<1>1. /\ c \in Call /\ c.pc = "persist" /\ c.task \in Task /\ CallSound(c, objs, ck[c.task]) /\ Active(w)
  BY DEF IInv, TypeOK, CallsSound, Persist, Active, Call
<1>2. new.state = c.next /\ new.key = c.key
  BY <1>1, TransitionWhole
<1>3. /\ ck'[c.task] = new /\ \A t \in Task \ {c.task} : ck'[t] = ck[t]
      /\ call'[w] = AfterPersist(c) /\ \A v \in Worker \ {w} : call'[v] = call[v]
  BY <1>1 DEF Persist, IInv, TypeOK
<1> HIDE DEF new
<1>4. ASSUME NEW v \in Worker \ {w}, Active(v), Lone(call[v]) PROVE ck'[call[v].task] = ck[call[v].task]
  <2>1. call[v].task \in Task /\ call[v].task # c.task
    BY <1>1, <1>4 DEF LoneInv, LoneMeansAlone, Lone, IInv, TypeOK, Call
  <2> QED BY <1>3, <2>1
<1>5. CASE c.next = "complete"
  <2>1. call'[w] = IdleCall
    BY <1>3, <1>5 DEF AfterPersist
  <2>2. call'[w].pc = "idle"
    BY <2>1 DEF IdleCall
  <2> QED BY <1>3, <1>4, <2>2, OneCallChanges DEF Active
<1>6. CASE c.next # "complete"
  <2>1. AfterPersist(c).task = c.task /\ AfterPersist(c).alone = c.alone /\ AfterPersist(c).fits = c.fits
        /\ (AfterPersist(c).pc = "check" => AfterPersist(c).mode = "create") /\ AfterPersist(c).pc # "rejected"
    <3>1. FilePhase(c) # "rejected" /\ (FilePhase(c) = "check" => c.mode = "create") /\ c.next \in Stages
      BY <1>1 DEF FilePhase, Call
    <3>2. CASE c.next = "running"
      BY <1>1, <3>1, <3>2 DEF AfterPersist, Call
    <3>3. CASE c.next \in {"planned", "output-written", "manifest-recorded"}
      BY <1>1, <3>3 DEF AfterPersist, Call
    <3> QED BY <1>6, <3>1, <3>2, <3>3 DEF Stages
  <2>2. ASSUME Lone(c) PROVE Ready(AfterPersist(c), new)
    <3>1. c.recorded => c.next = "complete"
      BY <1>1, <2>2 DEF LoneInv, LoneCallsAreReady, Ready
    <3> QED BY <1>1, <1>2, <1>6, <3>1, AfterPersistIsReady
  <2>3. Lone(call'[w]) => Ready(call'[w], ck'[call'[w].task])
    BY <1>3, <2>1, <2>2 DEF Lone
  <2> HIDE DEF c
  <2> QED BY <1>1, <1>3, <1>4, <2>1, <2>3, OneCallChanges DEF c
<1> QED BY <1>5, <1>6

(* Only a call in create mode looks for files that are there.               *)
LEMMA FilesKeepLone ==
  ASSUME IInv, LoneInv, NEW w \in Worker, CheckAbsent(w) \/ WriteFile(w)
  PROVE  LoneInv'
<1> DEFINE c == call[w]
           d == call'[w]
<1>1. /\ c \in Call /\ c.pc \in {"check", "write"} /\ ck' = ck /\ Active(w)
      /\ \A v \in Worker \ {w} : call'[v] = call[v]
      /\ c.next = "output-written"
      /\ c.pc = "check" => c.mode = "create"
  BY DEF CheckAbsent, WriteFile, IInv, TypeOK, CallsSound, CallSound, Active, LoneInv, ChecksAreCreates
<1>2. CASE CheckAbsent(w) /\ PathAt(c) \in objs
  <2>1. d.pc = "rejected" /\ d.mode = c.mode /\ c.pc = "check"
    BY <1>1, <1>2 DEF CheckAbsent, IInv, TypeOK, Rejected, IdleCall
  <2> QED BY <1>1, <2>1, OneCallChanges DEF Active
<1>3. CASE ~(CheckAbsent(w) /\ PathAt(c) \in objs)
  <2>1. /\ d.task = c.task /\ d.alone = c.alone /\ d.fits = c.fits /\ d.recorded = c.recorded
        /\ d.next = c.next /\ d.key = c.key /\ d.mode = c.mode
        /\ d.pc \in {"check", "write", "advance"} /\ (d.pc = "check" => c.mode = "create")
    <3>1. CASE CheckAbsent(w)
      BY <1>1, <1>3, <3>1 DEF CheckAbsent, IInv, TypeOK, Call
    <3>2. CASE WriteFile(w)
      <4>1. FilePhase(c) \in {"check", "write", "advance"} /\ (FilePhase(c) = "check" => c.mode = "create")
        BY DEF FilePhase
      <4> QED BY <1>1, <3>2, <4>1 DEF WriteFile, IInv, TypeOK, Call
    <3> QED BY <3>1, <3>2
  <2>2. Lone(d) => Ready(d, ck'[d.task])
    BY <1>1, <2>1 DEF LoneInv, LoneCallsAreReady, Lone, Ready
  <2> HIDE DEF c, d
  <2> QED BY <1>1, <2>1, <2>2, OneCallChanges DEF c, d
<1> QED BY <1>2, <1>3

(* Every step keeps the invariant.                                          *)
LEMMA NextKeepsLone == IInv /\ LoneInv /\ [Next]_vars => LoneInv'
<1> SUFFICES ASSUME IInv, LoneInv, [Next]_vars PROVE LoneInv'
  OBVIOUS
<1>1. CASE Tick \/ UNCHANGED vars
  BY <1>1 DEF Tick, vars, LoneInv, LoneCallsAreReady, LoneMeansAlone, ChecksAreCreates, LoneRetrySucceeds, Active
<1>2. ASSUME NEW w \in Worker, Crash(w) PROVE LoneInv'
  <2>1. /\ call'[w].pc = "idle" /\ ck' = ck
        /\ \A v \in Worker \ {w} : call'[v] = call[v]
    BY <1>2 DEF Crash, IInv, TypeOK, IdleCall
  <2> QED BY <2>1, OneCallChanges DEF Active
<1> QED
  BY <1>1, <1>2, StartKeepsLone, AdvanceKeepsLone, PersistKeepsLone, FilesKeepLone DEF Next

(* For any tasks, workers and keys: a retry that runs alone under the        *)
(* checkpoint's own key goes through from whatever stage it finds.           *)
THEOREM RetriesSucceed == Spec => []LoneRetrySucceeds
<1>1. Init => LoneInv
  BY DEF Init, LoneInv, LoneCallsAreReady, LoneMeansAlone, ChecksAreCreates, LoneRetrySucceeds, Active, IdleCall
<1>2. LoneInv => LoneRetrySucceeds
  BY DEF LoneInv
<1> QED BY <1>1, <1>2, NextKeepsLone, Invariance, PTL DEF Spec
=============================================================================
