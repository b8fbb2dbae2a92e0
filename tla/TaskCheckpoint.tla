--------------------------- MODULE TaskCheckpoint ---------------------------
(***************************************************************************)
(* Checkpointed write tasks: packages/core/src/manifest.ts (the checkpoint *)
(* state machine and its adapter) and writePartitionedParquetTask of       *)
(* packages/parquet/src/index.ts (the driver that moves a task through it).*)
(*                                                                         *)
(* A call of writePartitionedParquetTask is run by a worker for a task     *)
(* under an idempotency key.  It moves the checkpoint from planned to      *)
(* complete, one advanceTaskCheckpoint per stage, and each of those is a   *)
(* get followed by a put: two awaits between which any other worker may    *)
(* run.  A worker may crash between any two steps and be started again.    *)
(***************************************************************************)
EXTENDS Integers, FiniteSets

CONSTANTS Task,          \* task ids
          Worker,        \* processes that run calls, one call at a time each
          Key,           \* idempotency keys
          NFiles,        \* files one call writes for the task's rows
          StaleTimeout,  \* staleTimeoutMs, when a call passes it
          Instant,       \* bound: the readings of the clock, in milliseconds
          NoKey,         \* the key of an absent checkpoint
          NoPath,        \* marks a checkpoint without recorded outputs
          Job,           \* job ids
          JobOf,         \* the jobId a task is written for
          MarkedTask,    \* task ids of the form taskId() builds: job-task-n-hash
          NoJob          \* the empty job id

Ordinal == 1..NFiles

(* partitionOutputPath: an output object is named by task, key and ordinal. *)
Path == Task \X Key \X Ordinal
PathsOf(t, k) == {<<t, k, o>> : o \in Ordinal}

ASSUME ConstantsAssumption ==
  /\ Task # {} /\ Key # {}
  /\ JobOf \in [Task -> Job] /\ MarkedTask \subseteq Task /\ NoJob \notin Job
  /\ NFiles \in Nat
  /\ StaleTimeout \in Nat
  /\ Instant \subseteq Nat /\ 0 \in Instant
  /\ NoKey \notin Key
  /\ NoPath \notin Path

VARIABLES ck,        \* the checkpoint adapter: task -> checkpoint
          objs,      \* the output objects in the object store
          clock,     \* Date.now() of every worker
          call,      \* the call each worker runs, or ran last
          acked      \* history: what calls returned to their callers

vars == <<ck, objs, clock, call, acked>>

-----------------------------------------------------------------------------
(* The checkpoint state machine *)

Stages == {"planned", "running", "output-written", "manifest-recorded", "complete"}

stateRank == [s \in Stages |->
  CASE s = "planned" -> 0
    [] s = "running" -> 1
    [] s = "output-written" -> 2
    [] s = "manifest-recorded" -> 3
    [] s = "complete" -> 4]

(* outputs is undefined until a call has written its files. *)
NoOutputs == {NoPath}
Outputs == (SUBSET Path) \cup {NoOutputs}

Checkpoint == [state: Stages \cup {"absent"}, key: Key \cup {NoKey},
               at: Nat, outputs: Outputs]

Absent == [state |-> "absent", key |-> NoKey, at |-> 0, outputs |-> NoOutputs]

TransitionInput == [state: Stages, key: Key, at: Nat, outputs: Outputs,
                    takeover: BOOLEAN]

(* A defect: any later stage is accepted. *)
AnyLaterStage(from, to, stale) ==
  \/ stale /\ to = "running"
  \/ stateRank[to] > stateRank[from]

transitionAllowed(from, to, stale) ==
  \/ stale /\ to = "running"
  \/ stateRank[to] = stateRank[from] + 1

Stale(existing, in) == in.takeover /\ in.at - existing.at > StaleTimeout

Replays(existing, in) == existing.state = in.state /\ existing.key = in.key

Accepts(existing, in) ==
  \/ existing.state = "absent"
  \/ Replays(existing, in)
  \/ /\ existing.state # "absent"
     /\ existing.key = in.key \/ Stale(existing, in)
     /\ transitionAllowed(existing.state, in.state, Stale(existing, in))

createCheckpoint(in) ==
  [state |-> in.state, key |-> in.key, at |-> in.at, outputs |-> in.outputs]

(* A defect: outputs are not carried forward. *)
OutputsDropped(existing, in) ==
  IF existing.state # "absent" /\ Replays(existing, in) THEN existing ELSE createCheckpoint(in)

(* The checkpoint an accepted transition stores.  A replay stores the       *)
(* checkpoint it found; outputs are carried forward while the rank grows.   *)
transitionTaskCheckpoint(existing, in) ==
  IF existing.state = "absent" THEN createCheckpoint(in)
  ELSE IF Replays(existing, in) THEN existing
  ELSE IF /\ in.outputs = NoOutputs
          /\ stateRank[in.state] > stateRank[existing.state]
       THEN [createCheckpoint(in) EXCEPT !.outputs = existing.outputs]
       ELSE createCheckpoint(in)

-----------------------------------------------------------------------------
(* A call of writePartitionedParquetTask *)

Phases == {"idle", "advance", "persist", "check", "write", "rejected"}

Modes == {"overwrite", "create"}

(* alone and replay are history: no other call of the task overlapped this   *)
(* one; it began after a call with the same task and key had returned.       *)
Call == [pc: Phases, task: Task, key: Key, mode: Modes, takeover: BOOLEAN,
         now: Nat, recorded: BOOLEAN, fits: BOOLEAN, alone: BOOLEAN, replay: BOOLEAN,
         next: Stages, ord: Nat, entries: Outputs, read: Checkpoint]

Active(w) == call[w].pc \in {"advance", "persist", "check", "write"}

IdleCall ==
  [pc |-> "idle", task |-> CHOOSE t \in Task : TRUE, key |-> CHOOSE k \in Key : TRUE,
   mode |-> "overwrite", takeover |-> FALSE, now |-> 0, recorded |-> FALSE,
   fits |-> TRUE, alone |-> TRUE, replay |-> FALSE, next |-> "planned", ord |-> 1, entries |-> NoOutputs, read |-> Absent]

(* A call that was rejected keeps what it was asked; one that returned or    *)
(* died keeps nothing.                                                       *)
Rejected(c) ==
  [IdleCall EXCEPT !.pc = "rejected", !.mode = c.mode, !.fits = c.fits, !.alone = c.alone]

(* The input of the advance the call is at.  Stage s is stamped nowMs plus  *)
(* the rank of s; only planned and running pass staleTimeoutMs, and only    *)
(* output-written carries outputs.                                          *)
InputOf(c) ==
  [state |-> c.next, key |-> c.key, at |-> c.now + stateRank[c.next],
   outputs |-> IF c.next = "output-written" THEN c.entries ELSE NoOutputs,
   takeover |-> c.takeover /\ c.next \in {"planned", "running"}]

checkpointOutputs(existing, k) ==
  IF existing.key = k THEN existing.outputs ELSE NoOutputs

(* Where a call starts, from the checkpoint it finds. *)
ReturnsAtOnce(existing, k) ==
  existing.state = "complete" /\ checkpointOutputs(existing, k) # NoOutputs
ResumesRecording(existing, k) ==
  /\ existing.state \in {"output-written", "manifest-recorded"}
  /\ checkpointOutputs(existing, k) # NoOutputs

(* A defect: a retry that does not resume starts over at planned. *)
StartsOver(existing, k) ==
  IF ResumesRecording(existing, k)
  THEN IF existing.state = "manifest-recorded" THEN "complete" ELSE "manifest-recorded"
  ELSE "planned"

FirstStage(existing, k) ==
  IF ResumesRecording(existing, k)
  THEN IF existing.state = "manifest-recorded" THEN "complete" ELSE "manifest-recorded"
  ELSE IF existing.state = "running" THEN "running" ELSE "planned"

Started(t, k, mode, takeover) ==
  [pc |-> "advance", task |-> t, key |-> k, mode |-> mode, takeover |-> takeover, now |-> clock,
   recorded |-> ck[t].state = "manifest-recorded", fits |-> ck[t].key \in {k, NoKey},
   alone |-> \A v \in Worker : ~(Active(v) /\ call[v].task = t),
   replay |-> \E a \in acked : a.task = t /\ a.key = k,
   next |-> FirstStage(ck[t], k), ord |-> 1,
   entries |-> IF ResumesRecording(ck[t], k) THEN ck[t].outputs ELSE PathsOf(t, k),
   read |-> Absent]

Ack(t, k, entries) == [task |-> t, key |-> k, entries |-> entries]

(* writePartitionedParquetTask is called: the first get of the checkpoint.  *)
Start(w, t, k, mode, takeover) ==
  /\ ~Active(w)
  /\ call' = [v \in Worker |->
       IF v = w THEN IF ReturnsAtOnce(ck[t], k) THEN IdleCall
                     ELSE Started(t, k, mode, takeover)
       ELSE IF Active(v) /\ call[v].task = t THEN [call[v] EXCEPT !.alone = FALSE]
       ELSE call[v]]
  /\ acked' = IF ReturnsAtOnce(ck[t], k)
              THEN acked \cup {Ack(t, k, ck[t].outputs)} ELSE acked
  /\ UNCHANGED <<ck, objs, clock>>

(* advanceTaskCheckpoint, up to the transition: get, then accept or throw.  *)
Advance(w) ==
  /\ call[w].pc = "advance"
  /\ LET existing == ck[call[w].task] IN
     call' = [call EXCEPT ![w] =
                IF Accepts(existing, InputOf(call[w]))
                THEN [call[w] EXCEPT !.pc = "persist", !.read = existing]
                ELSE Rejected(call[w])]
  /\ UNCHANGED <<ck, objs, clock, acked>>

FilePhase(c) ==
  IF NFiles = 0 THEN "advance" ELSE IF c.mode = "create" THEN "check" ELSE "write"

(* advanceTaskCheckpoint, the put, and the statement that follows it in the *)
(* driver.  Whether manifest-recorded is skipped depends on the state the    *)
(* call saw when it started (c.recorded).                                    *)
AfterPersist(c) ==
  CASE c.next = "planned" -> [c EXCEPT !.pc = "advance", !.read = Absent, !.next = "running"]
    [] c.next = "running" ->
         [c EXCEPT !.pc = FilePhase(c), !.read = Absent, !.next = "output-written"]
    [] c.next = "output-written" ->
         [c EXCEPT !.pc = "advance", !.read = Absent,
                   !.next = IF c.recorded THEN "complete"
                            ELSE "manifest-recorded"]
    [] c.next = "manifest-recorded" ->
         [c EXCEPT !.pc = "advance", !.read = Absent, !.next = "complete"]
    [] c.next = "complete" -> IdleCall

Persist(w) ==
  /\ call[w].pc = "persist"
  /\ ck' = [ck EXCEPT ![call[w].task] =
              transitionTaskCheckpoint(call[w].read, InputOf(call[w]))]
  /\ call' = [call EXCEPT ![w] = AfterPersist(call[w])]
  /\ acked' = IF call[w].next = "complete"
              THEN acked \cup {Ack(call[w].task, call[w].key, call[w].entries)}
              ELSE acked
  /\ UNCHANGED <<objs, clock>>

PathAt(c) == <<c.task, c.key, c.ord>>

(* putParquetBytes in create mode: the head that precedes the put.          *)
CheckAbsent(w) ==
  /\ call[w].pc = "check"
  /\ call' = [call EXCEPT ![w] =
                IF PathAt(call[w]) \in objs THEN Rejected(call[w])
                ELSE [call[w] EXCEPT !.pc = "write"]]
  /\ UNCHANGED <<ck, objs, clock, acked>>

(* putParquetBytes: the put of the next file of writePartitionedParquet.    *)
WriteFile(w) ==
  /\ call[w].pc = "write"
  /\ objs' = objs \cup {PathAt(call[w])}
  /\ call' = [call EXCEPT
       ![w].ord = @ + 1,
       ![w].pc = IF call[w].ord >= NFiles THEN "advance" ELSE FilePhase(call[w])]
  /\ UNCHANGED <<ck, clock, acked>>

(* The process running the call dies; nothing is undone. *)
Crash(w) ==
  /\ Active(w)
  /\ call' = [call EXCEPT ![w] = IdleCall]
  /\ UNCHANGED <<ck, objs, clock, acked>>

Tick ==
  /\ clock' \in {n \in Instant : n > clock}
  /\ UNCHANGED <<ck, objs, call, acked>>

-----------------------------------------------------------------------------
(* createOutputManifestFromCheckpoints: the outputs of every checkpoint the *)
(* adapter lists for the job, whatever its state.  The adapter files a      *)
(* checkpoint under the job it reads out of the task id.                    *)
jobIdFromTaskId(t) == IF t \in MarkedTask THEN JobOf[t] ELSE NoJob

OutputManifest(j) ==
  UNION {ck[t].outputs : t \in {u \in Task : /\ jobIdFromTaskId(u) = j
                                             /\ ck[u].outputs # NoOutputs}}

-----------------------------------------------------------------------------
Init ==
  /\ ck = [t \in Task |-> Absent]
  /\ objs = {}
  /\ clock = 0
  /\ call = [w \in Worker |-> IdleCall]
  /\ acked = {}

Next ==
  \/ Tick
  \/ \E w \in Worker :
       \/ \E t \in Task, k \in Key, mode \in Modes, takeover \in BOOLEAN :
            Start(w, t, k, mode, takeover)
       \/ Advance(w)
       \/ Persist(w)
       \/ CheckAbsent(w)
       \/ WriteFile(w)
       \/ Crash(w)

Spec == Init /\ [][Next]_vars

-----------------------------------------------------------------------------
(* Properties *)

(* Every variable has its type. *)
TypeOK ==
  /\ ck \in [Task -> Checkpoint]
  /\ objs \subseteq Path
  /\ clock \in Instant
  /\ call \in [Worker -> Call]
  /\ acked \subseteq [task: Task, key: Key, entries: Outputs]

OutputStages == {"output-written", "manifest-recorded", "complete"}

(* A checkpoint at output-written or later records every file of the call   *)
(* that owns it, under that call's key, and all of them are in the store;   *)
(* no crash, takeover or lost put leaves it with a partial list, with the   *)
(* outputs of another key or without outputs.                               *)
RecordedOutputsAreWhole ==
  \A t \in Task : ck[t].state \in OutputStages =>
    /\ ck[t].outputs = PathsOf(t, ck[t].key)
    /\ ck[t].outputs \subseteq objs

(* What a call returned to its caller are exactly the files of its task and *)
(* key, and they exist: also for a call that wrote nothing itself.          *)
ReturnedOutputsExist ==
  \A a \in acked : a.entries = PathsOf(a.task, a.key) /\ a.entries \subseteq objs

(* A call that ran alone and found its own key (or nothing) in the          *)
(* checkpoint is never rejected: whatever stage an earlier call crashed at, *)
(* a retry goes through.  The exception is create mode, whose retry finds   *)
(* the files its predecessor left.                                          *)
LoneRetrySucceeds ==
  \A w \in Worker :
    call[w].pc = "rejected" /\ call[w].alone /\ call[w].fits => call[w].mode = "create"

(* A put that was decided from the checkpoint it replaces moves the task one *)
(* stage forward under the same key, or restarts a stale one at running:     *)
(* skipped stages, regressions and changes of owner need a lost update.      *)
OneStage(old, new) ==
  /\ new.key = old.key
  /\ stateRank[new.state] = stateRank[old.state] + 1
StaleRestart(old, new) == new.state = "running" /\ new.at - old.at > StaleTimeout

FreshPut(w, t) ==
  /\ call[w].pc = "persist" /\ call[w].task = t /\ call[w].read = ck[t]
  /\ call'[w] # call[w] /\ ck'[t] # ck[t]

FreshPutsMoveOneStage ==
  [][\A w \in Worker, t \in Task : FreshPut(w, t) =>
       \/ ck[t].state = "absent" /\ ck'[t].state \in {"planned", "running"}
       \/ ck[t].state # "absent" /\ (OneStage(ck[t], ck'[t]) \/ StaleRestart(ck[t], ck'[t]))
    ]_vars

(* The output manifest of a job names objects that exist, one key per task,  *)
(* and misses no completed task whose id is of the form taskId() builds.     *)
ManifestIsSound ==
  \A j \in Job :
    /\ OutputManifest(j) \subseteq objs
    /\ \A p, q \in OutputManifest(j) : p[1] = q[1] => p[2] = q[2]
    /\ \A t \in MarkedTask : JobOf[t] = j /\ ck[t].state = "complete" =>
         PathsOf(t, ck[t].key) \subseteq OutputManifest(j)

(* docs/writing-parquet.md: replaying a completed task with the same         *)
(* idempotency key returns the checkpointed outputs without rewriting files. *)
ReplayRewritesNothing ==
  \A w \in Worker : call[w].replay => call[w].pc \notin {"check", "write"}

(* docs/writing-parquet.md: the outputs tasks persist in a checkpoint adapter *)
(* are fanned into one manifest by createOutputManifestFromCheckpoints.       *)
ManifestListsCompletedTasks ==
  \A t \in Task : ck[t].state = "complete" =>
    PathsOf(t, ck[t].key) \subseteq OutputManifest(JobOf[t])
=============================================================================
