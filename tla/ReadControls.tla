---------------------------- MODULE ReadControls ----------------------------
(***************************************************************************)
(* withObjectStoreReadControls of packages/core/src/store.ts: an object    *)
(* store whose reads pass a semaphore and an abort signal.                 *)
(*                                                                         *)
(* A reader is a caller of the wrapped store, one operation at a time.  Its *)
(* steps are the stretches of code between two awaits.  The one that       *)
(* matters: release() takes a slot off `active` and resolves the oldest    *)
(* waiter's promise, but the waiter adds itself to `active` only when its   *)
(* continuation runs; any continuation queued earlier runs in between.     *)
(***************************************************************************)
EXTENDS Integers, Sequences, FiniteSets

CONSTANTS Reader,   \* callers of the wrapped store
          Limit     \* maxConcurrentReads

ASSUME ReadersAreFinite == IsFiniteSet(Reader)
ASSUME LimitIsPositive == Limit \in Nat \ {0}

VARIABLES pc,       \* where each reader's operation stands
          active,   \* ReadSemaphore.active
          queue,    \* ReadSemaphore.queue: readers whose resume is queued
          aborted   \* whether the signal has fired: the caller's or the deadline

vars == <<pc, active, queue, aborted>>

(* entering: acquire has returned at once or after a wait, and the read is   *)
(* not issued yet; woken: resume has run, the continuation has not.          *)
Pending == {"queued", "woken", "entering", "reading", "heading", "putting", "listing"}
Settled == {"idle", "resolved", "rejected"}

Waiting == {r \in Reader : pc[r] = "queued"}
Woken == {r \in Reader : pc[r] = "woken"}
Holders == {r \in Reader : pc[r] \in {"entering", "reading"}}

-----------------------------------------------------------------------------
(* A defect: a release that resumes nobody. *)
ReleaseOnly(r, outcome) ==
  /\ active' = active - 1
  /\ pc' = [pc EXCEPT ![r] = outcome]
  /\ UNCHANGED queue

(* release(): one slot back, and the oldest waiter resumed.                 *)
Release(r, outcome) ==
  /\ active' = active - 1
  /\ IF queue = <<>>
     THEN pc' = [pc EXCEPT ![r] = outcome] /\ UNCHANGED queue
     ELSE /\ pc' = [pc EXCEPT ![r] = outcome, ![Head(queue)] = "woken"]
          /\ queue' = Tail(queue)

(* get or getRange is called: throwIfAborted, then acquire up to its await. *)
Read(r) ==
  /\ pc[r] \in Settled
  /\ UNCHANGED aborted
  /\ IF aborted
     THEN pc' = [pc EXCEPT ![r] = "rejected"] /\ UNCHANGED <<active, queue>>
     ELSE IF active < Limit
     THEN /\ active' = active + 1
          /\ pc' = [pc EXCEPT ![r] = "entering"]
          /\ UNCHANGED queue
     ELSE /\ queue' = Append(queue, r)
          /\ pc' = [pc EXCEPT ![r] = "queued"]
          /\ UNCHANGED active

(* A defect: a resumed waiter assumes the slot was counted for it. *)
ResumeUncounted(r) ==
  /\ pc[r] = "woken"
  /\ pc' = [pc EXCEPT ![r] = IF aborted THEN "rejected" ELSE "entering"]
  /\ UNCHANGED <<active, queue, aborted>>

(* The rest of acquire after a resume.  An aborted waiter takes no slot.    *)
Resume(r) ==
  /\ pc[r] = "woken"
  /\ IF aborted
     THEN pc' = [pc EXCEPT ![r] = "rejected"] /\ UNCHANGED active
     ELSE /\ pc' = [pc EXCEPT ![r] = "entering"]
          /\ active' = active + 1
  /\ UNCHANGED <<queue, aborted>>

(* controlledRead with its slot: throwIfAborted, then the store's read.     *)
Issue(r) ==
  /\ pc[r] = "entering"
  /\ IF aborted THEN Release(r, "rejected")
     ELSE pc' = [pc EXCEPT ![r] = "reading"] /\ UNCHANGED <<active, queue>>
  /\ UNCHANGED aborted

(* The store answers or fails; an answer after the abort is dropped.        *)
Answer(r, outcome) ==
  /\ pc[r] = "reading"
  /\ Release(r, IF aborted THEN "rejected" ELSE outcome)
  /\ UNCHANGED aborted

(* head checks the signal before and after, put and delete before, list      *)
(* before and at every object; none of them passes the semaphore.           *)
Unmetered(r, op) ==
  /\ pc[r] \in Settled
  /\ pc' = [pc EXCEPT ![r] = IF aborted THEN "rejected" ELSE op]
  /\ UNCHANGED <<active, queue, aborted>>

(* An aborted head rejects; an aborted list may be at its end already.      *)
UnmeteredAnswer(r, outcome) ==
  /\ pc[r] \in {"heading", "putting", "listing"}
  /\ pc' = [pc EXCEPT ![r] =
              IF pc[r] = "heading" /\ aborted THEN "rejected" ELSE outcome]
  /\ UNCHANGED <<active, queue, aborted>>

(* A defect: the listener empties the queue and rejects nobody. *)
AbortSilently ==
  /\ ~aborted
  /\ aborted' = TRUE
  /\ queue' = <<>>
  /\ UNCHANGED <<pc, active>>

(* The signal fires: the listener of every queued reader rejects it.        *)
Abort ==
  /\ ~aborted
  /\ aborted' = TRUE
  /\ queue' = <<>>
  /\ pc' = [r \in Reader |-> IF pc[r] = "queued" THEN "rejected" ELSE pc[r]]
  /\ UNCHANGED active

Outcomes == {"resolved", "rejected"}

-----------------------------------------------------------------------------
Init ==
  /\ pc = [r \in Reader |-> "idle"]
  /\ active = 0
  /\ queue = <<>>
  /\ aborted = FALSE

(* What the event loop runs without a new call from a reader. *)
Progress(r) ==
  \/ Resume(r)
  \/ Issue(r)
  \/ \E outcome \in Outcomes : Answer(r, outcome)
  \/ \E outcome \in Outcomes : UnmeteredAnswer(r, outcome)

Call(r) == Read(r) \/ \E op \in {"heading", "putting", "listing"} : Unmetered(r, op)

Next == Abort \/ \E r \in Reader : Call(r) \/ Progress(r)

(* Continuations run and the store answers every request. *)
Spec == Init /\ [][Next]_vars /\ \A r \in Reader : WF_vars(Progress(r))

-----------------------------------------------------------------------------
(* Properties *)

(* Every variable has its type, and the queue is of distinct readers: those  *)
(* that wait.                                                                *)
TypeOK ==
  /\ pc \in [Reader -> Pending \cup Settled]
  /\ active \in Nat
  /\ queue \in Seq(Reader)
  /\ aborted \in BOOLEAN
  /\ \A i, j \in DOMAIN queue : queue[i] = queue[j] => i = j
  /\ {queue[i] : i \in DOMAIN queue} = Waiting

(* No slot is leaked or returned twice, whether the holder's read resolves,  *)
(* fails, or is aborted before it is issued.                                 *)
ActiveCountsHolders == active = Cardinality(Holders)

(* A reader waits only while every slot is taken by a holder or promised to  *)
(* a waiter that was resumed: no release goes unnoticed.                     *)
NoLostWaiter == queue # <<>> => active + Cardinality(Woken) >= Limit

(* Once the signal has fired no read reaches the store and none resolves.    *)
AbortIsFinal ==
  [][aborted => \A r \in Reader :
       /\ pc[r] # "reading" => pc'[r] # "reading"
       /\ pc[r] \in {"woken", "entering", "reading"} => pc'[r] # "resolved"]_vars

(* Every operation comes to an end, whoever overtakes it in the queue and    *)
(* whenever the signal fires.                                                *)
EveryOperationSettles == \A r \in Reader : pc[r] \in Pending ~> pc[r] \in Settled

(* docs/performance.md: the object-store read semaphore remains the hard     *)
(* limit.                                                                    *)
HardLimit == Cardinality({r \in Reader : pc[r] = "reading"}) <= Limit
=============================================================================
