------------------------------- MODULE WorkUnit -------------------------------
(***************************************************************************)
(* fanInWorkUnits of packages/core/src/work-unit.ts: run work units with    *)
(* bounded concurrency, buffer what completes out of order, and reduce in   *)
(* the order of the inputs.                                                *)
(*                                                                         *)
(* The call is one loop and one runInput per launched unit, all on one      *)
(* event loop.  A step is a stretch of code between two awaits: those of    *)
(* options.run, options.boundary, options.reduce and of the wait for a      *)
(* notification.                                                           *)
(***************************************************************************)
EXTENDS Integers, Sequences, FiniteSets

CONSTANTS NInputs,          \* options.inputs.length; no input is undefined
          MaxConcurrent,    \* maxConcurrentTasks
          MaxBuffered       \* maxBufferedPartials

ASSUME InputsAssumption == NInputs \in Nat
ASSUME BoundsAssumption == MaxConcurrent \in Nat \ {0} /\ MaxBuffered \in Nat \ {0}

Index == 1..NInputs

VARIABLES main,        \* where the loop stands
          unit,        \* where each unit stands
          hasBoundary, \* whether the caller passed options.boundary
          nextInput, nextReduce, active,
          partials,    \* indices whose partial is buffered
          failure,     \* whether failure is set
          reduced      \* history: the indices handed to reduce, in order

vars == <<main, unit, hasBoundary, nextInput, nextReduce, active, partials, failure, reduced>>

(* waiting: the loop awaits a notification; notified: notify was called and  *)
(* the continuation has not run.                                            *)
MainStates == {"called", "reducing", "waiting", "notified", "resolved", "rejected"}
UnitStates == {"new", "running", "crossing", "ended", "failed"}

Running == {i \in Index : unit[i] \in {"running", "crossing"}}

-----------------------------------------------------------------------------
(* How many units launchReadyInputs launches when it runs.                  *)
Smallest(a, b) == IF a <= b THEN a ELSE b

(* A defect: buffered partials are not counted. *)
LaunchesUnbuffered ==
  IF failure THEN 0 ELSE Smallest(NInputs + 1 - nextInput, MaxConcurrent - active)

Launches ==
  IF failure THEN 0
  ELSE Smallest(NInputs + 1 - nextInput,
                Smallest(MaxConcurrent - active, MaxBuffered - (active + Cardinality(partials))))

Launch ==
  /\ nextInput' = nextInput + Launches
  /\ active' = active + Launches
  /\ unit' = [i \in Index |->
       IF i >= nextInput /\ i < nextInput + Launches THEN "running" ELSE unit[i]]

(* The call, up to its first wait: nothing can be buffered yet.             *)
Begin ==
  /\ main = "called"
  /\ Launch
  /\ main' = IF NInputs = 0 THEN "resolved" ELSE "waiting"
  /\ UNCHANGED <<hasBoundary, nextReduce, partials, failure, reduced>>

(* A defect: partials are reduced as they come. *)
TurnInAnyOrder(next) ==
  /\ nextReduce' = next
  /\ \/ \E i \in partials :
            /\ partials' = partials \ {i}
            /\ reduced' = Append(reduced, i)
            /\ main' = "reducing"
            /\ UNCHANGED <<unit, nextInput, active>>
     \/ /\ partials = {} /\ failure
        /\ main' = "rejected"
        /\ UNCHANGED <<partials, reduced, unit, nextInput, active>>
     \/ /\ partials = {} /\ ~failure
        /\ Launch
        /\ main' = IF next > NInputs THEN "resolved" ELSE "waiting"
        /\ UNCHANGED <<partials, reduced>>

(* A defect: the loop ends one input early. *)
TurnStopsEarly(next) ==
  /\ nextReduce' = next
  /\ \/ /\ next \in partials
        /\ partials' = partials \ {next}
        /\ reduced' = Append(reduced, next)
        /\ main' = "reducing"
        /\ UNCHANGED <<unit, nextInput, active>>
     \/ /\ next \notin partials
        /\ main' = IF failure THEN "rejected" ELSE IF next >= NInputs THEN "resolved" ELSE "waiting"
        /\ Launch
        /\ UNCHANGED <<partials, reduced>>

(* The loop from here to its next await, next being nextReduce: reduce the  *)
(* partial in turn if it is there, else fail, else launch and wait.         *)
Turn(next) ==
  /\ nextReduce' = next
  /\ \/ /\ next \in partials
        /\ partials' = partials \ {next}
        /\ reduced' = Append(reduced, next)
        /\ main' = "reducing"
        /\ UNCHANGED <<unit, nextInput, active>>
     \/ /\ next \notin partials /\ failure
        /\ main' = "rejected"
        /\ UNCHANGED <<partials, reduced, unit, nextInput, active>>
     \/ /\ next \notin partials /\ ~failure
        /\ Launch
        /\ main' = IF next > NInputs THEN "resolved" ELSE "waiting"
        /\ UNCHANGED <<partials, reduced>>

(* The continuation of the wait. *)
Wake ==
  /\ main = "notified"
  /\ Turn(nextReduce)
  /\ UNCHANGED <<hasBoundary, failure>>

(* options.reduce resolves, or rejects and with it the call. *)
ReduceResolves ==
  /\ main = "reducing"
  /\ Turn(nextReduce + 1)
  /\ UNCHANGED <<hasBoundary, failure>>

ReduceRejects ==
  /\ main = "reducing"
  /\ main' = "rejected"
  /\ UNCHANGED <<unit, hasBoundary, nextInput, nextReduce, active, partials, failure, reduced>>

-----------------------------------------------------------------------------
(* runInput *)

(* A defect: the unit that ends does not notify. *)
EndsSilently(i, ok) ==
  /\ unit' = [unit EXCEPT ![i] = IF ok THEN "ended" ELSE "failed"]
  /\ active' = active - 1
  /\ IF ok THEN partials' = partials \cup {i} /\ UNCHANGED failure
           ELSE failure' = TRUE /\ UNCHANGED partials
  /\ UNCHANGED <<main, hasBoundary, nextInput, nextReduce, reduced>>

(* What follows the last await of a unit: buffer the partial or record the  *)
(* failure, give the slot back, notify the loop if it waits.                *)
Ends(i, ok) ==
  /\ unit' = [unit EXCEPT ![i] = IF ok THEN "ended" ELSE "failed"]
  /\ active' = active - 1
  /\ main' = IF main = "waiting" THEN "notified" ELSE main
  /\ IF ok THEN partials' = partials \cup {i} /\ UNCHANGED failure
           ELSE failure' = TRUE /\ UNCHANGED partials
  /\ UNCHANGED <<hasBoundary, nextInput, nextReduce, reduced>>

(* options.run settles.  A boundary is awaited before the partial is set.   *)
RunResolves(i) ==
  /\ unit[i] = "running"
  /\ \/ ~hasBoundary /\ Ends(i, TRUE)
     \/ /\ hasBoundary
        /\ unit' = [unit EXCEPT ![i] = "crossing"]
        /\ UNCHANGED <<main, hasBoundary, nextInput, nextReduce, active, partials, failure,
                       reduced>>

RunRejects(i) == unit[i] = "running" /\ Ends(i, FALSE)

(* options.boundary settles. *)
Crosses(i, ok) == unit[i] = "crossing" /\ Ends(i, ok)

-----------------------------------------------------------------------------
Init ==
  /\ main = "called"
  /\ unit = [i \in Index |-> "new"]
  /\ hasBoundary \in BOOLEAN
  /\ nextInput = 1 /\ nextReduce = 1 /\ active = 0
  /\ partials = {} /\ failure = FALSE
  /\ reduced = <<>>

Loop == Begin \/ Wake \/ ReduceResolves \/ ReduceRejects

UnitStep(i) == RunResolves(i) \/ RunRejects(i) \/ \E ok \in BOOLEAN : Crosses(i, ok)

Next == Loop \/ \E i \in Index : UnitStep(i)

(* The promises that run, boundary and reduce return settle, and their      *)
(* continuations run.                                                       *)
Spec ==
  /\ Init /\ [][Next]_vars
  /\ WF_vars(Loop)
  /\ \A i \in Index : WF_vars(UnitStep(i))

-----------------------------------------------------------------------------
(* Properties *)

(* Every variable has its type. *)
TypeOK ==
  /\ main \in MainStates
  /\ unit \in [Index -> UnitStates]
  /\ hasBoundary \in BOOLEAN /\ failure \in BOOLEAN
  /\ nextInput \in 1..(NInputs + 1) /\ nextReduce \in 1..(NInputs + 1)
  /\ active \in Nat
  /\ partials \in SUBSET Index
  /\ reduced \in Seq(Index)

(* The bounds the caller asked for hold at every moment, reductions and      *)
(* failures included: units in flight, and units in flight plus partials.   *)
BoundsHold ==
  /\ active = Cardinality(Running)
  /\ active <= MaxConcurrent
  /\ active + Cardinality(partials) <= MaxBuffered

(* No wake-up is lost and the head of the line is never locked out by the   *)
(* partials buffered behind it: a loop that waits waits for a unit that is  *)
(* in flight, and a failure never finds it waiting.                         *)
WaiterIsOwed ==
  main = "waiting" => unit[nextReduce] \in {"running", "crossing"} /\ ~failure

(* A call that resolved has no unit in flight and no partial left over.     *)
ResolvedIsComplete ==
  main = "resolved" => (\A i \in Index : unit[i] = "ended") /\ partials = {}

(* Once a unit has failed or the call has rejected, no unit is launched,     *)
(* whatever the units still in flight report.                               *)
FailureStopsLaunches ==
  [][main = "rejected" \/ (\E j \in Index : unit[j] = "failed") =>
       \A i \in Index : unit[i] = "new" => unit'[i] = "new"]_vars

(* The fan-in implements the ordered reduction, its liveness included.      *)
Ordered == INSTANCE OrderedReduce WITH
  outcome <- IF main \in {"resolved", "rejected"} THEN main ELSE "pending"

ImplementsOrderedReduce == Ordered!Spec
=============================================================================
