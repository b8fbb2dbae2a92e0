----------------------------- MODULE QueryProofs -----------------------------
(***************************************************************************)
(* Proofs about a query: the fan-in of its work units, for any number of     *)
(* inputs and any bounds, and paging through its results, for any files,     *)
(* contents, query shapes, page sizes and writes.                           *)
(***************************************************************************)
EXTENDS WorkUnit, QuerySlices, SumsAndFolds

-----------------------------------------------------------------------------
(* Work units                                                                *)

(* Units are launched in the order of the inputs. *)
LaunchedInOrder == \A i \in Index : unit[i] = "new" <=> i >= nextInput

(* What has been reduced: every input before nextReduce, and the one whose   *)
(* reduction is under way or rejected the call.                             *)
Reduced ==
  /\ \A k \in 1..Len(reduced) : reduced[k] = k
  /\ \A i \in Index : i < nextReduce => unit[i] = "ended"
  /\ main # "rejected" =>
       Len(reduced) = IF main = "reducing" THEN nextReduce ELSE nextReduce - 1
  /\ Len(reduced) <= NInputs

(* Inputs that have ended and are not handed to reduce. *)
Unreduced == {i \in Index : /\ unit[i] = "ended" /\ i >= nextReduce
                            /\ ~(main = "reducing" /\ i = nextReduce)}

(* No partial is lost and none is reduced twice. *)
NoneLost ==
  /\ partials \subseteq Unreduced
  /\ main # "rejected" => partials = Unreduced

FailureIsKnown == failure <=> \E i \in Index : unit[i] = "failed"

LoopStands ==
  /\ main = "called" =>
       /\ nextInput = 1 /\ nextReduce = 1 /\ active = 0 /\ reduced = <<>> /\ ~failure
       /\ partials = {}
  /\ main = "reducing" => nextReduce <= NInputs /\ unit[nextReduce] = "ended"
  /\ main = "notified" => nextReduce <= NInputs
  /\ main = "waiting" => nextReduce <= NInputs /\ WaiterIsOwed
  /\ main = "resolved" => nextReduce = NInputs + 1 /\ ~failure

IInv ==
  /\ TypeOK /\ BoundsHold
  /\ LaunchedInOrder /\ nextReduce <= nextInput
  /\ Reduced /\ NoneLost /\ FailureIsKnown /\ LoopStands

-----------------------------------------------------------------------------
LEMMA InputsFinite ==
  ASSUME NEW S \in SUBSET Index
  PROVE  IsFiniteSet(S) /\ Cardinality(S) \in Nat
<1>1. IsFiniteSet(Index)
  BY InputsAssumption, FS_Interval DEF Index
<1> QED
  BY <1>1, FS_Subset, FS_CardinalityType

(* What one run of launchReadyInputs does: it stays within the bounds and    *)
(* launches the next inputs in order.                                       *)
LEMMA LaunchInOrder ==
  ASSUME TypeOK, BoundsHold, LaunchedInOrder, Launch
  PROVE  /\ Launches \in Nat
         /\ nextInput' \in nextInput..(NInputs + 1)
         /\ unit' \in [Index -> UnitStates]
         /\ \A i \in Index : unit'[i] = "new" <=> i >= nextInput'
         /\ \A i \in Index : unit[i] # "new" => unit'[i] = unit[i]
         /\ \A i \in Index : unit[i] = "new" => unit'[i] \in {"new", "running"}
         /\ active' = Cardinality(Running') /\ active' \in Nat
         /\ active' <= MaxConcurrent
         /\ active' + Cardinality(partials) <= MaxBuffered
<1> DEFINE n == Launches
           new == nextInput..(nextInput + n - 1)
<1>1. Cardinality(partials) \in Nat
  BY InputsFinite DEF TypeOK
<1>2. n \in Nat /\ n <= NInputs + 1 - nextInput
  BY <1>1, InputsAssumption, BoundsAssumption DEF Launches, Smallest, TypeOK, BoundsHold
<1>3. failure \/ (active + n <= MaxConcurrent /\ active + Cardinality(partials) + n <= MaxBuffered)
  BY <1>1, InputsAssumption, BoundsAssumption DEF Launches, Smallest, TypeOK, BoundsHold
<1>4. failure => n = 0
  BY DEF Launches
<1>5. nextInput' = nextInput + n /\ active' = active + n
  BY DEF Launch
<1>6. nextInput' \in nextInput..(NInputs + 1)
  BY <1>2, <1>5, InputsAssumption DEF TypeOK
<1>7. \A i \in Index : unit'[i] = IF i >= nextInput /\ i < nextInput + n THEN "running" ELSE unit[i]
  BY DEF Launch
<1>8. unit' \in [Index -> UnitStates]
  BY DEF Launch, TypeOK, UnitStates
<1>9. \A i \in Index : unit'[i] = "new" <=> i >= nextInput'
  BY <1>2, <1>5, <1>7, InputsAssumption DEF LaunchedInOrder, TypeOK, Index
<1>10. \A i \in Index : unit[i] # "new" => unit'[i] = unit[i]
  BY <1>7 DEF LaunchedInOrder
<1>11. \A i \in Index : unit[i] = "new" => unit'[i] \in {"new", "running"}
  BY <1>7
<1>12. Running' = Running \cup new
  <2>1. new \subseteq Index
    BY <1>2, InputsAssumption DEF TypeOK, Index
  <2>2. \A i \in new : unit'[i] = "running"
    BY <2>1, <1>2, <1>7, InputsAssumption DEF TypeOK, Index
  <2>3. \A i \in Index \ new : unit'[i] = unit[i]
    BY <1>2, <1>7, InputsAssumption DEF TypeOK, Index
  <2>4. \A i \in new : unit[i] = "new"
    BY <2>1, <1>2, InputsAssumption DEF LaunchedInOrder, TypeOK, Index
  <2> QED
    BY <2>1, <2>2, <2>3, <2>4 DEF Running
<1>13. Running \cap new = {}
  BY <1>2, InputsAssumption DEF Running, LaunchedInOrder, TypeOK, Index
<1>14. IsFiniteSet(new) /\ Cardinality(new) = n
  BY <1>2, FS_Interval, InputsAssumption DEF TypeOK
<1>15. Cardinality(Running') = active + n
  <2>1. IsFiniteSet(Running) /\ Cardinality(Running) = active
    BY InputsFinite DEF Running, BoundsHold
  <2> HIDE DEF new
  <2>2. Cardinality(Running \cup new)
          = Cardinality(Running) + Cardinality(new) - Cardinality(Running \cap new)
    BY <2>1, <1>14, FS_Union
  <2>3. Cardinality(Running \cap new) = 0
    BY <1>13, FS_EmptySet
  <2> QED
    BY <2>1, <2>2, <2>3, <1>12, <1>14, <1>2 DEF TypeOK
<1>16. active' \in Nat /\ active' <= MaxConcurrent /\ active' + Cardinality(partials) <= MaxBuffered
  <2>1. active \in Nat /\ active <= MaxConcurrent /\ active + Cardinality(partials) <= MaxBuffered
    BY DEF TypeOK, BoundsHold
  <2>2. CASE failure
    BY <1>4, <1>5, <2>1, <2>2
  <2>3. CASE ~failure
    <3> HIDE DEF n
    <3> QED BY <1>1, <1>2, <1>3, <1>5, <2>1, <2>3, BoundsAssumption
  <2> QED BY <2>2, <2>3
<1>17. active' = Cardinality(Running')
  BY <1>5, <1>15
<1> QED
  BY <1>2, <1>6, <1>8, <1>9, <1>10, <1>11, <1>16, <1>17

(* The head of the line is never locked out: if it has not ended and nothing *)
(* has failed, it is in flight after a launch.                              *)
LEMMA HeadIsInFlight ==
  ASSUME TypeOK, BoundsHold, LaunchedInOrder, FailureIsKnown, Launch, ~failure,
         NEW next \in Index, next <= nextInput,
         \A i \in Index : i < next => unit[i] = "ended",
         \A i \in partials : i >= next /\ unit[i] = "ended",
         unit[next] # "ended"
  PROVE  unit'[next] \in {"running", "crossing"}
<1>1. CASE next < nextInput
  <2>1. unit[next] # "new" /\ unit[next] # "failed" /\ unit[next] \in UnitStates
    BY <1>1 DEF LaunchedInOrder, FailureIsKnown, TypeOK, Index
  <2>2. unit'[next] = unit[next]
    BY <2>1, LaunchInOrder
  <2> QED
    BY <2>1, <2>2 DEF UnitStates
<1>2. CASE next = nextInput
  <2>1. Running = {}
    BY <1>2, InputsAssumption DEF Running, LaunchedInOrder, Index, TypeOK
  <2>2. partials = {}
    BY <1>2, InputsAssumption DEF LaunchedInOrder, Index, TypeOK
  <2>3. active = 0 /\ Cardinality(partials) = 0
    BY <2>1, <2>2, FS_EmptySet DEF BoundsHold
  <2>4. Launches >= 1
    BY <2>3, <1>2, InputsAssumption, BoundsAssumption DEF Launches, Smallest, Index, TypeOK
  <2>5. Launches \in Nat
    BY LaunchInOrder
  <2> QED
    BY <2>4, <2>5, <1>2, InputsAssumption DEF Launch, Index
<1> QED
  BY <1>1, <1>2, InputsAssumption DEF TypeOK, Index

-----------------------------------------------------------------------------
LEMMA InitHolds == Init => IInv
<1> SUFFICES ASSUME Init PROVE IInv
  OBVIOUS
<1>1. TypeOK
  <2>1. reduced \in Seq(Index) /\ partials \in SUBSET Index
    BY DEF Init
  <2>2. unit \in [Index -> UnitStates] /\ main \in MainStates
    BY DEF Init, MainStates, UnitStates
  <2>3. hasBoundary \in BOOLEAN /\ failure \in BOOLEAN
    BY DEF Init
  <2>4. nextInput \in 1..(NInputs + 1) /\ nextReduce \in 1..(NInputs + 1) /\ active \in Nat
    BY InputsAssumption DEF Init
  <2> QED
    BY <2>1, <2>2, <2>3, <2>4 DEF TypeOK
<1>2. Running = {} /\ Cardinality({}) = 0
  BY FS_EmptySet DEF Init, Running
<1>3. BoundsHold
  BY <1>2, BoundsAssumption DEF Init, BoundsHold
<1>4. LaunchedInOrder /\ nextReduce <= nextInput /\ FailureIsKnown /\ LoopStands
  BY DEF Init, LaunchedInOrder, FailureIsKnown, LoopStands, Index
<1>5. Reduced
  BY InputsAssumption DEF Init, Reduced, Index
<1>6. NoneLost
  BY DEF Init, NoneLost, Unreduced
<1> QED
  BY <1>1, <1>3, <1>4, <1>5, <1>6 DEF IInv

(* The loop's turn at input next, when all before it are reduced. *)
LEMMA TurnKeeps ==
  ASSUME IInv, NEW next \in 1..(NInputs + 1), next <= nextInput,
         main \in {"notified", "reducing"},
         \A i \in Index : i < next => unit[i] = "ended",
         partials = {i \in Index : unit[i] = "ended" /\ i >= next},
         Len(reduced) = next - 1,
         Turn(next), UNCHANGED <<hasBoundary, failure>>
  PROVE  IInv'
<1> USE DEF IInv
<1>1. nextReduce' = next
  BY DEF Turn
<1>2. CASE /\ next \in partials
           /\ partials' = partials \ {next}
           /\ reduced' = Append(reduced, next)
           /\ main' = "reducing"
           /\ UNCHANGED <<unit, nextInput, active>>
  <2>1. next \in Index /\ unit[next] = "ended"
    BY <1>2
  <2>2. TypeOK'
    BY <1>1, <1>2, <2>1 DEF TypeOK, MainStates
  <2>3. BoundsHold'
    <3>1. Running' = Running
      BY <1>2 DEF Running
    <3>2. /\ Cardinality(partials') <= Cardinality(partials)
          /\ Cardinality(partials) \in Nat /\ Cardinality(partials') \in Nat
      BY <1>2, InputsFinite, FS_Subset DEF TypeOK
    <3> QED
      BY <1>2, <3>1, <3>2, BoundsAssumption DEF BoundsHold, TypeOK
  <2>4. LaunchedInOrder' /\ nextReduce' <= nextInput' /\ FailureIsKnown'
    BY <1>1, <1>2 DEF LaunchedInOrder, FailureIsKnown
  <2>5. Reduced'
    <3>1. /\ Len(reduced') = next
          /\ \A k \in 1..next : reduced'[k] = IF k = next THEN next ELSE reduced[k]
      BY <1>2, <2>1 DEF TypeOK, Index
    <3>2. \A k \in 1..next : reduced'[k] = k
      BY <3>1, InputsAssumption DEF Reduced
    <3>3. \A i \in Index : i < nextReduce' => unit'[i] = "ended"
      BY <1>1, <1>2
    <3> QED
      BY <3>1, <3>2, <3>3, <1>1, <1>2, <2>1, InputsAssumption DEF Reduced, Index
  <2>6. NoneLost'
    BY <1>1, <1>2 DEF NoneLost, Unreduced
  <2>7. LoopStands'
    BY <1>1, <1>2, <2>1 DEF LoopStands, Index
  <2> QED
    BY <2>2, <2>3, <2>4, <2>5, <2>6, <2>7
<1>3. CASE /\ next \notin partials /\ failure
           /\ main' = "rejected"
           /\ UNCHANGED <<partials, reduced, unit, nextInput, active>>
  <2>1. TypeOK'
    BY <1>1, <1>3 DEF TypeOK, MainStates
  <2>2. BoundsHold' /\ LaunchedInOrder' /\ nextReduce' <= nextInput' /\ FailureIsKnown'
    BY <1>1, <1>3 DEF BoundsHold, Running, LaunchedInOrder, FailureIsKnown
  <2>3. Reduced' /\ NoneLost' /\ LoopStands'
    BY <1>1, <1>3 DEF Reduced, NoneLost, Unreduced, LoopStands
  <2> QED
    BY <2>1, <2>2, <2>3
<1>4. CASE /\ next \notin partials /\ ~failure
           /\ Launch
           /\ main' = IF next > NInputs THEN "resolved" ELSE "waiting"
           /\ UNCHANGED <<partials, reduced>>
  <2>1. /\ nextInput' \in nextInput..(NInputs + 1)
        /\ unit' \in [Index -> UnitStates]
        /\ \A i \in Index : unit'[i] = "new" <=> i >= nextInput'
        /\ \A i \in Index : unit[i] # "new" => unit'[i] = unit[i]
        /\ \A i \in Index : unit[i] = "new" => unit'[i] \in {"new", "running"}
        /\ active' = Cardinality(Running') /\ active' \in Nat
        /\ active' <= MaxConcurrent
        /\ active' + Cardinality(partials) <= MaxBuffered
    BY <1>4, LaunchInOrder
  <2>2. \A i \in Index : unit'[i] \in {"ended", "failed"} <=> unit[i] \in {"ended", "failed"}
    BY <2>1
  <2>3. \A i \in Index : (unit'[i] = "ended" <=> unit[i] = "ended")
                         /\ (unit'[i] = "failed" <=> unit[i] = "failed")
    BY <2>1
  <2>4. TypeOK'
    BY <1>1, <1>4, <2>1, InputsAssumption DEF TypeOK, MainStates
  <2>5. BoundsHold' /\ LaunchedInOrder'
    BY <1>4, <2>1 DEF BoundsHold, LaunchedInOrder
  <2>6. nextReduce' <= nextInput'
    BY <1>1, <2>1, InputsAssumption DEF TypeOK
  <2>7. FailureIsKnown'
    BY <1>4, <2>3 DEF FailureIsKnown
  <2>8. Reduced'
    BY <1>1, <1>4, <2>3, InputsAssumption DEF Reduced
  <2>9. NoneLost'
    BY <1>1, <1>4, <2>3 DEF NoneLost, Unreduced
  <2>10. LoopStands'
    <3>1. next <= NInputs => unit'[next] \in {"running", "crossing"}
      <4> SUFFICES ASSUME next <= NInputs PROVE unit'[next] \in {"running", "crossing"}
        OBVIOUS
      <4>1. next \in Index /\ unit[next] # "ended"
        BY <1>4, InputsAssumption DEF Index
      <4> QED
        BY <1>4, <4>1, HeadIsInFlight
    <3> QED
      BY <1>1, <1>4, <3>1, InputsAssumption DEF LoopStands, WaiterIsOwed
  <2> QED
    BY <2>4, <2>5, <2>6, <2>7, <2>8, <2>9, <2>10
<1> QED
  BY <1>2, <1>3, <1>4 DEF Turn

(* A unit in flight ends. *)
LEMMA EndsKeeps ==
  ASSUME IInv, NEW i \in Running, NEW ok \in BOOLEAN, Ends(i, ok)
  PROVE  IInv'
<1> USE DEF IInv
<1>1. i \in Index /\ unit[i] \in {"running", "crossing"}
  BY DEF Running
<1>2. /\ unit' = [unit EXCEPT ![i] = IF ok THEN "ended" ELSE "failed"]
      /\ active' = active - 1
      /\ main' = IF main = "waiting" THEN "notified" ELSE main
      /\ UNCHANGED <<hasBoundary, nextInput, nextReduce, reduced>>
      /\ partials' = IF ok THEN partials \cup {i} ELSE partials
      /\ failure' = IF ok THEN failure ELSE TRUE
  BY DEF Ends
<1>3. /\ unit'[i] = IF ok THEN "ended" ELSE "failed"
      /\ \A j \in Index : j # i => unit'[j] = unit[j]
  BY <1>1, <1>2 DEF TypeOK
<1>4. i >= nextReduce /\ ~(main = "reducing" /\ i = nextReduce)
  BY <1>1, InputsAssumption DEF Reduced, LoopStands, TypeOK, Index
<1>5. main \notin {"called", "resolved"}
  BY <1>1, InputsAssumption DEF LoopStands, LaunchedInOrder, Reduced, TypeOK, Index
<1>6. i \notin partials
  BY <1>1 DEF NoneLost, Unreduced
<1>7. active >= 1 /\ active' = Cardinality(Running') /\ active' \in Nat
  <2>1. Running' = Running \ {i}
    BY <1>1, <1>3 DEF Running
  <2>2. IsFiniteSet(Running) /\ Cardinality(Running) = active
    BY InputsFinite DEF Running, BoundsHold
  <2>3. Cardinality(Running \ {i}) = Cardinality(Running) - 1
    BY <2>2, FS_RemoveElement
  <2>4. Cardinality(Running') \in Nat
    BY <2>1, <2>2, FS_RemoveElement, FS_CardinalityType
  <2> QED
    BY <2>1, <2>2, <2>3, <2>4, <1>2 DEF TypeOK
<1>8. TypeOK'
  <2>1. unit' \in [Index -> UnitStates]
    BY <1>1, <1>2 DEF TypeOK, UnitStates
  <2>2. main' \in MainStates
    BY <1>2 DEF TypeOK, MainStates
  <2>3. failure' \in BOOLEAN
    BY <1>2 DEF TypeOK
  <2> QED
    BY <1>1, <1>2, <1>7, <2>1, <2>2, <2>3 DEF TypeOK
<1>9. BoundsHold'
  <2>1. IsFiniteSet(partials) /\ Cardinality(partials) \in Nat
    BY InputsFinite DEF TypeOK
  <2>2. Cardinality(partials \cup {i}) = Cardinality(partials) + 1
    BY <2>1, <1>6, FS_AddElement
  <2>3. Cardinality(partials') \in Nat /\ Cardinality(partials') <= Cardinality(partials) + 1
    BY <2>1, <2>2, <1>2
  <2> QED
    BY <1>2, <1>7, <2>1, <2>3, BoundsAssumption DEF BoundsHold, TypeOK
<1>10. LaunchedInOrder' /\ nextReduce' <= nextInput'
  BY <1>1, <1>2, <1>3 DEF LaunchedInOrder
<1>11. Reduced'
  <2>1. \A j \in Index : j < nextReduce' => unit'[j] = "ended"
    BY <1>1, <1>2, <1>3 DEF Reduced
  <2> QED
    BY <2>1, <1>2, <1>5 DEF Reduced
<1>12. Unreduced' = IF ok THEN Unreduced \cup {i} ELSE Unreduced
  BY <1>1, <1>2, <1>3, <1>4 DEF Unreduced
<1>13. NoneLost'
  BY <1>2, <1>12 DEF NoneLost
<1>14. FailureIsKnown'
  BY <1>1, <1>2, <1>3 DEF FailureIsKnown
<1>15. LoopStands'
  BY <1>1, <1>2, <1>3, <1>5 DEF LoopStands
<1> QED
  BY <1>8, <1>9, <1>10, <1>11, <1>13, <1>14, <1>15

-----------------------------------------------------------------------------
LEMMA BeginKeeps == IInv /\ Begin => IInv'
<1> SUFFICES ASSUME IInv, Begin PROVE IInv'
  OBVIOUS
<1> USE DEF IInv
<1>1. /\ nextInput = 1 /\ nextReduce = 1 /\ active = 0 /\ reduced = <<>> /\ ~failure
      /\ partials = {} /\ main = "called"
  BY DEF Begin, LoopStands
<1>2. /\ Launch
      /\ main' = IF NInputs = 0 THEN "resolved" ELSE "waiting"
      /\ UNCHANGED <<hasBoundary, nextReduce, partials, failure, reduced>>
  BY DEF Begin
<1>3. /\ nextInput' \in nextInput..(NInputs + 1)
      /\ unit' \in [Index -> UnitStates]
      /\ \A i \in Index : unit'[i] = "new" <=> i >= nextInput'
      /\ \A i \in Index : unit[i] # "new" => unit'[i] = unit[i]
      /\ \A i \in Index : unit[i] = "new" => unit'[i] \in {"new", "running"}
      /\ active' = Cardinality(Running') /\ active' \in Nat
      /\ active' <= MaxConcurrent
      /\ active' + Cardinality(partials) <= MaxBuffered
  BY <1>2, LaunchInOrder
<1>4. \A i \in Index : unit[i] = "new" /\ unit'[i] \in {"new", "running"}
  BY <1>1, <1>3, InputsAssumption DEF LaunchedInOrder, Index
<1>5. TypeOK'
  BY <1>2, <1>3, InputsAssumption DEF TypeOK, MainStates
<1>6. BoundsHold' /\ LaunchedInOrder' /\ nextReduce' <= nextInput'
  BY <1>1, <1>2, <1>3, InputsAssumption DEF BoundsHold, LaunchedInOrder
<1>7. FailureIsKnown'
  BY <1>1, <1>2, <1>4 DEF FailureIsKnown
<1>8. Reduced'
  BY <1>1, <1>2, <1>4, InputsAssumption DEF Reduced, Index
<1>9. NoneLost'
  BY <1>1, <1>2, <1>4 DEF NoneLost, Unreduced
<1>10. LoopStands'
  <2>1. NInputs # 0 => unit'[1] \in {"running", "crossing"}
    BY <1>1, <1>2, <1>4, HeadIsInFlight, InputsAssumption DEF Index
  <2> QED
    BY <1>1, <1>2, <2>1, InputsAssumption DEF LoopStands, WaiterIsOwed
<1> QED
  BY <1>5, <1>6, <1>7, <1>8, <1>9, <1>10

LEMMA WakeKeeps == IInv /\ Wake => IInv'
<1> SUFFICES ASSUME IInv, Wake PROVE IInv'
  OBVIOUS
<1>1. main = "notified" /\ Turn(nextReduce) /\ UNCHANGED <<hasBoundary, failure>>
  BY DEF Wake
<1>2. /\ nextReduce \in 1..(NInputs + 1) /\ nextReduce <= nextInput
      /\ \A i \in Index : i < nextReduce => unit[i] = "ended"
      /\ Len(reduced) = nextReduce - 1
      /\ partials = {i \in Index : unit[i] = "ended" /\ i >= nextReduce}
  BY <1>1 DEF IInv, TypeOK, Reduced, NoneLost, Unreduced
<1> QED
  BY <1>1, <1>2, TurnKeeps

LEMMA ReduceKeeps == IInv /\ (ReduceResolves \/ ReduceRejects) => IInv'
<1>1. ASSUME IInv, ReduceResolves PROVE IInv'
  <2> DEFINE next == nextReduce + 1
  <2>1. main = "reducing" /\ Turn(next) /\ UNCHANGED <<hasBoundary, failure>>
    BY <1>1 DEF ReduceResolves
  <2>2. nextReduce \in Index /\ unit[nextReduce] = "ended" /\ nextReduce <= NInputs
    BY <1>1, <2>1, InputsAssumption DEF IInv, LoopStands, TypeOK, Index
  <2>3. next \in 1..(NInputs + 1) /\ next <= nextInput
    BY <1>1, <2>2, InputsAssumption DEF IInv, LaunchedInOrder, TypeOK, Index
  <2>4. \A i \in Index : i < next => unit[i] = "ended"
    BY <1>1, <2>2, InputsAssumption DEF IInv, Reduced, TypeOK, Index
  <2>5. Len(reduced) = next - 1
    BY <1>1, <2>1, InputsAssumption DEF IInv, Reduced, TypeOK
  <2>6. partials = {i \in Index : unit[i] = "ended" /\ i >= next}
    BY <1>1, <2>1, InputsAssumption DEF IInv, NoneLost, Unreduced, TypeOK, Index
  <2> HIDE DEF next
  <2> QED
    BY <1>1, <2>1, <2>3, <2>4, <2>5, <2>6, TurnKeeps
<1>2. ASSUME IInv, ReduceRejects PROVE IInv'
  <2> USE <1>2 DEF IInv, ReduceRejects
  <2>1. TypeOK'
    BY DEF TypeOK, MainStates
  <2>2. BoundsHold' /\ LaunchedInOrder' /\ nextReduce' <= nextInput' /\ FailureIsKnown'
    BY DEF BoundsHold, Running, LaunchedInOrder, FailureIsKnown
  <2>3. Reduced' /\ LoopStands'
    BY DEF Reduced, LoopStands
  <2>4. NoneLost'
    BY DEF NoneLost, Unreduced
  <2> QED
    BY <2>1, <2>2, <2>3, <2>4
<1> QED
  BY <1>1, <1>2

LEMMA UnitKeeps == ASSUME IInv, NEW i \in Index, UnitStep(i) PROVE IInv'
<1>1. CASE \E ok \in BOOLEAN : i \in Running /\ Ends(i, ok)
  BY <1>1, EndsKeeps
<1>2. CASE /\ unit[i] = "running"
           /\ unit' = [unit EXCEPT ![i] = "crossing"]
           /\ UNCHANGED <<main, hasBoundary, nextInput, nextReduce, active, partials, failure,
                          reduced>>
  <2> USE DEF IInv
  <2>1. unit'[i] = "crossing" /\ \A j \in Index : j # i => unit'[j] = unit[j]
    BY <1>2 DEF TypeOK
  <2>2. TypeOK'
    BY <1>2 DEF TypeOK, UnitStates
  <2>3. BoundsHold'
    <3>1. Running' = Running
      BY <1>2, <2>1 DEF Running
    <3> QED
      BY <1>2, <3>1 DEF BoundsHold
  <2>4. LaunchedInOrder' /\ nextReduce' <= nextInput' /\ FailureIsKnown'
    BY <1>2, <2>1 DEF LaunchedInOrder, FailureIsKnown
  <2>5. Reduced'
    BY <1>2, <2>1 DEF Reduced
  <2>6. NoneLost'
    BY <1>2, <2>1 DEF NoneLost, Unreduced
  <2>7. LoopStands'
    BY <1>2, <2>1, InputsAssumption DEF LoopStands, WaiterIsOwed, TypeOK, Index
  <2> QED
    BY <2>2, <2>3, <2>4, <2>5, <2>6, <2>7
<1> QED
  BY <1>1, <1>2 DEF UnitStep, RunResolves, RunRejects, Crosses, Running

(* The inductive invariant. *)
THEOREM Invariance == Spec => []IInv
<1>1. IInv /\ [Next]_vars => IInv'
  <2> SUFFICES ASSUME IInv, [Next]_vars PROVE IInv'
    OBVIOUS
  <2>1. CASE Loop
    BY <2>1, BeginKeeps, WakeKeeps, ReduceKeeps DEF Loop
  <2>2. CASE \E i \in Index : UnitStep(i)
    BY <2>2, UnitKeeps
  <2>3. CASE UNCHANGED vars
    BY <2>3 DEF vars, IInv, TypeOK, BoundsHold, Running, LaunchedInOrder, Reduced, NoneLost,
                Unreduced, FailureIsKnown, LoopStands, WaiterIsOwed
  <2> QED
    BY <2>1, <2>2, <2>3 DEF Next
<1> QED
  BY <1>1, InitHolds, PTL DEF Spec

-----------------------------------------------------------------------------
(* Every variable has its type, for any inputs and bounds. *)
THEOREM TypeCorrect == Spec => []TypeOK
<1>1. IInv => TypeOK
  BY DEF IInv
<1> QED
  BY <1>1, Invariance, PTL

(* The units in flight and buffered never exceed the caller's bounds. *)
THEOREM BoundsAreKept == Spec => []BoundsHold
<1>1. IInv => BoundsHold
  BY DEF IInv
<1> QED
  BY <1>1, Invariance, PTL

(* The loop never waits without a unit in flight that will wake it. *)
THEOREM WakeUpIsOwed == Spec => []WaiterIsOwed
<1>1. IInv => WaiterIsOwed
  BY DEF IInv, LoopStands, WaiterIsOwed
<1> QED
  BY <1>1, Invariance, PTL

(* A call that resolved has ended every unit and reduced every partial. *)
THEOREM ResolvedIsWhole == Spec => []ResolvedIsComplete
<1>1. IInv => ResolvedIsComplete
  <2> SUFFICES ASSUME IInv, main = "resolved"
               PROVE  (\A i \in Index : unit[i] = "ended") /\ partials = {}
    BY DEF ResolvedIsComplete
  <2>1. nextReduce = NInputs + 1
    BY DEF IInv, LoopStands
  <2>2. \A i \in Index : unit[i] = "ended" /\ i < nextReduce
    BY <2>1, InputsAssumption DEF IInv, Reduced, Index
  <2>3. Unreduced = {}
    BY <2>1, <2>2, InputsAssumption DEF Unreduced, Index
  <2> QED
    BY <2>2, <2>3 DEF IInv, NoneLost
<1> QED
  BY <1>1, Invariance, PTL

(* After a failure, or once the call has rejected, no unit is launched. *)
THEOREM FailureEndsLaunches == Spec => FailureStopsLaunches
<1>1. IInv /\ [Next]_vars =>
        (main = "rejected" \/ (\E j \in Index : unit[j] = "failed") =>
           \A i \in Index : unit[i] = "new" => unit'[i] = "new")
  <2> SUFFICES ASSUME IInv, [Next]_vars,
                      main = "rejected" \/ \E j \in Index : unit[j] = "failed",
                      NEW i \in Index, unit[i] = "new"
               PROVE  unit'[i] = "new"
    OBVIOUS
  <2>1. main = "rejected" \/ failure
    BY DEF IInv, FailureIsKnown
  <2>2. CASE Begin
    BY <2>1, <2>2 DEF Begin, IInv, LoopStands
  <2>3. CASE Wake \/ ReduceResolves \/ ReduceRejects
    BY <2>1, <2>3 DEF Wake, ReduceResolves, ReduceRejects, Turn
  <2>4. ASSUME NEW j \in Index, UnitStep(j) PROVE unit'[i] = "new"
    <3>1. j # i
      BY <2>4 DEF UnitStep, RunResolves, RunRejects, Crosses
    <3> QED
      BY <2>4, <3>1 DEF UnitStep, RunResolves, RunRejects, Crosses, Ends, IInv, TypeOK
  <2>5. CASE UNCHANGED vars
    BY <2>5 DEF vars
  <2> QED
    BY <2>2, <2>3, <2>4, <2>5 DEF Next, Loop
<1> QED
  BY <1>1, Invariance, PTL DEF FailureStopsLaunches, Spec

(* The safety part of the refinement: every step of the fan-in is a step of  *)
(* the ordered reduction or leaves it alone.                                *)
THEOREM ReducesInOrder == Spec => Ordered!Init /\ [][Ordered!Next]_(Ordered!vars)
<1>1. Init => Ordered!Init
  BY DEF Init, Ordered!Init
<1>2. IInv /\ [Next]_vars => [Ordered!Next]_(Ordered!vars)
  <2> SUFFICES ASSUME IInv, [Next]_vars
               PROVE  Ordered!Next \/ UNCHANGED Ordered!vars
    OBVIOUS
  <2> USE DEF Ordered!Next, Ordered!ReduceNext, Ordered!Resolve, Ordered!Reject, Ordered!vars
  <2>1. CASE Begin
    <3>1. main = "called" /\ reduced = <<>> /\ UNCHANGED reduced
      BY <2>1 DEF Begin, IInv, LoopStands
    <3>2. main' = IF NInputs = 0 THEN "resolved" ELSE "waiting"
      BY <2>1 DEF Begin
    <3> QED
      BY <3>1, <3>2, InputsAssumption
  <2>2. ASSUME NEW next \in 1..(NInputs + 1), Turn(next), Len(reduced) = next - 1,
               main \in {"notified", "reducing"}
        PROVE  Ordered!Next \/ UNCHANGED Ordered!vars
    <3>1. CASE next \in partials
      <4>1. next \in Index /\ main' = "reducing" /\ reduced' = Append(reduced, next)
        BY <2>2, <3>1 DEF Turn, IInv, TypeOK
      <4>2. Len(reduced) < NInputs /\ next = Len(reduced) + 1
        BY <2>2, <4>1, InputsAssumption DEF Index
      <4> QED
        BY <2>2, <4>1, <4>2
    <3>2. CASE next \notin partials /\ failure
      <4>1. main' = "rejected" /\ reduced' = reduced
        BY <3>2, <2>2 DEF Turn
      <4> QED
        BY <2>2, <4>1
    <3>3. CASE next \notin partials /\ ~failure
      <4>1. reduced' = reduced /\ main' = IF next > NInputs THEN "resolved" ELSE "waiting"
        BY <3>3, <2>2 DEF Turn
      <4>2. next > NInputs => Len(reduced) = NInputs
        BY <2>2, InputsAssumption
      <4> QED
        BY <2>2, <4>1, <4>2
    <3> QED
      BY <3>1, <3>2, <3>3
  <2>3. CASE Wake
    <3>1. Len(reduced) = nextReduce - 1 /\ nextReduce \in 1..(NInputs + 1)
      BY <2>3 DEF Wake, IInv, Reduced, TypeOK
    <3> QED
      BY <2>2, <2>3, <3>1 DEF Wake
  <2>4. CASE ReduceResolves
    <3> DEFINE next == nextReduce + 1
    <3>1. main = "reducing" /\ Turn(next)
      BY <2>4 DEF ReduceResolves
    <3>2. Len(reduced) = next - 1 /\ next \in 1..(NInputs + 1)
      BY <3>1, InputsAssumption DEF IInv, Reduced, LoopStands, TypeOK
    <3> HIDE DEF next
    <3> QED
      BY <2>2, <3>1, <3>2
  <2>5. CASE ReduceRejects
    BY <2>5 DEF ReduceRejects
  <2>6. CASE \E i \in Index : UnitStep(i)
    BY <2>6 DEF UnitStep, RunResolves, RunRejects, Crosses, Ends
  <2>7. CASE UNCHANGED vars
    BY <2>7 DEF vars
  <2> QED
    BY <2>1, <2>3, <2>4, <2>5, <2>6, <2>7 DEF Next, Loop
<1> QED
  BY <1>1, <1>2, Invariance, PTL DEF Spec

-----------------------------------------------------------------------------
(* Pages: what each variable holds                                            *)
Versions == {o \in [file : Files, v : Nat \ {0}] : o.v <= Len(Contents[o.file])}
AnyRow == [id : Nat, key : Nat, match : BOOLEAN]
Ref == [file : Files, index : Nat \ {0}, row : AnyRow]
Batch == [from : Nat \ {0}, to : Int]
Window == [file : Files, from : Nat \ {0}, to : Nat]
PlanEntry == [object : Versions, ranges : SUBSET Nat]
Bookmark ==
  [plan : Seq(PlanEntry), offset : Nat, given : Seq(AnyRow), listed : Seq(Versions), quiet : BOOLEAN]
Phases == {"idle", "listing", "tasks", "relisting", "scan", "footer", "fetch"}
Call ==
  [phase : Phases, at : Bookmark, maxRows : Nat, listed : Seq(Versions), plan : Seq(PlanEntry),
   quiet : BOOLEAN, objects : Seq(Versions), open : Versions \cup {NoFile}, batches : Seq(Batch),
   kept : Seq(Ref), offsetSkipped : Nat, returned : Nat, windows : Seq(Window), skipped : Nat,
   page : Seq(AnyRow)]

-----------------------------------------------------------------------------
(* Pages: the helpers                                                         *)
Room(a, b) == IF a <= b THEN b - a + 1 ELSE 0

(* A slice of a sequence is a sequence, no longer than its bounds allow.    *)
LEMMA CutIsSeq ==
  ASSUME NEW X, NEW s \in Seq(X), NEW from \in Nat \ {0}, NEW to \in Int
  PROVE  /\ Cut(s, from, to) \in Seq(X)
         /\ Len(Cut(s, from, to)) = Room(from, Smaller(to, Len(s)))
         /\ \A i \in 1..Len(Cut(s, from, to)) : from + i - 1 \in 1..Len(s) /\ Cut(s, from, to)[i] = s[from + i - 1]
<1> DEFINE m == Smaller(to, Len(s))
           c == SubSeq(s, from, m)
<1>1. Len(s) \in Nat /\ m \in Int /\ m <= Len(s) /\ m <= to
  BY DEF Smaller
<1> HIDE DEF m
<1>2. \A i \in from..m : s[i] \in X
  BY <1>1
<1>3. /\ c \in Seq(X)
      /\ Len(c) = IF from <= m THEN m - from + 1 ELSE 0
      /\ \A i \in 1..(m - from + 1) : c[i] = s[from + i - 1]
  <2>1. from \in Int
    OBVIOUS
  <2> QED BY <1>1, <1>2, <2>1, SubSeqProperties
<1> HIDE DEF c
<1>4. Cut(s, from, to) = c
  BY DEF Cut, c, m
<1>5. \A i \in 1..Len(c) : i \in 1..(m - from + 1) /\ from + i - 1 \in 1..Len(s)
  BY <1>1, <1>3
<1> QED BY <1>3, <1>4, <1>5 DEF m, Room

(* The smaller and the larger of two integers are between them.             *)
LEMMA SmallerLarger ==
  ASSUME NEW a \in Int, NEW b \in Int
  PROVE  /\ Smaller(a, b) \in Int /\ Smaller(a, b) <= a /\ Smaller(a, b) <= b /\ Smaller(a, b) \in {a, b}
         /\ Larger(a, b) \in Int /\ Larger(a, b) >= a /\ Larger(a, b) >= b /\ Larger(a, b) \in {a, b}
BY DEF Smaller, Larger

(* A page holds no more than it has room for.                                *)
LEMMA CutBounded ==
  ASSUME NEW X, NEW s \in Seq(X), NEW from \in Nat \ {0}, NEW to \in Int
  PROVE  /\ Cut(s, from, to) \in Seq(X)
         /\ Len(Cut(s, from, to)) <= Room(from, to)
         /\ Len(Cut(s, from, to)) <= Len(s)
<1>1. /\ Cut(s, from, to) \in Seq(X)
      /\ Len(Cut(s, from, to)) = Room(from, Smaller(to, Len(s)))
  BY CutIsSeq
<1>2. Len(s) \in Nat
  OBVIOUS
<1> QED BY <1>1, <1>2 DEF Room, Smaller

(* The contents of a version of a file are rows of that file.               *)
LEMMA ContentsOf ==
  ASSUME NEW o \in Versions
  PROVE  /\ o.file \in Files /\ o.v \in Nat
         /\ Groups(o.file, o.v) \in Seq(Seq(Row)) /\ FileRows(o.file, o.v) \in Seq(Row)
<1>1. o.file \in Files /\ o.v \in Nat \ {0} /\ o.v <= Len(Contents[o.file])
  BY DEF Versions
<1>2. Contents[o.file] \in Seq(Seq(Seq(Row)))
  BY <1>1, ContentsAssumption
<1> DEFINE c == Contents[o.file]
           Y == Seq(Seq(Row))
<1>3. Groups(o.file, o.v) \in Y
  <2>1. c \in Seq(Y) /\ o.v \in 1..Len(c)
    BY <1>1, <1>2
  <2> HIDE DEF c, Y
  <2>2. c[o.v] \in Y
    BY <2>1
  <2> QED BY <2>2 DEF Groups, c
<1> QED BY <1>1, <1>3, FlattenSteps DEF FileRows

(* A row group is cut into batches inside it.                               *)
LEMMA GroupBatchesFit ==
  ASSUME NEW o \in Versions, NEW g \in DOMAIN Groups(o.file, o.v), NEW size \in Nat \ {0}, NEW rowEnd \in Int
  PROVE  GroupBatches(o.file, o.v, g, size, rowEnd) \in Seq(Batch)
<1> DEFINE gs == Groups(o.file, o.v)
           first == RowStart(o.file, o.v, g)
           end == Smaller(first + Len(gs[g]), rowEnd)
           count == IF end <= first THEN 0 ELSE ((end - first) + size - 1) \div size
<1>1. gs \in Seq(Seq(Row))
  BY ContentsOf
<1>2. first \in Nat
  <2> DEFINE Y == Seq(Row)
             t == SubSeq(gs, 1, g - 1)
  <2>1. t \in Seq(Y)
    <3> HIDE DEF Y, gs
    <3>1. gs \in Seq(Y) /\ g \in 1..Len(gs)
      BY <1>1 DEF Y, gs
    <3>2. \A i \in 1..(g - 1) : gs[i] \in Y
      BY <3>1
    <3>3. 1 \in Int /\ g - 1 \in Int
      BY <3>1
    <3> QED BY <3>2, <3>3, SubSeqProperties
  <2> HIDE DEF t
  <2>2. FlattenSeq(t) \in Seq(Row)
    BY <2>1, FlattenSteps
  <2>3. Len(FlattenSeq(t)) \in Nat
    BY <2>2
  <2> QED BY <2>3 DEF RowStart, t
<1>3. Len(gs[g]) \in Nat
  <2>1. gs[g] \in Seq(Row)
    <3> DEFINE Y == Seq(Row)
    <3>1. gs \in Seq(Y) /\ g \in DOMAIN gs
      BY <1>1
    <3> HIDE DEF Y, gs
    <3>2. gs[g] \in Y
      BY <3>1
    <3> QED BY <3>2 DEF Y
  <2> QED BY <2>1
<1> HIDE DEF first
<1>4. end \in Int
  BY <1>2, <1>3, SmallerLarger
<1> HIDE DEF end
<1>5. count \in Nat
  <2>1. CASE end <= first
    BY <2>1
  <2>2. CASE ~(end <= first)
    <3>1. (end - first) + size - 1 \in Nat
      BY <1>2, <1>4, <2>2
    <3>2. ((end - first) + size - 1) \div size \in Nat
      BY <3>1
    <3> QED BY <2>2, <3>2
  <2> QED BY <2>1, <2>2
<1> HIDE DEF count
<1>6. \A k \in 1..count :
         [from |-> first + (k - 1) * size + 1, to |-> Smaller(first + k * size, end)] \in Batch
  <2> TAKE k \in 1..count
  <2>1. k - 1 \in Nat /\ k \in Nat
    BY <1>5
  <2>2. (k - 1) * size \in Nat /\ k * size \in Nat
    BY <2>1
  <2>3. first + (k - 1) * size + 1 \in Nat \ {0} /\ first + k * size \in Int
    BY <1>2, <2>2
  <2>4. Smaller(first + k * size, end) \in Int
    BY <1>4, <2>3, SmallerLarger
  <2> QED BY <2>3, <2>4 DEF Batch
<1> DEFINE F(k) == [from |-> first + (k - 1) * size + 1, to |-> Smaller(first + k * size, end)]
<1>7. GroupBatches(o.file, o.v, g, size, rowEnd) = [k \in 1..count |-> F(k)]
  BY DEF GroupBatches, first, end, count
<1>8. \A k \in 1..count : F(k) \in Batch
  BY <1>6
<1> HIDE DEF F, gs
<1>9. [k \in 1..count |-> F(k)] \in Seq(Batch)
  BY <1>5, <1>8
<1> QED BY <1>7, <1>9

(* The batches of the matching row groups are batches of the file.          *)
LEMMA BatchesFit ==
  ASSUME NEW o \in Versions, NEW size \in Nat \ {0}, NEW rowEnd \in Int
  PROVE  Batches(o.file, o.v, size, rowEnd) \in Seq(Batch)
<1> DEFINE gs == Groups(o.file, o.v)
           Y == Seq(Batch)
           B(g) == IF GroupMayMatch(o.file, o.v, g) THEN GroupBatches(o.file, o.v, g, size, rowEnd) ELSE <<>>
           all == [g \in DOMAIN gs |-> B(g)]
<1>1. \A g \in DOMAIN gs : B(g) \in Y
  <2> TAKE g \in DOMAIN gs
  <2>1. GroupBatches(o.file, o.v, g, size, rowEnd) \in Y /\ <<>> \in Y
    BY GroupBatchesFit
  <2> HIDE DEF Y
  <2> QED BY <2>1
<1>2. \E n \in Nat : DOMAIN gs = 1..n
  <2>1. gs \in Seq(Seq(Row))
    BY ContentsOf
  <2> HIDE DEF gs
  <2> QED BY <2>1
<1>3. all \in Seq(Y)
  <2> HIDE DEF B, Y, gs
  <2> QED BY <1>1, <1>2
<1>4. Batches(o.file, o.v, size, rowEnd) = FlattenSeq(all)
  BY DEF Batches
<1> HIDE DEF all
<1> QED BY <1>3, <1>4, FlattenSteps

(* What a batch refers to are rows of the version that is open.             *)
LEMMA RefsFit ==
  ASSUME NEW o \in Versions, NEW from \in Nat \ {0}, NEW to \in Int
  PROVE  /\ RefsAt(o.file, o.v, from, to) \in Seq(Ref)
         /\ Len(RefsAt(o.file, o.v, from, to)) = Larger(0, Smaller(to, Len(FileRows(o.file, o.v))) - from + 1)
<1> DEFINE rows == FileRows(o.file, o.v)
           end == Smaller(to, Len(rows))
           n == Larger(0, end - from + 1)
           F(i) == [file |-> o.file, index |-> from + i - 1, row |-> rows[from + i - 1]]
<1>1. rows \in Seq(Row) /\ o.file \in Files
  BY ContentsOf
<1>2. RefsAt(o.file, o.v, from, to) = [i \in 1..n |-> F(i)]
  BY DEF RefsAt
<1> HIDE DEF rows
<1>3. Len(rows) \in Nat
  BY <1>1
<1>4. end \in Int /\ end <= Len(rows)
  BY <1>3 DEF Smaller
<1> HIDE DEF end
<1>5. n \in Nat /\ \A i \in 1..n : from + i - 1 \in 1..Len(rows)
  BY <1>3, <1>4 DEF Larger
<1> HIDE DEF n
<1>6. \A i \in 1..n : F(i) \in Ref
  <2> TAKE i \in 1..n
  <2>1. from + i - 1 \in Nat \ {0} /\ from + i - 1 \in 1..Len(rows)
    BY <1>5
  <2>2. rows[from + i - 1] \in Row
    BY <1>1, <2>1
  <2>3. rows[from + i - 1] \in AnyRow
    BY <2>2 DEF Row, AnyRow
  <2> QED BY <1>1, <2>1, <2>3 DEF Ref
<1> HIDE DEF F
<1>7. [i \in 1..n |-> F(i)] \in Seq(Ref) /\ Len([i \in 1..n |-> F(i)]) = n
  BY <1>5, <1>6
<1> QED BY <1>2, <1>7 DEF n, end, rows

(* The filter of a batch.                                                    *)
Filter == [p \in Seq(Ref) \X Ref |-> IF IsSelected(p[2]) THEN Append(p[1], p[2]) ELSE p[1]]

(* The filter keeps a row or drops it.                                      *)
LEMMA FilterSteps == IsStep(Filter, Seq(Ref), Ref)
<1> DEFINE Y == Seq(Ref)
<1>1. \A p \in Y \X Ref : p[1] \in Y /\ p[2] \in Ref
  OBVIOUS
<1>2. \A s \in Y : \A x \in Ref : Append(s, x) \in Y
  OBVIOUS
<1> HIDE DEF Y
<1>3. \A p \in Y \X Ref : (IF IsSelected(p[2]) THEN Append(p[1], p[2]) ELSE p[1]) \in Y
  BY <1>1, <1>2
<1> DEFINE E(p) == IF IsSelected(p[2]) THEN Append(p[1], p[2]) ELSE p[1]
<1>4. Filter = [p \in Y \X Ref |-> E(p)]
  BY DEF Filter, Y
<1>5. \A p \in Y \X Ref : E(p) \in Y
  BY <1>3
<1> HIDE DEF E
<1>6. Filter \in [Y \X Ref -> Y]
  BY <1>4, <1>5
<1> QED BY <1>6 DEF IsStep, Y

(* The selection of a batch is a fold of the filter.                        *)
LEMMA FilterIsFold ==
  ASSUME NEW q \in Seq(Ref)
  PROVE  SelectedOf(q) = Result(Seq(Ref), Filter, <<>>, q)
<1> DEFINE D == DOMAIN q
           A == Seq(Ref)
           E(a, x) == IF IsSelected(x) THEN Append(a, x) ELSE a
           Taken(h, s) == IF s = {} THEN <<>> ELSE E(h[s \ {Max(s)}], q[Max(s)])
           iter == CHOOSE h : h = [s \in SUBSET D |-> Taken(h, s)]
<1>1. SelectedOf(q) = iter[D]
  BY DEF SelectedOf, FoldLeft, MapThenFoldSet
<1>2. <<>> \in A /\ IsStep(Filter, A, Ref)
  BY FilterSteps
<1>3. \A a \in A : \A x \in Ref : Filter[<<a, x>>] = E(a, x)
  BY DEF Filter
<1> HIDE DEF E, A
<1>4. \A s \in SUBSET D : s # {} => q[Max(s)] \in Ref
  BY <1>2, SomeFold
<1>5. PICK h : Recurs(h, A, Filter, <<>>, q)
  BY <1>2, SomeFold
<1>6. iter = [s \in SUBSET D |-> Taken(iter, s)]
  <2>1. \A s \in SUBSET D : h[s] = Taken(h, s)
    <3> TAKE s \in SUBSET D
    <3>1. s # {} => h[s \ {Max(s)}] \in A /\ q[Max(s)] \in Ref
      BY <1>4, <1>5 DEF Recurs
    <3> QED BY <1>3, <1>5, <3>1 DEF Recurs
  <2> HIDE DEF Taken
  <2>2. h = [s \in SUBSET D |-> Taken(h, s)]
    BY <1>5, <2>1 DEF Recurs
  <2> HIDE DEF D
  <2> QED BY <2>2
<1> HIDE DEF iter
<1>7. FoldsBy(iter, A, Filter, <<>>, q)
  <2>1. \A s \in SUBSET D : iter[s] = Taken(iter, s)
    <3> HIDE DEF Taken
    <3> QED BY <1>6
  <2>2. iter[{}] = <<>>
    BY <2>1
  <2>3. \A s \in SUBSET D : s # {} /\ iter[s \ {Max(s)}] \in A =>
          iter[s] = Filter[<<iter[s \ {Max(s)}], q[Max(s)]>>]
    BY <1>3, <1>4, <2>1
  <2> QED BY <2>2, <2>3 DEF FoldsBy
<1>8. iter[D] = Result(A, Filter, <<>>, q)
  BY <1>2, <1>7, FoldIsResult
<1> QED BY <1>1, <1>8 DEF A

(* What is left of a batch are references to its rows.                      *)
LEMMA BatchRefsFit ==
  ASSUME call \in Call, call.batches # <<>>, call.open # NoFile, NEW v, [file |-> call.open.file, v |-> v] \in Versions
  PROVE  BatchRefs(v) \in Seq(Ref)
<1>1. Head(call.batches) \in Batch
  <2>1. call.batches \in Seq(Batch)
    BY DEF Call
  <2> QED BY <2>1
<1> DEFINE b == Head(call.batches)
           o == [file |-> call.open.file, v |-> v]
           refs == RefsAt(o.file, o.v, b.from, b.to)
<1>2. b.from \in Nat \ {0} /\ b.to \in Int
  BY <1>1 DEF Batch
<1>3. o \in Versions
  OBVIOUS
<1>4. BatchRefs(v) = SelectedOf(refs)
  BY DEF BatchRefs
<1> HIDE DEF b, o
<1>5. refs \in Seq(Ref)
  BY <1>2, <1>3, RefsFit
<1> HIDE DEF refs
<1>6. SelectedOf(refs) = Result(Seq(Ref), Filter, <<>>, refs)
  BY <1>5, FilterIsFold
<1>7. <<>> \in Seq(Ref)
  OBVIOUS
<1>8. Result(Seq(Ref), Filter, <<>>, refs) \in Seq(Ref)
  BY <1>5, <1>7, FilterSteps, ResultIsOfRun
<1> QED BY <1>4, <1>6, <1>8

(* The n-th of a set of numbers has n of them up to it.                       *)
LEMMA NthOfSet ==
  ASSUME NEW S, IsFiniteSet(S), S \subseteq Int
  PROVE  /\ \A n \in 1..Cardinality(S) :
              NthOf(S, n) \in S /\ Cardinality({j \in S : j <= NthOf(S, n)}) = n
         /\ \A i \in S : \E n \in 1..Cardinality(S) : NthOf(S, n) = i
         /\ \A m, n \in 1..Cardinality(S) : m < n => NthOf(S, m) < NthOf(S, n)
BY RankedOfSet DEF NthOf, Ranked

(* A sort, by an order on the places that breaks ties by them, moves the       *)
(* elements about.                                                          *)
Moves(s, t) ==
  \E at \in [DOMAIN s -> DOMAIN s] :
    /\ \A i, j \in DOMAIN s : at[i] = at[j] => i = j
    /\ t = [p \in DOMAIN s |-> s[at[p]]]

Arranges(at, R, D) == at \in [D -> D] /\ \A p \in D : 1 + Cardinality(Below(R, D, at[p])) = p

(* A sort moves elements, and neither adds nor loses one.                   *)
LEMMA SortMoves ==
  ASSUME NEW X, NEW s \in Seq(X), NEW R, NEW at, Arranges(at, R, DOMAIN s), NEW t, t = [p \in DOMAIN s |-> s[at[p]]]
  PROVE  Moves(s, t) /\ t \in Seq(X) /\ Len(t) = Len(s)
<1> DEFINE D == DOMAIN s
<1>1. D = 1..Len(s) /\ Len(s) \in Nat
  OBVIOUS
<1>2. at \in [D -> D] /\ \A i, j \in D : at[i] = at[j] => i = j
  BY <1>1 DEF Arranges
<1>3. Moves(s, t)
  BY <1>2 DEF Moves
<1>4. \A p \in D : s[at[p]] \in X
  BY <1>2
<1>5. t \in Seq(X) /\ Len(t) = Len(s)
  <2>1. t = [p \in 1..Len(s) |-> s[at[p]]]
    BY <1>1
  <2>2. \A p \in 1..Len(s) : s[at[p]] \in X
    BY <1>1, <1>4
  <2> DEFINE n == Len(s)
  <2> HIDE DEF D, n
  <2> QED BY <1>1, <2>1, <2>2 DEF n
<1> QED BY <1>3, <1>5

(* Orders by key, by key and position, and by position, ties broken by place.   *)
LEMMA KeyOrder ==
  ASSUME NEW a \in Int, NEW b \in Int, NEW c \in Int, NEW i \in Int, NEW j \in Int, NEW k \in Int,
         a < b \/ (~(b < a) /\ i < j), b < c \/ (~(c < b) /\ j < k)
  PROVE  a < c \/ (~(c < a) /\ i < k)
OBVIOUS

(* The order of positions is strict and total.                              *)
LEMMA PositionOrder ==
  ASSUME NEW a \in Int, NEW b \in Int, NEW c \in Int, NEW m \in Int, NEW n \in Int, NEW o \in Int,
         NEW i \in Int, NEW j \in Int, NEW k \in Int,
         (a < b \/ (a = b /\ m < n)) \/ (~(b < a \/ (b = a /\ n < m)) /\ i < j),
         (b < c \/ (b = c /\ n < o)) \/ (~(c < b \/ (c = b /\ o < n)) /\ j < k)
  PROVE  (a < c \/ (a = c /\ m < o)) \/ (~(c < a \/ (c = a /\ o < m)) /\ i < k)
OBVIOUS

(* The order of the late top-K is strict: equal keys go by position.        *)
LEMMA RefOrder ==
  ASSUME NEW x \in Int, NEW y \in Int, NEW z \in Int, NEW a \in Int, NEW b \in Int, NEW c \in Int,
         NEW m \in Int, NEW n \in Int, NEW o \in Int, NEW i \in Int, NEW j \in Int, NEW k \in Int,
         (x < y \/ (x = y /\ a < b) \/ (x = y /\ a = b /\ m < n))
           \/ (~(y < x \/ (y = x /\ b < a) \/ (y = x /\ b = a /\ n < m)) /\ i < j),
         (y < z \/ (y = z /\ b < c) \/ (y = z /\ b = c /\ n < o))
           \/ (~(z < y \/ (z = y /\ c < b) \/ (z = y /\ c = b /\ o < n)) /\ j < k)
  PROVE  (x < z \/ (x = z /\ a < c) \/ (x = z /\ a = c /\ m < o))
           \/ (~(z < x \/ (z = x /\ c < a) \/ (z = x /\ c = a /\ o < m)) /\ i < k)
OBVIOUS

(* Sorted references are references, and as many.                           *)
LEMMA SortsFit ==
  ASSUME NEW s \in Seq(Ref)
  PROVE  /\ SortedBy(s, KeyBefore) \in Seq(Ref) /\ Len(SortedBy(s, KeyBefore)) = Len(s)
         /\ SortedBy(s, RefBefore) \in Seq(Ref) /\ Len(SortedBy(s, RefBefore)) = Len(s)
         /\ SortedBy(s, PositionBefore) \in Seq(Ref) /\ Len(SortedBy(s, PositionBefore)) = Len(s)
         /\ Moves(s, SortedBy(s, KeyBefore)) /\ Moves(s, SortedBy(s, RefBefore))
         /\ Moves(s, SortedBy(s, PositionBefore))
<1> DEFINE D == DOMAIN s
           key(i) == s[i].row.key
           file(i) == s[i].file
           index(i) == s[i].index
<1>1. \A i \in D : key(i) \in Int /\ file(i) \in Int /\ index(i) \in Int /\ i \in Int
  <2>1. \A i \in D : s[i] \in Ref /\ i \in Int
    OBVIOUS
  <2>2. \A r \in Ref : r.row.key \in Int /\ r.file \in Int /\ r.index \in Int
    BY DEF Ref, AnyRow, Files
  <2> QED BY <2>1, <2>2
<1> DEFINE byKey(i, j) == key(i) < key(j) \/ (~(key(j) < key(i)) /\ i < j)
           refFirst(i, j) == \/ key(i) < key(j)
                             \/ key(i) = key(j) /\ file(i) < file(j)
                             \/ key(i) = key(j) /\ file(i) = file(j) /\ index(i) < index(j)
           byRef(i, j) == refFirst(i, j) \/ (~refFirst(j, i) /\ i < j)
           placeFirst(i, j) == file(i) < file(j) \/ (file(i) = file(j) /\ index(i) < index(j))
           byPlace(i, j) == placeFirst(i, j) \/ (~placeFirst(j, i) /\ i < j)
           K == {p \in D \X D : p[1] # p[2] /\ byKey(p[1], p[2])}
           F == {p \in D \X D : p[1] # p[2] /\ byRef(p[1], p[2])}
           P == {p \in D \X D : p[1] # p[2] /\ byPlace(p[1], p[2])}
<1>3. IsFiniteSet(D) /\ Cardinality(D) = Len(s) /\ D = 1..Len(s) /\ Len(s) \in Nat
  <2>1. D = 1..Len(s) /\ Len(s) \in Nat
    OBVIOUS
  <2>2. IsFiniteSet(1..Len(s)) /\ Cardinality(1..Len(s)) = Len(s)
    BY <2>1, FS_Interval
  <2> QED BY <2>1, <2>2
<1>2. /\ SortedBy(s, KeyBefore) =
           [p \in D |-> s[CHOOSE i \in D : 1 + Cardinality({j \in D : j # i /\ byKey(j, i)}) = p]]
      /\ SortedBy(s, RefBefore) =
           [p \in D |-> s[CHOOSE i \in D : 1 + Cardinality({j \in D : j # i /\ byRef(j, i)}) = p]]
      /\ SortedBy(s, PositionBefore) =
           [p \in D |-> s[CHOOSE i \in D : 1 + Cardinality({j \in D : j # i /\ byPlace(j, i)}) = p]]
  BY DEF SortedBy, KeyBefore, RefBefore, PositionBefore
<1> HIDE DEF key, file, index
<1>4. IsOrder(K, D)
  <2>1. \A i, j \in D : <<i, j>> \in K <=> i # j /\ byKey(i, j)
    BY DEF K
  <2> HIDE DEF D, K
  <2>2. ASSUME NEW i \in D, NEW j \in D PROVE ~(i # j /\ byKey(i, j) /\ byKey(j, i))
    BY <1>1
  <2>3. ASSUME NEW i \in D, NEW j \in D, i # j PROVE byKey(i, j) \/ byKey(j, i)
    BY <1>1, <2>3
  <2>4. ASSUME NEW i \in D, NEW j \in D, NEW k \in D, i # j, j # k, byKey(i, j), byKey(j, k)
        PROVE  i # k /\ byKey(i, k)
    <3>1. /\ key(i) \in Int /\ file(i) \in Int /\ index(i) \in Int /\ i \in Int
          /\ key(j) \in Int /\ file(j) \in Int /\ index(j) \in Int /\ j \in Int
          /\ key(k) \in Int /\ file(k) \in Int /\ index(k) \in Int /\ k \in Int
      BY <1>1
    <3>2. byKey(i, k)
      BY <2>4, <3>1, KeyOrder
    <3> HIDE DEF byKey
    <3> QED BY <2>2, <2>4, <3>2
  <2> HIDE DEF byKey
  <2> QED BY <2>1, <2>2, <2>3, <2>4 DEF IsOrder
<1>5. IsOrder(F, D)
  <2>1. \A i, j \in D : <<i, j>> \in F <=> i # j /\ byRef(i, j)
    BY DEF F
  <2> HIDE DEF D, F
  <2>2. ASSUME NEW i \in D, NEW j \in D PROVE ~(i # j /\ byRef(i, j) /\ byRef(j, i))
    BY <1>1
  <2>3. ASSUME NEW i \in D, NEW j \in D, i # j PROVE byRef(i, j) \/ byRef(j, i)
    BY <1>1, <2>3
  <2>4. ASSUME NEW i \in D, NEW j \in D, NEW k \in D, i # j, j # k, byRef(i, j), byRef(j, k)
        PROVE  i # k /\ byRef(i, k)
    <3>1. /\ key(i) \in Int /\ file(i) \in Int /\ index(i) \in Int /\ i \in Int
          /\ key(j) \in Int /\ file(j) \in Int /\ index(j) \in Int /\ j \in Int
          /\ key(k) \in Int /\ file(k) \in Int /\ index(k) \in Int /\ k \in Int
      BY <1>1
    <3>2. byRef(i, k)
      BY <2>4, <3>1, RefOrder
    <3> HIDE DEF byRef
    <3> QED BY <2>2, <2>4, <3>2
  <2> HIDE DEF byRef
  <2> QED BY <2>1, <2>2, <2>3, <2>4 DEF IsOrder
<1>6. IsOrder(P, D)
  <2>1. \A i, j \in D : <<i, j>> \in P <=> i # j /\ byPlace(i, j)
    BY DEF P
  <2> HIDE DEF D, P
  <2>2. ASSUME NEW i \in D, NEW j \in D PROVE ~(i # j /\ byPlace(i, j) /\ byPlace(j, i))
    BY <1>1
  <2>3. ASSUME NEW i \in D, NEW j \in D, i # j PROVE byPlace(i, j) \/ byPlace(j, i)
    BY <1>1, <2>3
  <2>4. ASSUME NEW i \in D, NEW j \in D, NEW k \in D, i # j, j # k, byPlace(i, j), byPlace(j, k)
        PROVE  i # k /\ byPlace(i, k)
    <3>1. /\ key(i) \in Int /\ file(i) \in Int /\ index(i) \in Int /\ i \in Int
          /\ key(j) \in Int /\ file(j) \in Int /\ index(j) \in Int /\ j \in Int
          /\ key(k) \in Int /\ file(k) \in Int /\ index(k) \in Int /\ k \in Int
      BY <1>1
    <3>2. byPlace(i, k)
      BY <2>4, <3>1, PositionOrder
    <3> HIDE DEF byPlace
    <3> QED BY <2>2, <2>4, <3>2
  <2> HIDE DEF byPlace
  <2> QED BY <2>1, <2>2, <2>3, <2>4 DEF IsOrder
<1>7. Moves(s, SortedBy(s, KeyBefore)) /\ SortedBy(s, KeyBefore) \in Seq(Ref) /\ Len(SortedBy(s, KeyBefore)) = Len(s)
  <2> DEFINE at == [p \in D |-> CHOOSE i \in D : 1 + Cardinality({j \in D : j # i /\ byKey(j, i)}) = p]
  <2>1. \A i \in D : {j \in D : j # i /\ byKey(j, i)} = Below(K, D, i)
    <3> HIDE DEF D, byKey
    <3> QED BY DEF Below, K
  <2>2. SortedBy(s, KeyBefore) = [p \in D |-> s[at[p]]]
    BY <1>2
  <2> HIDE DEF D, byKey, K
  <2>3. \A p \in D : \E i \in D : 1 + Cardinality({j \in D : j # i /\ byKey(j, i)}) = p
    <3>1. \A p \in 1..Cardinality(D) : \E i \in D : 1 + Cardinality(Below(K, D, i)) = p
      BY <1>3, <1>4, EveryPlaceIsTaken
    <3>2. \A p \in D : \E i \in D : 1 + Cardinality(Below(K, D, i)) = p
      BY <1>3, <3>1
    <3> DEFINE c(i) == Cardinality({j \in D : j # i /\ byKey(j, i)})
    <3>3. \A i \in D : c(i) = Cardinality(Below(K, D, i))
      BY <2>1
    <3> HIDE DEF c
    <3>4. \A p \in D : \E i \in D : 1 + c(i) = p
      BY <3>2, <3>3
    <3> QED BY <3>4 DEF c
  <2>4. \A p \in D : at[p] \in D /\ 1 + Cardinality({j \in D : j # at[p] /\ byKey(j, at[p])}) = p
    BY <2>3
  <2>5. Arranges(at, K, D)
    <3>1. at \in [D -> D]
      BY <2>4
    <3> HIDE DEF at
    <3>2. \A p \in D : 1 + Cardinality(Below(K, D, at[p])) = p
      BY <2>1, <2>4
    <3> QED BY <3>1, <3>2 DEF Arranges
  <2> HIDE DEF at
  <2> QED BY <2>2, <2>5, SortMoves DEF D
<1>8. Moves(s, SortedBy(s, RefBefore)) /\ SortedBy(s, RefBefore) \in Seq(Ref) /\ Len(SortedBy(s, RefBefore)) = Len(s)
  <2> DEFINE at == [p \in D |-> CHOOSE i \in D : 1 + Cardinality({j \in D : j # i /\ byRef(j, i)}) = p]
  <2>1. \A i \in D : {j \in D : j # i /\ byRef(j, i)} = Below(F, D, i)
    <3> HIDE DEF D, byRef
    <3> QED BY DEF Below, F
  <2>2. SortedBy(s, RefBefore) = [p \in D |-> s[at[p]]]
    BY <1>2
  <2> HIDE DEF D, byRef, F
  <2>3. \A p \in D : \E i \in D : 1 + Cardinality({j \in D : j # i /\ byRef(j, i)}) = p
    <3>1. \A p \in 1..Cardinality(D) : \E i \in D : 1 + Cardinality(Below(F, D, i)) = p
      BY <1>3, <1>5, EveryPlaceIsTaken
    <3>2. \A p \in D : \E i \in D : 1 + Cardinality(Below(F, D, i)) = p
      BY <1>3, <3>1
    <3> DEFINE c(i) == Cardinality({j \in D : j # i /\ byRef(j, i)})
    <3>3. \A i \in D : c(i) = Cardinality(Below(F, D, i))
      BY <2>1
    <3> HIDE DEF c
    <3>4. \A p \in D : \E i \in D : 1 + c(i) = p
      BY <3>2, <3>3
    <3> QED BY <3>4 DEF c
  <2>4. \A p \in D : at[p] \in D /\ 1 + Cardinality({j \in D : j # at[p] /\ byRef(j, at[p])}) = p
    BY <2>3
  <2>5. Arranges(at, F, D)
    <3>1. at \in [D -> D]
      BY <2>4
    <3> HIDE DEF at
    <3>2. \A p \in D : 1 + Cardinality(Below(F, D, at[p])) = p
      BY <2>1, <2>4
    <3> QED BY <3>1, <3>2 DEF Arranges
  <2> HIDE DEF at
  <2> QED BY <2>2, <2>5, SortMoves DEF D
<1>9. Moves(s, SortedBy(s, PositionBefore)) /\ SortedBy(s, PositionBefore) \in Seq(Ref) /\ Len(SortedBy(s, PositionBefore)) = Len(s)
  <2> DEFINE at == [p \in D |-> CHOOSE i \in D : 1 + Cardinality({j \in D : j # i /\ byPlace(j, i)}) = p]
  <2>1. \A i \in D : {j \in D : j # i /\ byPlace(j, i)} = Below(P, D, i)
    <3> HIDE DEF D, byPlace
    <3> QED BY DEF Below, P
  <2>2. SortedBy(s, PositionBefore) = [p \in D |-> s[at[p]]]
    BY <1>2
  <2> HIDE DEF D, byPlace, P
  <2>3. \A p \in D : \E i \in D : 1 + Cardinality({j \in D : j # i /\ byPlace(j, i)}) = p
    <3>1. \A p \in 1..Cardinality(D) : \E i \in D : 1 + Cardinality(Below(P, D, i)) = p
      BY <1>3, <1>6, EveryPlaceIsTaken
    <3>2. \A p \in D : \E i \in D : 1 + Cardinality(Below(P, D, i)) = p
      BY <1>3, <3>1
    <3> DEFINE c(i) == Cardinality({j \in D : j # i /\ byPlace(j, i)})
    <3>3. \A i \in D : c(i) = Cardinality(Below(P, D, i))
      BY <2>1
    <3> HIDE DEF c
    <3>4. \A p \in D : \E i \in D : 1 + c(i) = p
      BY <3>2, <3>3
    <3> QED BY <3>4 DEF c
  <2>4. \A p \in D : at[p] \in D /\ 1 + Cardinality({j \in D : j # at[p] /\ byPlace(j, at[p])}) = p
    BY <2>3
  <2>5. Arranges(at, P, D)
    <3>1. at \in [D -> D]
      BY <2>4
    <3> HIDE DEF at
    <3>2. \A p \in D : 1 + Cardinality(Below(P, D, at[p])) = p
      BY <2>1, <2>4
    <3> QED BY <3>1, <3>2 DEF Arranges
  <2> HIDE DEF at
  <2> QED BY <2>2, <2>5, SortMoves DEF D
<1> QED BY <1>7, <1>8, <1>9

(* Distinct rows.                                                           *)
IsSeen(seen, ref) == \E i \in DOMAIN seen : seen[i].row.key = ref.row.key
Distinct == [p \in Seq(Ref) \X Ref |-> IF IsSeen(p[1], p[2]) THEN p[1] ELSE Append(p[1], p[2])]

(* The distinct filter keeps a row or drops it.                             *)
LEMMA DistinctSteps == IsStep(Distinct, Seq(Ref), Ref)
<1> DEFINE Y == Seq(Ref)
           E(p) == IF IsSeen(p[1], p[2]) THEN p[1] ELSE Append(p[1], p[2])
<1>1. \A p \in Y \X Ref : p[1] \in Y /\ p[2] \in Ref
  OBVIOUS
<1>2. \A s \in Y : \A x \in Ref : Append(s, x) \in Y
  OBVIOUS
<1>3. Distinct = [p \in Y \X Ref |-> E(p)]
  BY DEF Distinct
<1> HIDE DEF Y
<1>4. \A p \in Y \X Ref : E(p) \in Y
  BY <1>1, <1>2
<1> HIDE DEF E
<1>5. Distinct \in [Y \X Ref -> Y]
  BY <1>3, <1>4
<1> QED BY <1>5 DEF IsStep, Y

(* The distinct rows are a fold of that filter.                             *)
LEMMA DistinctIsFold ==
  ASSUME NEW q \in Seq(Ref)
  PROVE  DistinctRows(q) = Result(Seq(Ref), Distinct, <<>>, q)
<1> DEFINE D == DOMAIN q
           A == Seq(Ref)
           E(a, x) == IF IsSeen(a, x) THEN a ELSE Append(a, x)
           Taken(h, s) == IF s = {} THEN <<>> ELSE E(h[s \ {Max(s)}], q[Max(s)])
           iter == CHOOSE h : h = [s \in SUBSET D |-> Taken(h, s)]
<1>1. DistinctRows(q) = iter[D]
  BY DEF DistinctRows, IsSeen, FoldLeft, MapThenFoldSet
<1>2. <<>> \in A /\ IsStep(Distinct, A, Ref)
  BY DistinctSteps
<1>3. \A a \in A : \A x \in Ref : Distinct[<<a, x>>] = E(a, x)
  BY DEF Distinct
<1> HIDE DEF E, A
<1>4. \A s \in SUBSET D : s # {} => q[Max(s)] \in Ref
  BY <1>2, SomeFold
<1>5. PICK h : Recurs(h, A, Distinct, <<>>, q)
  BY <1>2, SomeFold
<1>6. iter = [s \in SUBSET D |-> Taken(iter, s)]
  <2>1. \A s \in SUBSET D : h[s] = Taken(h, s)
    <3> TAKE s \in SUBSET D
    <3>1. s # {} => h[s \ {Max(s)}] \in A /\ q[Max(s)] \in Ref
      BY <1>4, <1>5 DEF Recurs
    <3> QED BY <1>3, <1>5, <3>1 DEF Recurs
  <2> HIDE DEF Taken
  <2>2. h = [s \in SUBSET D |-> Taken(h, s)]
    BY <1>5, <2>1 DEF Recurs
  <2> HIDE DEF D
  <2> QED BY <2>2
<1> HIDE DEF iter
<1>7. FoldsBy(iter, A, Distinct, <<>>, q)
  <2>1. \A s \in SUBSET D : iter[s] = Taken(iter, s)
    <3> HIDE DEF Taken
    <3> QED BY <1>6
  <2>2. iter[{}] = <<>>
    BY <2>1
  <2>3. \A s \in SUBSET D : s # {} /\ iter[s \ {Max(s)}] \in A =>
          iter[s] = Distinct[<<iter[s \ {Max(s)}], q[Max(s)]>>]
    BY <1>3, <1>4, <2>1
  <2> QED BY <2>2, <2>3 DEF FoldsBy
<1>8. iter[D] = Result(A, Distinct, <<>>, q)
  BY <1>2, <1>7, FoldIsResult
<1> QED BY <1>1, <1>8 DEF A

(* Distinct rows are rows.                                                  *)
LEMMA DistinctFits == ASSUME NEW q \in Seq(Ref) PROVE DistinctRows(q) \in Seq(Ref)
<1>1. <<>> \in Seq(Ref)
  OBVIOUS
<1>2. Result(Seq(Ref), Distinct, <<>>, q) \in Seq(Ref)
  BY <1>1, DistinctSteps, ResultIsOfRun
<1> QED BY <1>2, DistinctIsFold

(* A bounded buffer.                                                        *)
Held(n) == {s \in Seq(Ref) : n # NoLimit => Len(s) <= Larger(1, n)}
Limits == Nat \cup {NoLimit}
ByKey(n) == [p \in Held(n) \X Ref |-> WithCandidate(p[1], p[2], n, KeyBefore)]
ByRef(n) == [p \in Held(n) \X Ref |-> WithCandidate(p[1], p[2], n, RefBefore)]

(* A candidate that takes the place of the worst one is kept for it.        *)
LEMMA ReplacedFits ==
  ASSUME NEW X, NEW s \in Seq(X), NEW x \in X, NEW n
  PROVE  [s EXCEPT ![n] = x] \in Seq(X) /\ Len([s EXCEPT ![n] = x]) = Len(s)
<1> DEFINE t == [s EXCEPT ![n] = x]
           l == Len(s)
<1>1. DOMAIN t = 1..l /\ \A i \in 1..l : t[i] \in X
  OBVIOUS
<1>2. t = [i \in 1..l |-> t[i]]
  OBVIOUS
<1>3. l \in Nat
  OBVIOUS
<1> HIDE DEF t, l
<1>4. t \in Seq(X) /\ Len(t) = l
  BY <1>1, <1>2, <1>3
<1> QED BY <1>4 DEF t, l

(* A candidate is added below the limit or replaces one at it.              *)
LEMMA CandidateFits ==
  ASSUME NEW n \in Limits, NEW s \in Held(n), NEW x \in Ref
  PROVE  WithCandidate(s, x, n, KeyBefore) \in Held(n) /\ WithCandidate(s, x, n, RefBefore) \in Held(n)
<1>1. s \in Seq(Ref) /\ Len(s) \in Nat /\ (n # NoLimit => n \in Nat /\ Len(s) <= Larger(1, n))
  BY DEF Held, Limits
<1>2. ASSUME n = NoLimit \/ Len(s) < n PROVE Append(s, x) \in Held(n)
  <2>1. Append(s, x) \in Seq(Ref) /\ Len(Append(s, x)) = Len(s) + 1
    BY <1>1
  <2>2. n # NoLimit => Len(s) + 1 <= Larger(1, n)
    BY <1>1, <1>2 DEF Larger
  <2> QED BY <2>1, <2>2 DEF Held
<1>3. ASSUME NEW worst PROVE [s EXCEPT ![worst] = x] \in Held(n)
  BY <1>1, ReplacedFits DEF Held
<1>4. WithCandidate(s, x, n, KeyBefore) \in Held(n)
  <2> DEFINE worst == CHOOSE i \in DOMAIN s : /\ \A j \in DOMAIN s : ~KeyBefore(s[i], s[j])
                                              /\ \A j \in 1..(i - 1) : KeyBefore(s[j], s[i])
  <2>1. \/ (n = NoLimit \/ Len(s) < n) /\ WithCandidate(s, x, n, KeyBefore) = Append(s, x)
        \/ WithCandidate(s, x, n, KeyBefore) = s
        \/ WithCandidate(s, x, n, KeyBefore) = [s EXCEPT ![worst] = x]
    BY DEF WithCandidate
  <2> HIDE DEF worst
  <2> QED BY <1>2, <1>3, <2>1
<1>5. WithCandidate(s, x, n, RefBefore) \in Held(n)
  <2> DEFINE worst == CHOOSE i \in DOMAIN s : /\ \A j \in DOMAIN s : ~RefBefore(s[i], s[j])
                                              /\ \A j \in 1..(i - 1) : RefBefore(s[j], s[i])
  <2>1. \/ (n = NoLimit \/ Len(s) < n) /\ WithCandidate(s, x, n, RefBefore) = Append(s, x)
        \/ WithCandidate(s, x, n, RefBefore) = s
        \/ WithCandidate(s, x, n, RefBefore) = [s EXCEPT ![worst] = x]
    BY DEF WithCandidate
  <2> HIDE DEF worst
  <2> QED BY <1>2, <1>3, <2>1
<1> QED BY <1>4, <1>5

(* Both candidate heaps stay within their limit, row by row.                *)
LEMMA ByKeySteps == ASSUME NEW n \in Limits PROVE IsStep(ByKey(n), Held(n), Ref) /\ IsStep(ByRef(n), Held(n), Ref)
<1>1. \A p \in Held(n) \X Ref : p[1] \in Held(n) /\ p[2] \in Ref
  OBVIOUS
<1> DEFINE K(p) == WithCandidate(p[1], p[2], n, KeyBefore)
           R(p) == WithCandidate(p[1], p[2], n, RefBefore)
<1>2. \A p \in Held(n) \X Ref : K(p) \in Held(n) /\ R(p) \in Held(n)
  BY <1>1, CandidateFits
<1>3. ByKey(n) = [p \in Held(n) \X Ref |-> K(p)] /\ ByRef(n) = [p \in Held(n) \X Ref |-> R(p)]
  BY DEF ByKey, ByRef
<1> HIDE DEF K, R
<1>4. ByKey(n) \in [Held(n) \X Ref -> Held(n)] /\ ByRef(n) \in [Held(n) \X Ref -> Held(n)]
  BY <1>2, <1>3
<1> QED BY <1>4 DEF IsStep

(* The columnar top-K over a batch is a fold of its heap.                   *)
LEMMA CollectIsFold ==
  ASSUME BufferRows \in Limits, call.kept \in Held(BufferRows), NEW q \in Seq(Ref)
  PROVE  Collected(q) = Result(Held(BufferRows), ByKey(BufferRows), call.kept, q)
<1> DEFINE D == DOMAIN q
           A == Held(BufferRows)
           E(a, x) == WithCandidate(a, x, BufferRows, KeyBefore)
           Taken(h, s) == IF s = {} THEN call.kept ELSE E(h[s \ {Max(s)}], q[Max(s)])
           iter == CHOOSE h : h = [s \in SUBSET D |-> Taken(h, s)]
<1>1. Collected(q) = iter[D]
  BY DEF Collected, FoldLeft, MapThenFoldSet
<1>2. call.kept \in A /\ IsStep(ByKey(BufferRows), A, Ref)
  BY ByKeySteps
<1>3. \A a \in A : \A x \in Ref : ByKey(BufferRows)[<<a, x>>] = E(a, x)
  BY DEF ByKey
<1> HIDE DEF E, A
<1>4. \A s \in SUBSET D : s # {} => q[Max(s)] \in Ref
  BY <1>2, SomeFold
<1>5. PICK h : Recurs(h, A, ByKey(BufferRows), call.kept, q)
  BY <1>2, SomeFold
<1>6. iter = [s \in SUBSET D |-> Taken(iter, s)]
  <2>1. \A s \in SUBSET D : h[s] = Taken(h, s)
    <3> TAKE s \in SUBSET D
    <3>1. s # {} => h[s \ {Max(s)}] \in A /\ q[Max(s)] \in Ref
      BY <1>4, <1>5 DEF Recurs
    <3> QED BY <1>3, <1>5, <3>1 DEF Recurs
  <2> HIDE DEF Taken
  <2>2. h = [s \in SUBSET D |-> Taken(h, s)]
    BY <1>5, <2>1 DEF Recurs
  <2> HIDE DEF D
  <2> QED BY <2>2
<1> HIDE DEF iter
<1>7. FoldsBy(iter, A, ByKey(BufferRows), call.kept, q)
  <2>1. \A s \in SUBSET D : iter[s] = Taken(iter, s)
    <3> HIDE DEF Taken
    <3> QED BY <1>6
  <2>2. iter[{}] = call.kept
    BY <2>1
  <2>3. \A s \in SUBSET D : s # {} /\ iter[s \ {Max(s)}] \in A =>
          iter[s] = ByKey(BufferRows)[<<iter[s \ {Max(s)}], q[Max(s)]>>]
    BY <1>3, <1>4, <2>1
  <2> QED BY <2>2, <2>3 DEF FoldsBy
<1>8. iter[D] = Result(A, ByKey(BufferRows), call.kept, q)
  BY <1>2, <1>7, FoldIsResult
<1> QED BY <1>1, <1>8 DEF A

(* The late top-K over a batch is a fold of its heap.                       *)
LEMMA RankIsFold ==
  ASSUME TopK \in Limits, call.kept \in Held(TopK), NEW q \in Seq(Ref)
  PROVE  RankedRefs(q) = Result(Held(TopK), ByRef(TopK), call.kept, q)
<1> DEFINE D == DOMAIN q
           A == Held(TopK)
           E(a, x) == WithCandidate(a, x, TopK, RefBefore)
           Taken(h, s) == IF s = {} THEN call.kept ELSE E(h[s \ {Max(s)}], q[Max(s)])
           iter == CHOOSE h : h = [s \in SUBSET D |-> Taken(h, s)]
<1>1. RankedRefs(q) = iter[D]
  BY DEF RankedRefs, FoldLeft, MapThenFoldSet
<1>2. call.kept \in A /\ IsStep(ByRef(TopK), A, Ref)
  BY ByKeySteps
<1>3. \A a \in A : \A x \in Ref : ByRef(TopK)[<<a, x>>] = E(a, x)
  BY DEF ByRef
<1> HIDE DEF E, A
<1>4. \A s \in SUBSET D : s # {} => q[Max(s)] \in Ref
  BY <1>2, SomeFold
<1>5. PICK h : Recurs(h, A, ByRef(TopK), call.kept, q)
  BY <1>2, SomeFold
<1>6. iter = [s \in SUBSET D |-> Taken(iter, s)]
  <2>1. \A s \in SUBSET D : h[s] = Taken(h, s)
    <3> TAKE s \in SUBSET D
    <3>1. s # {} => h[s \ {Max(s)}] \in A /\ q[Max(s)] \in Ref
      BY <1>4, <1>5 DEF Recurs
    <3> QED BY <1>3, <1>5, <3>1 DEF Recurs
  <2> HIDE DEF Taken
  <2>2. h = [s \in SUBSET D |-> Taken(h, s)]
    BY <1>5, <2>1 DEF Recurs
  <2> HIDE DEF D
  <2> QED BY <2>2
<1> HIDE DEF iter
<1>7. FoldsBy(iter, A, ByRef(TopK), call.kept, q)
  <2>1. \A s \in SUBSET D : iter[s] = Taken(iter, s)
    <3> HIDE DEF Taken
    <3> QED BY <1>6
  <2>2. iter[{}] = call.kept
    BY <2>1
  <2>3. \A s \in SUBSET D : s # {} /\ iter[s \ {Max(s)}] \in A =>
          iter[s] = ByRef(TopK)[<<iter[s \ {Max(s)}], q[Max(s)]>>]
    BY <1>3, <1>4, <2>1
  <2> QED BY <2>2, <2>3 DEF FoldsBy
<1>8. iter[D] = Result(A, ByRef(TopK), call.kept, q)
  BY <1>2, <1>7, FoldIsResult
<1> QED BY <1>1, <1>8 DEF A

(* Windows of refs.                                                         *)
IsOfLast(out, ref) ==
  out # <<>> /\ Last(out).file = ref.file /\ ref.index - Last(out).from < WindowRows
Widened(out, ref) == [out EXCEPT ![Len(out)].to = ref.index]
WindowOf(ref) == [file |-> ref.file, from |-> ref.index, to |-> ref.index]
Windowed == [p \in Seq(Window) \X Ref |->
               IF IsOfLast(p[1], p[2]) THEN Widened(p[1], p[2]) ELSE Append(p[1], WindowOf(p[2]))]

(* A row extends the last window or begins a new one.                       *)
LEMMA WindowedSteps == IsStep(Windowed, Seq(Window), Ref)
<1> DEFINE Y == Seq(Window)
           E(p) == IF IsOfLast(p[1], p[2]) THEN Widened(p[1], p[2]) ELSE Append(p[1], WindowOf(p[2]))
<1>1. \A p \in Y \X Ref : p[1] \in Y /\ p[2] \in Ref
  OBVIOUS
<1>2. ASSUME NEW s \in Y, NEW x \in Ref PROVE Append(s, WindowOf(x)) \in Y
  <2>1. WindowOf(x) \in Window
    BY DEF WindowOf, Window, Ref
  <2> QED BY <2>1
<1>3. ASSUME NEW s \in Y, NEW x \in Ref, s # <<>> PROVE Widened(s, x) \in Y
  <2> DEFINE n == Len(s)
             w == [s[n] EXCEPT !.to = x.index]
             t == [s EXCEPT ![n] = w]
  <2>1. n \in Nat /\ n \in 1..n /\ s[n] \in Window /\ DOMAIN s = 1..n
    BY <1>3
  <2>2. w \in Window
    BY <2>1 DEF Window, Ref
  <2>3. Widened(s, x) = t
    BY DEF Widened
  <2> HIDE DEF w
  <2> QED BY <2>1, <2>2, <2>3, ReplacedFits
<1>4. Windowed = [p \in Y \X Ref |-> E(p)]
  BY DEF Windowed
<1> HIDE DEF Y
<1>5. \A p \in Y \X Ref : E(p) \in Y
  BY <1>1, <1>2, <1>3 DEF IsOfLast
<1> HIDE DEF E
<1>6. Windowed \in [Y \X Ref -> Y]
  BY <1>4, <1>5
<1> QED BY <1>6 DEF IsStep, Y

(* The windows are a fold of that step.                                     *)
LEMMA WindowsAreFold ==
  ASSUME NEW q \in Seq(Ref)
  PROVE  WindowsAlong(q) = Result(Seq(Window), Windowed, <<>>, q)
<1> DEFINE D == DOMAIN q
           A == Seq(Window)
           E(a, x) == IF IsOfLast(a, x) THEN Widened(a, x) ELSE Append(a, WindowOf(x))
           Taken(h, s) == IF s = {} THEN <<>> ELSE E(h[s \ {Max(s)}], q[Max(s)])
           iter == CHOOSE h : h = [s \in SUBSET D |-> Taken(h, s)]
<1>1. WindowsAlong(q) = iter[D]
  BY DEF WindowsAlong, IsOfLast, Widened, WindowOf, FoldLeft, MapThenFoldSet
<1>2. <<>> \in A /\ IsStep(Windowed, A, Ref)
  BY WindowedSteps
<1>3. \A a \in A : \A x \in Ref : Windowed[<<a, x>>] = E(a, x)
  BY DEF Windowed
<1> HIDE DEF E, A
<1>4. \A s \in SUBSET D : s # {} => q[Max(s)] \in Ref
  BY <1>2, SomeFold
<1>5. PICK h : Recurs(h, A, Windowed, <<>>, q)
  BY <1>2, SomeFold
<1>6. iter = [s \in SUBSET D |-> Taken(iter, s)]
  <2>1. \A s \in SUBSET D : h[s] = Taken(h, s)
    <3> TAKE s \in SUBSET D
    <3>1. s # {} => h[s \ {Max(s)}] \in A /\ q[Max(s)] \in Ref
      BY <1>4, <1>5 DEF Recurs
    <3> QED BY <1>3, <1>5, <3>1 DEF Recurs
  <2> HIDE DEF Taken
  <2>2. h = [s \in SUBSET D |-> Taken(h, s)]
    BY <1>5, <2>1 DEF Recurs
  <2> HIDE DEF D
  <2> QED BY <2>2
<1> HIDE DEF iter
<1>7. FoldsBy(iter, A, Windowed, <<>>, q)
  <2>1. \A s \in SUBSET D : iter[s] = Taken(iter, s)
    <3> HIDE DEF Taken
    <3> QED BY <1>6
  <2>2. iter[{}] = <<>>
    BY <2>1
  <2>3. \A s \in SUBSET D : s # {} /\ iter[s \ {Max(s)}] \in A =>
          iter[s] = Windowed[<<iter[s \ {Max(s)}], q[Max(s)]>>]
    BY <1>3, <1>4, <2>1
  <2> QED BY <2>2, <2>3 DEF FoldsBy
<1>8. iter[D] = Result(A, Windowed, <<>>, q)
  BY <1>2, <1>7, FoldIsResult
<1> QED BY <1>1, <1>8 DEF A

(* The windows of references are windows of their files.                    *)
LEMMA WindowsFit == ASSUME NEW refs \in Seq(Ref) PROVE Windows(refs) \in Seq(Window)
<1>1. <<>> \in Seq(Window)
  OBVIOUS
<1>2. SortedBy(refs, PositionBefore) \in Seq(Ref)
  BY SortsFit
<1> DEFINE q == SortedBy(refs, PositionBefore)
<1>3. Windows(refs) = WindowsAlong(q)
  BY DEF Windows
<1>4. q \in Seq(Ref)
  BY <1>2
<1> HIDE DEF q
<1>5. Result(Seq(Window), Windowed, <<>>, q) \in Seq(Window)
  BY <1>1, <1>4, WindowedSteps, ResultIsOfRun
<1> QED BY <1>3, <1>4, <1>5, WindowsAreFold

(* The query.                                                               *)
LEMMA QueryFits ==
  ASSUME query \in Queries
  PROVE  /\ query.offset \in Nat /\ query.batchSize \in Nat \ {0} /\ BufferRows \in Limits
         /\ Limited => query.limit \in Nat /\ TopK \in Nat /\ TopK \in Limits
         /\ ScanBatchSize \in Nat \ {0}
<1>1. query \in QueryShape
  BY QueriesAssumption
<1>2. query.offset \in Nat /\ query.batchSize \in Nat \ {0} /\ query.limit \in Nat \cup {NoLimit}
  BY <1>1 DEF QueryShape
<1>3. Limited => query.limit \in Nat /\ TopK \in Nat
  BY <1>2 DEF Limited, TopK
<1>4. BufferRows \in Limits
  BY <1>3 DEF BufferRows, Limits
<1>5. ScanBatchSize \in Nat \ {0}
  <2>1. query.batchSize \in Nat \ {0} /\ Larger(query.batchSize, DefaultColumnarBatchSize) \in Nat \ {0}
    BY <1>2 DEF Larger, DefaultColumnarBatchSize
  <2>2. Limited => Smaller(query.batchSize, Larger(1, TopK)) \in Nat \ {0}
    BY <1>2, <1>3 DEF Smaller, Larger
  <2> DEFINE a == Smaller(query.batchSize, Larger(1, TopK))
             b == Larger(query.batchSize, DefaultColumnarBatchSize)
  <2>3. ScanBatchSize = CASE Route \in {"rows", "columnar"} -> IF Limited THEN a ELSE query.batchSize
                          [] Route = "collect" -> query.batchSize
                          [] OTHER -> b
    BY DEF ScanBatchSize
  <2> HIDE DEF a, b
  <2>4. Limited => a \in Nat \ {0}
    BY <2>2 DEF a
  <2>5. b \in Nat \ {0}
    BY <2>1 DEF b
  <2>6. Route = "collect" => Route \notin {"rows", "columnar"}
    OBVIOUS
  <2>7. ScanBatchSize \in {a, query.batchSize, b} /\ (ScanBatchSize = a => Limited \/ a \in {b, query.batchSize})
    BY <2>3, <2>6
  <2> QED BY <1>2, <2>4, <2>5, <2>7
<1> QED BY <1>2, <1>3, <1>4, <1>5 DEF Limits

(* Each route is taken by the shapes it can serve.                          *)
LEMMA RouteFits ==
  /\ Route \in {"collect", "rankedRefs", "columnTopK", "rows", "lateLimit", "columnar"}
  /\ Route \in {"rankedRefs", "columnTopK", "lateLimit"} => Limited /\ ~query.distinct
BY DEF Route

(* The buffers.                                                             *)
LEMMA FirstFits ==
  ASSUME NEW s \in Seq(Ref), NEW k \in Nat
  PROVE  FirstK(s, k) \in Seq(Ref) /\ Len(FirstK(s, k)) <= Larger(1, k) /\ Len(FirstK(s, k)) <= k
<1> DEFINE t == SortedBy(s, KeyBefore)
<1>1. t \in Seq(Ref)
  BY SortsFit
<1>2. FirstK(s, k) = Cut(t, 1, k)
  BY DEF FirstK
<1> HIDE DEF t
<1>3. Cut(t, 1, k) \in Seq(Ref) /\ Len(Cut(t, 1, k)) <= Room(1, k) /\ Len(Cut(t, 1, k)) \in Nat
  <2>1. 1 \in Nat \ {0} /\ k \in Int
    OBVIOUS
  <2>2. Cut(t, 1, k) \in Seq(Ref) /\ Len(Cut(t, 1, k)) <= Room(1, k)
    BY <1>1, <2>1, CutBounded
  <2> QED BY <2>2
<1>4. Room(1, k) <= Larger(1, k) /\ Room(1, k) <= k /\ Room(1, k) \in Nat /\ Larger(1, k) \in Nat
  BY DEF Room, Larger
<1> HIDE DEF Room
<1> QED BY <1>2, <1>3, <1>4

(* What a route retains is within the buffer it has.                        *)
LEMMA RetainedFits ==
  ASSUME query \in Queries, Route \notin {"rows", "columnar"}, call.kept \in Seq(Ref),
         Limited /\ ~query.distinct => Len(call.kept) <= Larger(1, TopK),
         Route = "lateLimit" => Len(call.kept) < Larger(1, TopK),
         NEW refs \in Seq(Ref)
  PROVE  /\ Retained(refs) \in Seq(Ref)
         /\ Limited /\ ~query.distinct => Len(Retained(refs)) <= Larger(1, TopK)
<1>1. CASE Route = "collect"
  <2>1. Retained(refs) = Collected(refs)
    BY <1>1 DEF Retained
  <2>2. BufferRows \in Limits /\ call.kept \in Held(BufferRows)
    BY QueryFits DEF Held, BufferRows
  <2>3. Collected(refs) = Result(Held(BufferRows), ByKey(BufferRows), call.kept, refs)
    BY <2>2, CollectIsFold
  <2>4. Result(Held(BufferRows), ByKey(BufferRows), call.kept, refs) \in Held(BufferRows)
    BY <2>2, ByKeySteps, ResultIsOfRun
  <2>5. Retained(refs) \in Held(BufferRows)
    BY <2>1, <2>3, <2>4
  <2>6. Limited /\ ~query.distinct => BufferRows = TopK /\ TopK # NoLimit
    BY QueryFits, QueriesAssumption DEF BufferRows
  <2> QED BY <2>5, <2>6 DEF Held
<1>2. CASE Route = "columnTopK"
  <2> DEFINE both == call.kept \o FirstK(refs, TopK)
  <2>1. Retained(refs) = FirstK(both, TopK)
    BY <1>2 DEF Retained
  <2>2. TopK \in Nat
    BY <1>2, RouteFits, QueryFits
  <2>3. FirstK(refs, TopK) \in Seq(Ref)
    BY <2>2, FirstFits
  <2>4. both \in Seq(Ref)
    BY <2>3
  <2> HIDE DEF both
  <2> QED BY <2>1, <2>2, <2>4, FirstFits
<1>3. CASE Route = "rankedRefs"
  <2>1. Retained(refs) = RankedRefs(refs)
    BY <1>3 DEF Retained
  <2>2. TopK \in Limits /\ TopK \in Nat /\ Limited /\ ~query.distinct
    BY <1>3, RouteFits, QueryFits
  <2>3. call.kept \in Held(TopK)
    BY <2>2 DEF Held
  <2>4. RankedRefs(refs) = Result(Held(TopK), ByRef(TopK), call.kept, refs)
    BY <2>2, <2>3, RankIsFold
  <2>5. Result(Held(TopK), ByRef(TopK), call.kept, refs) \in Held(TopK)
    BY <2>2, <2>3, ByKeySteps, ResultIsOfRun
  <2>6. Retained(refs) \in Held(TopK)
    BY <2>1, <2>4, <2>5
  <2>7. TopK # NoLimit
    BY <2>2, QueriesAssumption
  <2> QED BY <2>6, <2>7 DEF Held
<1>4. CASE Route = "lateLimit"
  <2> DEFINE both == call.kept \o refs
             k == Larger(TopK, Len(call.kept) + 1)
  <2>1. Retained(refs) = Cut(both, 1, k)
    BY <1>4 DEF Retained
  <2>2. TopK \in Nat
    BY <1>4, RouteFits, QueryFits
  <2>3. both \in Seq(Ref) /\ Len(call.kept) \in Nat
    OBVIOUS
  <2>4. k \in Int /\ k >= 1 /\ k <= Larger(1, TopK)
    BY <1>4, <2>2, <2>3 DEF Larger
  <2> HIDE DEF both, k
  <2>5. Cut(both, 1, k) \in Seq(Ref) /\ Len(Cut(both, 1, k)) <= Room(1, k)
    <3>1. 1 \in Nat \ {0}
      OBVIOUS
    <3> QED BY <2>3, <2>4, <3>1, CutBounded
  <2>6. Len(Cut(both, 1, k)) \in Nat /\ Room(1, k) = k /\ Larger(1, TopK) \in Nat
    BY <2>2, <2>4, <2>5 DEF Room, Larger
  <2> QED BY <2>1, <2>4, <2>5, <2>6
<1> QED BY <1>1, <1>2, <1>3, <1>4, RouteFits

(* Counting rows up to a bound stays within it.                             *)
LEMMA AddUpTo ==
  ASSUME NEW a \in Nat, NEW b \in Nat, NEW k \in Nat, NEW d, d = b - a, k <= d
  PROVE  a + k \in Nat /\ a + k <= b
OBVIOUS

(* The rows that the streaming routes give out.                              *)
LEMMA StreamedFits ==
  ASSUME query \in Queries, call.kept \in Seq(Ref), call.offsetSkipped \in Nat, call.offsetSkipped <= query.offset,
         call.returned \in Nat, Limited => call.returned <= query.limit, NEW refs \in Seq(Ref)
  PROVE  /\ Streamed(refs).out \in Seq(Ref) /\ Streamed(refs).seen \in Seq(Ref)
         /\ ~query.distinct => Streamed(refs).seen = <<>>
         /\ Streamed(refs).skipped \in Nat /\ Streamed(refs).skipped <= query.offset
         /\ Limited => call.returned + Len(Streamed(refs).out) <= query.limit
<1> DEFINE both == DistinctRows(call.kept \o refs)
           new == IF query.distinct THEN SubSeq(both, Len(call.kept) + 1, Len(both)) ELSE refs
           due == query.offset - call.offsetSkipped
           room == IF Limited THEN query.limit - call.returned ELSE Len(new)
           processed == Cut(new, 1, due + room + 1)
           out == Cut(new, due + 1, due + room)
<1>1. /\ Streamed(refs).out = out
      /\ Streamed(refs).seen = IF query.distinct THEN call.kept \o processed ELSE <<>>
      /\ Streamed(refs).skipped = call.offsetSkipped + Smaller(due, Len(new))
  BY DEF Streamed
<1>2. both \in Seq(Ref)
  <2>1. call.kept \o refs \in Seq(Ref)
    OBVIOUS
  <2> QED BY <2>1, DistinctFits
<1>3. new \in Seq(Ref)
  <2> HIDE DEF both
  <2> DEFINE m == Len(call.kept) + 1
             n == Len(both)
  <2>1. m \in Nat \ {0} /\ n \in Nat /\ \A i \in m..n : both[i] \in Ref
    BY <1>2
  <2> HIDE DEF m, n
  <2>2. SubSeq(both, m, n) \in Seq(Ref)
    BY <2>1, SubSeqProperties
  <2> QED BY <2>2 DEF m, n
<1> HIDE DEF new
<1>4. due \in Nat /\ Len(new) \in Nat
  BY <1>3, QueryFits
<1>5. room \in Nat
  BY <1>4, QueryFits
<1> HIDE DEF due, room
<1>6. /\ out \in Seq(Ref) /\ Len(out) <= Room(due + 1, due + room)
      /\ processed \in Seq(Ref)
  <2>1. due + 1 \in Nat \ {0} /\ due + room \in Int /\ 1 \in Nat \ {0} /\ due + room + 1 \in Int
    BY <1>4, <1>5
  <2> QED BY <1>3, <2>1, CutBounded
<1> HIDE DEF out, processed
<1>7. Room(due + 1, due + room) <= room /\ Room(due + 1, due + room) \in Nat /\ Len(out) \in Nat
  BY <1>4, <1>5, <1>6 DEF Room
<1>8. Limited => call.returned + Len(out) <= query.limit
  <2> HIDE DEF Room
  <2> SUFFICES ASSUME Limited PROVE call.returned + Len(out) <= query.limit
    OBVIOUS
  <2>1. Len(out) <= room
    BY <1>5, <1>6, <1>7
  <2>2. room = query.limit - call.returned
    BY DEF room
  <2>3. query.limit \in Nat
    BY QueryFits
  <2> QED BY <1>7, <2>1, <2>2, <2>3
<1>9. call.kept \o processed \in Seq(Ref) /\ <<>> \in Seq(Ref)
  BY <1>6
<1>10. call.offsetSkipped + Smaller(due, Len(new)) \in Nat /\ call.offsetSkipped + Smaller(due, Len(new)) <= query.offset
  <2>1. query.offset \in Nat
    BY QueryFits
  <2>2. due = query.offset - call.offsetSkipped
    BY DEF due
  <2> DEFINE k == Smaller(due, Len(new))
  <2>3. k \in Nat /\ k <= due
    BY <1>4 DEF Smaller
  <2> HIDE DEF k
  <2>4. call.offsetSkipped + k \in Nat /\ call.offsetSkipped + k <= query.offset
    BY <2>1, <2>2, <2>3, AddUpTo
  <2> QED BY <2>4 DEF k
<1> QED BY <1>1, <1>6, <1>8, <1>9, <1>10

(* The rows of a batch that go to the page.                                  *)
ButForPage(d, c) ==
  /\ d.phase = c.phase /\ d.at = c.at /\ d.maxRows = c.maxRows /\ d.listed = c.listed /\ d.plan = c.plan
  /\ d.quiet = c.quiet /\ d.objects = c.objects /\ d.open = c.open /\ d.batches = c.batches /\ d.kept = c.kept
  /\ d.offsetSkipped = c.offsetSkipped /\ d.returned = c.returned

(* Filling the page leaves it within the rows that are asked for.           *)
LEMMA DeliverFits ==
  ASSUME NEW c \in Call, c.skipped <= c.at.offset, Len(c.page) <= c.maxRows, NEW refs \in Seq(Ref)
  PROVE  /\ Deliver(c, refs).call \in Call
         /\ Deliver(c, refs).call.skipped <= c.at.offset
         /\ Len(Deliver(c, refs).call.page) <= c.maxRows
         /\ ButForPage(Deliver(c, refs).call, c)
         /\ Deliver(c, refs).more \in BOOLEAN
<1> DEFINE skip == Smaller(Len(refs), c.at.offset - c.skipped)
           rest == [i \in 1..(Len(refs) - skip) |-> refs[skip + i].row]
           room == c.maxRows - Len(c.page)
           more == Cut(rest, 1, room)
           page == c.page \o more
           skipped == c.skipped + skip
           next == [c EXCEPT !.skipped = skipped, !.page = page]
<1>1. Deliver(c, refs) = [call |-> next, more |-> Len(rest) > room]
  BY DEF Deliver
<1>2. /\ c.skipped \in Nat /\ c.maxRows \in Nat /\ c.page \in Seq(AnyRow) /\ c.at.offset \in Nat
      /\ Len(c.page) \in Nat /\ Len(refs) \in Nat
  <2>1. c.skipped \in Nat /\ c.maxRows \in Nat /\ c.page \in Seq(AnyRow) /\ c.at \in Bookmark
    BY DEF Call
  <2>2. c.at.offset \in Nat
    BY <2>1 DEF Bookmark
  <2> QED BY <2>1, <2>2
<1>3. skip \in Nat /\ skip <= Len(refs) /\ c.skipped + skip <= c.at.offset
  BY <1>2 DEF Smaller
<1> HIDE DEF skip
<1>4. rest \in Seq(AnyRow)
  <2> DEFINE n == Len(refs) - skip
             F(i) == refs[skip + i].row
  <2>1. n \in Nat /\ \A i \in 1..n : skip + i \in 1..Len(refs)
    BY <1>2, <1>3
  <2>2. \A i \in 1..n : F(i) \in AnyRow
    <3> TAKE i \in 1..n
    <3>1. refs[skip + i] \in Ref
      BY <2>1
    <3> QED BY <3>1 DEF Ref
  <2> HIDE DEF n, F
  <2>3. [i \in 1..n |-> F(i)] \in Seq(AnyRow)
    BY <2>1, <2>2
  <2> QED BY <2>3 DEF n, F
<1> HIDE DEF rest
<1>5. room \in Nat
  BY <1>2
<1>6. more \in Seq(AnyRow) /\ Len(more) <= room /\ Len(more) \in Nat
  <2>1. 1 \in Nat \ {0} /\ room \in Int
    BY <1>5
  <2> HIDE DEF room
  <2>2. more \in Seq(AnyRow) /\ Len(more) <= Room(1, room)
    BY <1>4, <2>1, CutBounded
  <2>3. Len(more) \in Nat
    BY <2>2
  <2> HIDE DEF more
  <2> QED BY <1>5, <2>2, <2>3 DEF Room
<1> HIDE DEF more
<1>7. page \in Seq(AnyRow) /\ Len(page) = Len(c.page) + Len(more)
  BY <1>2, <1>6
<1>8. Len(page) <= c.maxRows
  BY <1>2, <1>6, <1>7
<1>9. skipped \in Nat /\ skipped <= c.at.offset
  BY <1>2, <1>3
<1> HIDE DEF page, skipped, room
<1>10. next \in Call /\ next.skipped = skipped /\ next.page = page /\ ButForPage(next, c)
  BY <1>7, <1>9 DEF Call, ButForPage
<1> HIDE DEF next
<1>11. Deliver(c, refs).call = next /\ Deliver(c, refs).more \in BOOLEAN
  BY <1>1
<1> QED BY <1>8, <1>9, <1>10, <1>11

(* Listings and plans.                                                      *)
LEMMA ListingFits ==
  ASSUME store \in [Files -> [v : Nat, there : BOOLEAN]],
         \A f \in Files : store[f].v <= Len(Contents[f]) /\ (There(f) => store[f].v > 0)
  PROVE  /\ Listing \in Seq(Versions)
         /\ \A i \in DOMAIN Listing : There(Listing[i].file) /\ Listing[i] = Object(Listing[i].file)
         /\ \A f \in Files : There(f) => \E i \in DOMAIN Listing : Listing[i] = Object(f)
         /\ \A f \in Files : There(f) => Object(f) \in Versions
<1> DEFINE present == {f \in Files : There(f)}
           n == Cardinality(present)
<1>1. Files \subseteq Int /\ IsFiniteSet(present) /\ n \in Nat /\ present \subseteq Int
  <2>1. IsFiniteSet(Files) /\ Files \subseteq Int
    BY NFilesAssumption, FS_Interval DEF Files
  <2> QED BY <2>1, FS_Subset, FS_CardinalityType
<1>2. Listing = [i \in 1..n |-> Object(NthOf(present, i))]
  BY DEF Listing
<1> HIDE DEF n
<1>3. /\ \A i \in 1..n : NthOf(present, i) \in present
      /\ \A f \in present : \E i \in 1..n : NthOf(present, i) = f
  <2> HIDE DEF present
  <2> QED BY <1>1, NthOfSet DEF n
<1>4. \A f \in Files : There(f) => Object(f) \in Versions /\ Object(f).file = f
  <2> SUFFICES ASSUME NEW f \in Files, There(f) PROVE Object(f) \in Versions /\ Object(f).file = f
    OBVIOUS
  <2> DEFINE v == store[f].v
  <2>1. v \in Nat /\ v <= Len(Contents[f]) /\ v > 0
    OBVIOUS
  <2>2. Object(f) = [file |-> f, v |-> v]
    BY DEF Object
  <2> HIDE DEF v
  <2> QED BY <2>1, <2>2 DEF Versions
<1>5. \A i \in 1..n : Object(NthOf(present, i)) \in Versions
  BY <1>3, <1>4
<1> DEFINE F(i) == Object(NthOf(present, i))
<1>6. [i \in 1..n |-> F(i)] \in Seq(Versions) /\ DOMAIN [i \in 1..n |-> F(i)] = 1..n
  <2>1. \A i \in 1..n : F(i) \in Versions
    BY <1>5
  <2> HIDE DEF F
  <2> QED BY <1>1, <2>1
<1>7. \A i \in 1..n : Listing[i] = Object(NthOf(present, i))
  BY <1>2
<1> QED BY <1>2, <1>3, <1>4, <1>6, <1>7

(* A manifest has an entry for each object that is listed.                  *)
LEMMA ManifestFits ==
  ASSUME NEW listed \in Seq(Versions), NEW footer,
         \A i \in DOMAIN listed : [file |-> listed[i].file, v |-> footer[i]] \in Versions
  PROVE  /\ Manifest(listed, footer) \in Seq(PlanEntry)
         /\ DOMAIN Manifest(listed, footer) = DOMAIN listed
         /\ \A i \in DOMAIN listed : Manifest(listed, footer)[i].object = listed[i]
<1> DEFINE n == Len(listed)
           F(i) == [object |-> listed[i], ranges |-> Ranges(listed[i].file, footer[i])]
<1>1. n \in Nat /\ DOMAIN listed = 1..n /\ \A i \in 1..n : listed[i] \in Versions
  OBVIOUS
<1>2. Manifest(listed, footer) = [i \in 1..n |-> F(i)]
  BY <1>1 DEF Manifest
<1>3. ASSUME NEW i \in 1..n PROVE F(i) \in PlanEntry
  <2> DEFINE o == [file |-> listed[i].file, v |-> footer[i]]
  <2>1. Groups(o.file, o.v) \in Seq(Seq(Row))
    BY <1>1, ContentsOf
  <2>2. DOMAIN Groups(o.file, o.v) \subseteq Nat
    <3> DEFINE q == Groups(o.file, o.v)
    <3>1. q \in Seq(Seq(Row))
      BY <2>1
    <3> HIDE DEF q
    <3>2. DOMAIN q \subseteq Nat
      BY <3>1
    <3> QED BY <3>2 DEF q
  <2>3. Ranges(listed[i].file, footer[i]) \in SUBSET Nat
    BY <2>2 DEF Ranges
  <2> QED BY <1>1, <2>3 DEF PlanEntry
<1>4. \A i \in 1..n : F(i).object = listed[i]
  OBVIOUS
<1> HIDE DEF F, n
<1> QED BY <1>1, <1>2, <1>3, <1>4

-----------------------------------------------------------------------------
(* Pages: types and buffers                                                   *)
StoreFits == \A f \in Files : store[f].v <= Len(Contents[f]) /\ (There(f) => store[f].v > 0)
CallFits(c, marks) ==
  /\ c.at \in marks \cup {FirstPage} /\ c.maxRows \in PageSizes \cup {0}
  /\ c.skipped <= c.at.offset /\ c.offsetSkipped <= query.offset
  /\ Limited => c.returned <= query.limit
  /\ Len(c.page) <= c.maxRows
  /\ c.batches # <<>> \/ c.phase = "footer" => c.open # NoFile
  /\ Limited /\ ~query.distinct => Len(c.kept) <= Larger(1, TopK)
  /\ Route = "lateLimit" /\ c.phase \in {"scan", "footer"} =>
       \/ c.phase = "scan" /\ c.batches = <<>> /\ c.objects = <<>>
       \/ Len(c.kept) < Larger(1, TopK)
  /\ c.phase \in {"listing", "tasks", "relisting"} => c.kept = <<>> /\ c.batches = <<>>
Kinds == {"none", "page", "stale", "failed", "budget"}

PagesTyped ==
  /\ store \in [Files -> [v : Nat, there : BOOLEAN]] /\ StoreFits
  /\ planCache \in Seq(Versions)
  /\ query \in Queries
  /\ counted \in [files : Nat, returned : Nat]
  /\ call \in Call /\ CallFits(call, bookmarks)
  /\ bookmarks \subseteq Bookmark
  /\ reply.kind \in Kinds /\ reply.call \in Call
  /\ writes \in [puts : Nat, deletes : Nat] /\ writes.puts + writes.deletes <= MaxWrites
  /\ calls \in 0..MaxCalls

(* The first page starts at zero with no plan.                              *)
LEMMA FirstPageFits == FirstPage \in Bookmark /\ FirstPage.offset = 0 /\ NoListing \in Seq(Versions)
BY DEF FirstPage, Bookmark, NoListing

(* The call of an idle query is a call.                                     *)
LEMMA IdleFits ==
  ASSUME query \in Queries, NEW marks
  PROVE  IdleCall \in Call /\ CallFits(IdleCall, marks)
<1>1. IdleCall \in Call
  BY FirstPageFits DEF IdleCall, Call, Phases
<1>2. query.offset \in Nat /\ (Limited => query.limit \in Nat /\ TopK \in Nat)
  BY QueryFits
<1>3. Len(<<>>) = 0 /\ 0 <= 0
  OBVIOUS
<1>4. Limited => 0 < Larger(1, TopK) /\ 0 <= Larger(1, TopK) /\ 0 <= query.limit
  BY <1>2 DEF Larger
<1>5. 0 <= query.offset
  BY <1>2
<1> QED BY <1>1, <1>3, <1>4, <1>5, FirstPageFits, RouteFits DEF CallFits, IdleCall

Begun(at, maxRows) == [IdleCall EXCEPT !.phase = "listing", !.at = at, !.maxRows = maxRows]

(* A call that has begun is a call.                                         *)
LEMMA BegunFits ==
  ASSUME query \in Queries, NEW marks, NEW at \in Bookmark, at \in marks \cup {FirstPage},
         NEW maxRows \in PageSizes
  PROVE  Begun(at, maxRows) \in Call /\ CallFits(Begun(at, maxRows), marks)
<1> DEFINE c == Begun(at, maxRows)
<1>1. IdleCall \in Call
  BY IdleFits
<1>2. query.offset \in Nat /\ (Limited => query.limit \in Nat /\ TopK \in Nat)
  BY QueryFits
<1>3. Len(<<>>) = 0
  OBVIOUS
<1>4. Limited => 0 < Larger(1, TopK) /\ 0 <= Larger(1, TopK) /\ 0 <= query.limit
  BY <1>2 DEF Larger
<1>5. 0 <= query.offset
  BY <1>2
<1>6. maxRows \in Nat /\ 0 <= maxRows
  BY PageSizesAssumption
<1>7. at.offset \in Nat /\ 0 <= at.offset
  BY DEF Bookmark
<1>8. c \in Call
  BY <1>1, <1>6 DEF Call, Phases, Begun
<1>9. /\ c.phase = "listing" /\ c.at = at /\ c.maxRows = maxRows /\ c.skipped = 0 /\ c.offsetSkipped = 0
      /\ c.returned = 0 /\ c.page = <<>> /\ c.batches = <<>> /\ c.kept = <<>>
  BY DEF IdleCall, Begun
<1> HIDE DEF c
<1>10. CallFits(c, marks)
  BY <1>3, <1>4, <1>5, <1>6, <1>7, <1>9, RouteFits DEF CallFits
<1> QED BY <1>8, <1>10 DEF c

(* What is said of a call depends on the call and the query only.           *)
LEMMA CallFitsNext ==
  ASSUME query' = query, CallFits(call', bookmarks')
  PROVE  CallFits(call, bookmarks)'
BY DEF CallFits, Limited, TopK, Route

(* What a step of a slice has to see to.                                     *)
LEMMA StepFits ==
  ASSUME PagesTyped, UNCHANGED <<store, query, writes, calls>>,
         planCache' \in Seq(Versions), counted' \in [files : Nat, returned : Nat],
         call' \in Call, CallFits(call', bookmarks'), bookmarks' \subseteq Bookmark,
         reply'.kind \in Kinds, reply'.call \in Call
  PROVE  PagesTyped'
<1>1. CallFits(call, bookmarks)'
  BY CallFitsNext
<1> QED BY <1>1 DEF PagesTyped, StoreFits, There

(* A call that ends leaves an idle query.                                   *)
LEMMA EndFits ==
  ASSUME PagesTyped, UNCHANGED <<store, query, writes, calls, bookmarks>>,
         planCache' \in Seq(Versions), counted' \in [files : Nat, returned : Nat],
         NEW c \in Call, NEW kind \in Kinds, NEW more, Ended(c, kind, more)
  PROVE  PagesTyped'
<1>1. call' = IdleCall /\ reply'.kind \in Kinds /\ reply'.call \in Call
  BY DEF Ended
<1>2. query \in Queries /\ bookmarks \subseteq Bookmark
  BY DEF PagesTyped
<1>3. IdleCall \in Call /\ CallFits(IdleCall, bookmarks')
  BY <1>2, IdleFits
<1> QED BY <1>1, <1>2, <1>3, StepFits

(* A page that is returned is within the rows that were asked for.          *)
LEMMA ReturnFits ==
  ASSUME PagesTyped, UNCHANGED <<store, query, writes, calls, planCache>>,
         counted' \in [files : Nat, returned : Nat],
         NEW c \in Call, NEW more, Return(c, more)
  PROVE  PagesTyped'
<1>1. call' = IdleCall /\ reply'.kind \in Kinds /\ reply'.call \in Call
  BY DEF Return, Ended, Kinds
<1>2. query \in Queries /\ bookmarks \subseteq Bookmark /\ planCache \in Seq(Versions)
  BY DEF PagesTyped
<1>3. IdleCall \in Call /\ CallFits(IdleCall, bookmarks')
  BY <1>2, IdleFits
<1> DEFINE b == [plan |-> c.plan, offset |-> c.at.offset + Len(c.page), given |-> c.at.given \o c.page,
                 listed |-> c.listed, quiet |-> c.quiet /\ c.at.quiet]
<1>4. b \in Bookmark
  <2>1. /\ c.plan \in Seq(PlanEntry) /\ c.at \in Bookmark /\ c.page \in Seq(AnyRow)
        /\ c.listed \in Seq(Versions) /\ c.quiet \in BOOLEAN
    BY DEF Call
  <2>2. c.at.offset \in Nat /\ c.at.given \in Seq(AnyRow) /\ c.at.quiet \in BOOLEAN
    BY <2>1 DEF Bookmark
  <2>3. c.at.offset + Len(c.page) \in Nat /\ c.at.given \o c.page \in Seq(AnyRow)
    BY <2>1, <2>2
  <2>4. (c.quiet /\ c.at.quiet) \in BOOLEAN
    OBVIOUS
  <2> QED BY <2>1, <2>3, <2>4 DEF Bookmark
<1>5. bookmarks' \subseteq bookmarks \cup {b}
  BY DEF Return
<1> HIDE DEF b
<1> QED BY <1>1, <1>2, <1>3, <1>4, <1>5, StepFits

(* The parts of the invariant that the actions need.                          *)
LEMMA CallParts ==
  ASSUME PagesTyped
  PROVE  /\ query \in Queries /\ call \in Call /\ planCache \in Seq(Versions) /\ bookmarks \subseteq Bookmark
         /\ counted.files \in Nat /\ counted.returned \in Nat
         /\ reply.kind \in Kinds /\ reply.call \in Call /\ counted \in [files : Nat, returned : Nat]
         /\ call.at \in Bookmark /\ call.at \in bookmarks \cup {FirstPage} /\ call.maxRows \in Nat
         /\ call.listed \in Seq(Versions) /\ call.plan \in Seq(PlanEntry) /\ call.quiet \in BOOLEAN
         /\ call.objects \in Seq(Versions) /\ call.open \in Versions \cup {NoFile} /\ call.batches \in Seq(Batch)
         /\ call.kept \in Seq(Ref) /\ call.offsetSkipped \in Nat /\ call.returned \in Nat
         /\ call.windows \in Seq(Window) /\ call.skipped \in Nat /\ call.page \in Seq(AnyRow)
         /\ call.skipped <= call.at.offset /\ call.offsetSkipped <= query.offset
         /\ Limited => call.returned <= query.limit
         /\ Len(call.page) <= call.maxRows
         /\ call.batches # <<>> \/ call.phase = "footer" => call.open \in Versions
         /\ Limited /\ ~query.distinct => Len(call.kept) <= Larger(1, TopK)
<1>1. call \in Call /\ CallFits(call, bookmarks)
  BY DEF PagesTyped
<1> QED BY <1>1 DEF PagesTyped, Call, CallFits

(* What can be read of an open object are versions of it.                   *)
LEMMA ReadableFits ==
  ASSUME PagesTyped, NEW o \in Versions, NEW v \in Readable(o)
  PROVE  [file |-> o.file, v |-> v] \in Versions
<1>1. o.file \in Files /\ o.v \in Nat \ {0} /\ o.v <= Len(Contents[o.file])
  BY DEF Versions
<1>2. CASE v = o.v
  BY <1>1, <1>2 DEF Versions
<1>3. CASE v # o.v
  <2>1. There(o.file) /\ v = store[o.file].v
    BY <1>3 DEF Readable
  <2>2. store[o.file].v \in Nat /\ store[o.file].v <= Len(Contents[o.file]) /\ store[o.file].v > 0
    BY <1>1, <2>1 DEF PagesTyped, StoreFits
  <2> QED BY <1>1, <2>1, <2>2 DEF Versions
<1> QED BY <1>2, <1>3

(* What the next batch refers to are rows of the open object.               *)
LEMMA ReadRefsFit ==
  ASSUME PagesTyped, call.batches # <<>>, NEW v \in Readable(call.open)
  PROVE  BatchRefs(v) \in Seq(Ref)
<1>1. call \in Call /\ call.open \in Versions /\ call.open # NoFile
  <2>1. call.open # NoFile
    BY DEF PagesTyped, CallFits
  <2> QED BY <2>1, CallParts
<1>2. [file |-> call.open.file, v |-> v] \in Versions
  BY <1>1, ReadableFits
<1> QED BY <1>1, <1>2, BatchRefsFit

(* The store holds versions of the files.                                   *)
LEMMA StoreParts ==
  ASSUME PagesTyped
  PROVE  /\ Listing \in Seq(Versions) /\ Expanded \in Seq(Versions)
         /\ \A f \in Files : There(f) => Object(f) \in Versions
<1>1. Listing \in Seq(Versions) /\ \A f \in Files : There(f) => Object(f) \in Versions
  BY ListingFits DEF PagesTyped, StoreFits
<1> QED BY <1>1, CallParts DEF Expanded

(* A call begins from a bookmark that was given out.                        *)
LEMMA SliceTyped ==
  ASSUME PagesTyped, NEW at \in {FirstPage} \cup bookmarks, NEW maxRows \in PageSizes, Slice(at, maxRows)
  PROVE  PagesTyped'
<1>1. at \in Bookmark /\ at \in bookmarks \cup {FirstPage} /\ query \in Queries
  BY FirstPageFits DEF PagesTyped
<1>2. call' \in Call /\ CallFits(call', bookmarks)
  <2>1. call' = Begun(at, maxRows)
    BY DEF Slice, Begun
  <2> QED BY <1>1, <2>1, BegunFits
<1>3. CallFits(call, bookmarks)'
  <2>1. bookmarks' = bookmarks /\ query' = query
    BY DEF Slice
  <2> QED BY <1>2, <2>1, CallFitsNext
<1>4. reply'.kind \in Kinds /\ reply'.call \in Call
  BY <1>1, IdleFits DEF Slice, NoReply, Kinds
<1>5. counted' \in [files : Nat, returned : Nat]
  BY DEF Slice, PagesTyped
<1>6. calls' \in 0..MaxCalls
  BY PagesBoundsAssumption DEF Slice, PagesTyped
<1>7. UNCHANGED <<store, planCache, query, bookmarks, writes>>
  BY DEF Slice
<1> QED BY <1>2, <1>3, <1>4, <1>5, <1>6, <1>7 DEF PagesTyped, StoreFits, There

(* ListPlan keeps what each variable holds.                                 *)
LEMMA ListPlanTyped == ASSUME PagesTyped, ListPlan PROVE PagesTyped'
<1>1. UNCHANGED <<store, query, counted, bookmarks, writes, calls>> /\ call.phase = "listing"
  BY DEF ListPlan, Expand
<1>2. planCache' \in Seq(Versions)
  BY CallParts, StoreParts DEF ListPlan, Expand
<1>3. counted' \in [files : Nat, returned : Nat] /\ "failed" \in Kinds /\ "budget" \in Kinds
  BY <1>1, CallParts DEF Kinds
<1> DEFINE ended == Ended(call, "failed", FALSE) \/ Ended(call, "budget", FALSE)
<1>4. CASE ended
  BY <1>1, <1>2, <1>3, <1>4, CallParts, EndFits
<1>5. CASE ~ended
  <2> DEFINE c == [call EXCEPT !.phase = "tasks", !.listed = Expanded, !.quiet = (Expanded = Listing)]
  <2>1. call' = c /\ reply' = reply
    BY <1>5 DEF ListPlan, Expand
  <2>2. c \in Call
    BY CallParts, StoreParts DEF Call, Phases
  <2>3. CallFits(c, bookmarks)
    BY <1>1 DEF PagesTyped, CallFits, Call
  <2> HIDE DEF c
  <2> QED BY <1>1, <1>2, <1>3, <2>1, <2>2, <2>3, CallParts, StepFits
<1> HIDE DEF ended
<1> QED BY <1>4, <1>5

(* ListScan keeps what each variable holds.                                 *)
LEMMA ListScanTyped == ASSUME PagesTyped, ListScan PROVE PagesTyped'
<1>1. UNCHANGED <<store, query, counted, bookmarks, writes, calls>> /\ call.phase = "relisting"
  BY DEF ListScan, Expand
<1>2. planCache' \in Seq(Versions)
  BY CallParts, StoreParts DEF ListScan, Expand
<1>3. counted' \in [files : Nat, returned : Nat] /\ "failed" \in Kinds /\ "budget" \in Kinds
  BY <1>1, CallParts DEF Kinds
<1> DEFINE ended == Ended(call, "failed", FALSE) \/ Ended(call, "budget", FALSE)
<1>4. CASE ended
  BY <1>1, <1>2, <1>3, <1>4, CallParts, EndFits
<1>5. CASE ~ended
  <2> DEFINE c == [call EXCEPT !.phase = "scan", !.objects = Expanded]
  <2>1. call' = c /\ reply' = reply
    BY <1>5 DEF ListScan, Expand
  <2>2. c \in Call
    BY CallParts, StoreParts DEF Call, Phases
  <2>3. /\ call.kept = <<>> /\ call.batches = <<>> /\ CallFits(call, bookmarks)
    BY <1>1 DEF PagesTyped, CallFits
  <2>4. Route = "lateLimit" => Len(<<>>) < Larger(1, TopK)
    <3>1. Route = "lateLimit" => TopK \in Nat
      BY QueryFits, RouteFits, CallParts
    <3>2. Len(<<>>) = 0
      OBVIOUS
    <3> QED BY <3>1, <3>2 DEF Larger
  <2>5. /\ c.at = call.at /\ c.maxRows = call.maxRows /\ c.skipped = call.skipped /\ c.page = call.page
        /\ c.offsetSkipped = call.offsetSkipped /\ c.returned = call.returned /\ c.batches = call.batches
        /\ c.open = call.open /\ c.kept = call.kept /\ c.phase = "scan"
    BY CallParts DEF Call
  <2> HIDE DEF c
  <2>6. CallFits(c, bookmarks)
    BY <2>3, <2>4, <2>5 DEF CallFits
  <2> QED BY <1>1, <1>2, <1>3, <2>1, <2>2, <2>6, CallParts, StepFits
<1> HIDE DEF ended
<1> QED BY <1>4, <1>5

(* PlanTasks keeps what each variable holds.                                *)
LEMMA PlanTasksTyped == ASSUME PagesTyped, PlanTasks PROVE PagesTyped'
<1>1. UNCHANGED <<store, planCache, query, counted, bookmarks, writes, calls>> /\ call.phase = "tasks"
  BY DEF PlanTasks
<1>2. PICK footer \in Footers : Compare([call EXCEPT !.plan = Manifest(call.listed, footer)])
  BY DEF PlanTasks
<1> DEFINE plan == Manifest(call.listed, footer)
           planned == [call EXCEPT !.plan = plan]
           c == [planned EXCEPT !.phase = "relisting"]
<1>3. plan \in Seq(PlanEntry)
  <2>1. \A i \in DOMAIN call.listed : call.listed[i] \in Versions
    BY CallParts
  <2>2. \A i \in DOMAIN call.listed : footer[i] \in Readable(call.listed[i])
    BY <1>2 DEF Footers
  <2>3. \A i \in DOMAIN call.listed : [file |-> call.listed[i].file, v |-> footer[i]] \in Versions
    BY <2>1, <2>2, ReadableFits
  <2> QED BY <2>3, CallParts, ManifestFits
<1>4. Ended(planned, "stale", FALSE) \/ (call' = c /\ reply' = reply)
  BY <1>2 DEF Compare
<1> HIDE DEF plan
<1>5. planned \in Call /\ c \in Call
  BY <1>3, CallParts DEF Call, Phases
<1>6. planCache' \in Seq(Versions) /\ counted' \in [files : Nat, returned : Nat] /\ "stale" \in Kinds
  BY <1>1, CallParts DEF Kinds
<1>7. CallFits(c, bookmarks)
  BY <1>1 DEF PagesTyped, CallFits, Call
<1> HIDE DEF c, planned
<1> DEFINE stale == Ended(planned, "stale", FALSE)
           goes == call' = c /\ reply' = reply
<1>8. CASE stale
  BY <1>1, <1>5, <1>6, <1>8, CallParts, EndFits
<1>9. CASE goes
  BY <1>1, <1>5, <1>6, <1>7, <1>9, CallParts, StepFits
<1>10. stale \/ goes
  BY <1>4
<1> HIDE DEF stale, goes
<1> QED BY <1>8, <1>9, <1>10

(* ReadFails keeps what each variable holds.                                *)
LEMMA ReadFailsTyped == ASSUME PagesTyped, ReadFails PROVE PagesTyped'
<1>1. UNCHANGED <<store, planCache, query, counted, bookmarks, writes, calls>> /\ Ended(call, "failed", FALSE)
  BY DEF ReadFails
<1>2. "failed" \in Kinds
  BY DEF Kinds
<1> QED BY <1>1, <1>2, CallParts, EndFits

(* OpenFile keeps what each variable holds.                                 *)
LEMMA OpenFileTyped == ASSUME PagesTyped, OpenFile PROVE PagesTyped'
<1>1. /\ UNCHANGED <<store, planCache, query, bookmarks, writes, calls>>
      /\ call.phase = "scan" /\ call.batches = <<>> /\ call.objects # <<>>
  BY DEF OpenFile
<1>2. counted' \in [files : Nat, returned : Nat] /\ "budget" \in Kinds /\ "failed" \in Kinds
  <2> DEFINE n == counted.files + 1
  <2>1. counted' = [counted EXCEPT !.files = n]
    BY DEF OpenFile
  <2>2. n \in Nat /\ counted \in [files : Nat, returned : Nat]
    BY CallParts
  <2> HIDE DEF n
  <2>3. counted' \in [files : Nat, returned : Nat]
    BY <2>1, <2>2
  <2> QED BY <2>3 DEF Kinds
<1> DEFINE f == Head(call.objects).file
           c == [call EXCEPT !.phase = "footer", !.objects = Tail(@), !.open = Object(f)]
           ended == Ended(call, "budget", FALSE) \/ Ended(call, "failed", FALSE)
           goes == There(f) /\ call' = c /\ reply' = reply
<1>3. ended \/ goes
  BY DEF OpenFile
<1>4. CASE ended
  BY <1>1, <1>2, <1>4, CallParts, EndFits
<1>5. CASE goes
  <2>1. f \in Files /\ Tail(call.objects) \in Seq(Versions)
    BY <1>1, CallParts, HeadTailProperties DEF Versions
  <2>2. Object(f) \in Versions
    BY <1>5, <2>1, StoreParts
  <2>3. c \in Call
    BY <2>1, <2>2, CallParts DEF Call, Phases
  <2>4. c.open = Object(f) /\ c.open # NoFile
    BY <2>2, CallParts DEF Call, NoFile, Object, Versions, Files
  <2>5. Route = "lateLimit" => Len(call.kept) < Larger(1, TopK)
    BY <1>1 DEF PagesTyped, CallFits
  <2>6. /\ c.at = call.at /\ c.maxRows = call.maxRows /\ c.skipped = call.skipped /\ c.page = call.page
        /\ c.offsetSkipped = call.offsetSkipped /\ c.returned = call.returned
        /\ c.kept = call.kept /\ c.phase = "footer"
    BY CallParts DEF Call
  <2>7. call' = c /\ reply' = reply
    BY <1>5
  <2> HIDE DEF c, f
  <2>8. CallFits(c, bookmarks)
    BY <2>4, <2>5, <2>6 DEF CallFits, PagesTyped
  <2> QED BY <1>1, <1>2, <2>3, <2>7, <2>8, CallParts, StepFits
<1> HIDE DEF ended, goes
<1> QED BY <1>3, <1>4, <1>5

(* ReadFooter keeps what each variable holds.                               *)
LEMMA ReadFooterTyped == ASSUME PagesTyped, ReadFooter PROVE PagesTyped'
<1>1. UNCHANGED <<store, planCache, query, counted, bookmarks, reply, writes, calls>> /\ call.phase = "footer"
  BY DEF ReadFooter
<1>2. PICK v \in Readable(call.open) : call' = CutBy(call.open.file, v)
  BY DEF ReadFooter
<1> DEFINE f == call.open.file
           o == [file |-> f, v |-> v]
           batches == Batches(f, v, ScanBatchSize, RowEnd(f, v))
           c == [call EXCEPT !.phase = "scan", !.batches = batches]
<1>3. call.open \in Versions /\ o \in Versions
  BY <1>1, CallParts, ReadableFits
<1>4. batches \in Seq(Batch)
  <2>1. ScanBatchSize \in Nat \ {0}
    BY CallParts, QueryFits
  <2>2. RowEnd(f, v) \in Int
    <3>1. Limited => query.limit - call.returned \in Int
      BY CallParts, QueryFits
    <3>2. Unbounded(f, v) \in Int
      <4>1. FileRows(o.file, o.v) \in Seq(Row)
        BY <1>3, ContentsOf
      <4>2. Len(FileRows(o.file, o.v)) \in Int
        BY <4>1
      <4> QED BY <4>2 DEF Unbounded
    <3> QED BY <3>1, <3>2 DEF RowEnd
  <2>3. Batches(o.file, o.v, ScanBatchSize, RowEnd(f, v)) \in Seq(Batch)
    BY <1>3, <2>1, <2>2, BatchesFit
  <2> QED BY <2>3
<1>5. call' = c
  BY <1>2 DEF CutBy
<1> HIDE DEF batches
<1>6. c \in Call
  BY <1>4, CallParts DEF Call, Phases
<1>7. Route = "lateLimit" => Len(call.kept) < Larger(1, TopK)
  BY <1>1 DEF PagesTyped, CallFits
<1>8. /\ c.at = call.at /\ c.maxRows = call.maxRows /\ c.skipped = call.skipped /\ c.page = call.page
      /\ c.offsetSkipped = call.offsetSkipped /\ c.returned = call.returned
      /\ c.kept = call.kept /\ c.phase = "scan" /\ c.open = call.open /\ call.open # NoFile
  <2>1. call.open # NoFile
    BY <1>1 DEF PagesTyped, CallFits
  <2> QED BY <2>1, CallParts DEF Call
<1> HIDE DEF c
<1>9. CallFits(c, bookmarks)
  BY <1>7, <1>8 DEF CallFits, PagesTyped
<1> QED BY <1>1, <1>5, <1>6, <1>9, CallParts, StepFits

(* Steps of the streaming routes.                                            *)
LEMMA StreamBatchTyped == ASSUME PagesTyped, StreamBatch PROVE PagesTyped'
<1>1. UNCHANGED <<store, planCache, query, writes, calls>> /\ call.phase = "scan" /\ call.batches # <<>>
  BY DEF StreamBatch
<1>2. PICK v \in Readable(call.open) : GiveOut(Streamed(BatchRefs(v)))
  BY DEF StreamBatch
<1> DEFINE rows == Streamed(BatchRefs(v))
           moved == StreamedCall(rows)
           next == Deliver(moved, rows.out)
<1>3. BatchRefs(v) \in Seq(Ref)
  BY <1>1, ReadRefsFit
<1>4. /\ rows.out \in Seq(Ref) /\ rows.seen \in Seq(Ref)
      /\ ~query.distinct => rows.seen = <<>>
      /\ rows.skipped \in Nat /\ rows.skipped <= query.offset
      /\ Limited => call.returned + Len(rows.out) <= query.limit
  <2> DEFINE refs == BatchRefs(v)
  <2>1. refs \in Seq(Ref)
    BY <1>3
  <2> HIDE DEF refs
  <2>2. /\ Streamed(refs).out \in Seq(Ref) /\ Streamed(refs).seen \in Seq(Ref)
        /\ ~query.distinct => Streamed(refs).seen = <<>>
        /\ Streamed(refs).skipped \in Nat /\ Streamed(refs).skipped <= query.offset
        /\ Limited => call.returned + Len(Streamed(refs).out) <= query.limit
    BY <2>1, CallParts, StreamedFits
  <2> QED BY <2>2 DEF refs
<1> HIDE DEF rows
<1>5. /\ counted' = [counted EXCEPT !.returned = counted.returned + Len(rows.out)]
      /\ \/ Ended(call, "budget", FALSE) /\ bookmarks' = bookmarks
         \/ Return(next.call, next.more)
         \/ call' = next.call /\ bookmarks' = bookmarks /\ reply' = reply
  BY <1>2 DEF GiveOut, rows
<1>6. counted' \in [files : Nat, returned : Nat] /\ "budget" \in Kinds
  <2> DEFINE n == counted.returned + Len(rows.out)
  <2>1. n \in Nat /\ counted \in [files : Nat, returned : Nat]
    <3>1. counted.returned \in Nat /\ counted \in [files : Nat, returned : Nat]
      BY CallParts
    <3>2. Len(rows.out) \in Nat
      BY <1>4
    <3> QED BY <3>1, <3>2
  <2> HIDE DEF n
  <2>2. counted' \in [files : Nat, returned : Nat]
    BY <1>5, <2>1 DEF n
  <2> QED BY <2>2 DEF Kinds
<1>7. /\ moved \in Call /\ moved.at = call.at /\ moved.maxRows = call.maxRows /\ moved.skipped = call.skipped
      /\ moved.page = call.page /\ moved.phase = "scan" /\ moved.open = call.open /\ moved.kept = rows.seen
      /\ moved.offsetSkipped = rows.skipped /\ moved.returned = call.returned + Len(rows.out)
  <2> DEFINE n == call.returned + Len(rows.out)
             rest == Tail(call.batches)
  <2>1. n \in Nat /\ rest \in Seq(Batch)
    <3>1. call.returned \in Nat /\ call.batches \in Seq(Batch)
      BY CallParts
    <3>2. Len(rows.out) \in Nat
      BY <1>4
    <3>3. rest \in Seq(Batch)
      BY <1>1, <3>1, HeadTailProperties
    <3> QED BY <3>1, <3>2, <3>3
  <2>2. moved = [call EXCEPT !.batches = rest, !.kept = rows.seen, !.offsetSkipped = rows.skipped, !.returned = n]
    BY DEF StreamedCall
  <2> HIDE DEF n, rest, moved
  <2>3. /\ moved \in Call /\ moved.at = call.at /\ moved.maxRows = call.maxRows /\ moved.skipped = call.skipped
        /\ moved.page = call.page /\ moved.phase = "scan" /\ moved.open = call.open /\ moved.kept = rows.seen
        /\ moved.offsetSkipped = rows.skipped /\ moved.returned = n
    BY <1>1, <1>4, <2>1, <2>2, CallParts DEF Call
  <2> QED BY <2>3 DEF n
<1> HIDE DEF moved
<1>8. /\ next.call \in Call /\ next.call.skipped <= moved.at.offset
      /\ Len(next.call.page) <= moved.maxRows /\ ButForPage(next.call, moved)
  BY <1>4, <1>7, CallParts, DeliverFits
<1> DEFINE c == next.call
<1>9. CallFits(c, bookmarks)
  <2>1. /\ c.at = call.at /\ c.maxRows = call.maxRows /\ c.phase = "scan" /\ c.open = call.open
        /\ c.kept = rows.seen /\ c.offsetSkipped = rows.skipped /\ c.returned = call.returned + Len(rows.out)
        /\ c.skipped <= c.at.offset /\ Len(c.page) <= c.maxRows
    BY <1>7, <1>8 DEF ButForPage
  <2>2. call.open # NoFile /\ call.maxRows \in PageSizes \cup {0}
    BY <1>1 DEF PagesTyped, CallFits
  <2>3. Route # "lateLimit"
    BY DEF StreamBatch
  <2>4. Limited /\ ~query.distinct => Len(rows.seen) <= Larger(1, TopK)
    <3>1. Limited => TopK \in Nat
      BY CallParts, QueryFits
    <3>2. Len(<<>>) = 0
      OBVIOUS
    <3> QED BY <1>4, <3>1, <3>2 DEF Larger
  <2> HIDE DEF c
  <2> QED BY <1>4, <2>1, <2>2, <2>3, <2>4, CallParts DEF CallFits
<1> HIDE DEF next
<1> DEFINE ended == Ended(call, "budget", FALSE) /\ bookmarks' = bookmarks
           returns == Return(c, next.more)
           goes == call' = c /\ bookmarks' = bookmarks /\ reply' = reply
<1>10. c \in Call
  BY <1>8
<1>11. ended \/ returns \/ goes
  BY <1>5
<1> HIDE DEF c
<1>12. CASE ended
  BY <1>1, <1>6, <1>12, CallParts, EndFits
<1>13. CASE returns
  BY <1>1, <1>6, <1>10, <1>13, ReturnFits
<1>14. CASE goes
  BY <1>1, <1>6, <1>9, <1>10, <1>14, CallParts, StepFits
<1> HIDE DEF ended, returns, goes
<1> QED BY <1>11, <1>12, <1>13, <1>14

(* Steps of the other routes.                                               *)
LEMMA KeepBatchTyped == ASSUME PagesTyped, KeepBatch PROVE PagesTyped'
<1>1. /\ UNCHANGED <<store, planCache, query, counted, bookmarks, writes, calls>>
      /\ call.phase = "scan" /\ call.batches # <<>> /\ Route \notin {"rows", "columnar"}
  BY DEF KeepBatch
<1>2. PICK v \in Readable(call.open) : Keep(Retained(BatchRefs(v)))
  BY DEF KeepBatch
<1> DEFINE kept == Retained(BatchRefs(v))
           enough == Route = "lateLimit" /\ Len(kept) >= TopK
           batches == IF enough THEN <<>> ELSE Tail(call.batches)
           objects == IF enough THEN <<>> ELSE call.objects
           c == [call EXCEPT !.kept = kept, !.batches = batches, !.objects = objects]
<1>3. /\ kept \in Seq(Ref)
      /\ Limited /\ ~query.distinct => Len(kept) <= Larger(1, TopK)
  <2> DEFINE refs == BatchRefs(v)
  <2>1. refs \in Seq(Ref)
    BY <1>1, ReadRefsFit
  <2>2. Route = "lateLimit" => Len(call.kept) < Larger(1, TopK)
    BY <1>1 DEF PagesTyped, CallFits
  <2> HIDE DEF refs
  <2>3. Retained(refs) \in Seq(Ref) /\ (Limited /\ ~query.distinct => Len(Retained(refs)) <= Larger(1, TopK))
    BY <1>1, <2>1, <2>2, CallParts, RetainedFits
  <2> QED BY <2>3 DEF refs
<1>4. Ended(call, "budget", FALSE) \/ (call' = c /\ reply' = reply)
  BY <1>2 DEF Keep
<1> HIDE DEF kept
<1>5. batches \in Seq(Batch) /\ objects \in Seq(Versions)
  BY <1>1, CallParts, HeadTailProperties
<1>6. Route = "lateLimit" => (batches = <<>> /\ objects = <<>>) \/ Len(kept) < Larger(1, TopK)
  <2>1. Route = "lateLimit" => TopK \in Nat
    BY CallParts, QueryFits, RouteFits
  <2>2. Len(kept) \in Nat
    BY <1>3
  <2> QED BY <2>1, <2>2 DEF Larger
<1> HIDE DEF batches, objects
<1>7. c \in Call
  BY <1>3, <1>5, CallParts DEF Call
<1>8. /\ c.at = call.at /\ c.maxRows = call.maxRows /\ c.skipped = call.skipped /\ c.page = call.page
      /\ c.offsetSkipped = call.offsetSkipped /\ c.returned = call.returned
      /\ c.kept = kept /\ c.phase = "scan" /\ c.open = call.open /\ call.open # NoFile
      /\ c.batches = batches /\ c.objects = objects
  <2>1. call.open # NoFile
    BY <1>1 DEF PagesTyped, CallFits
  <2> QED BY <1>1, <2>1, CallParts DEF Call
<1>9. CallFits(c, bookmarks)
  <2> HIDE DEF c
  <2> QED BY <1>3, <1>6, <1>8 DEF CallFits, PagesTyped
<1>10. "budget" \in Kinds
  BY DEF Kinds
<1> HIDE DEF c
<1> DEFINE ended == Ended(call, "budget", FALSE)
           goes == call' = c /\ reply' = reply
<1>11. CASE ended
  BY <1>1, <1>10, <1>11, CallParts, EndFits
<1>12. CASE goes
  BY <1>1, <1>7, <1>9, <1>12, CallParts, StepFits
<1>13. ended \/ goes
  BY <1>4
<1> HIDE DEF ended, goes
<1> QED BY <1>11, <1>12, <1>13

(* Giving rows out keeps the page within what was asked.                    *)
LEMMA GiveTyped ==
  ASSUME PagesTyped, UNCHANGED <<store, planCache, query, writes, calls>>,
         NEW refs \in Seq(Ref), NEW used \in Nat, NEW seen, Give(refs, used, seen)
  PROVE  PagesTyped'
<1> DEFINE next == Deliver(call, refs)
           ended == Ended(call, "budget", FALSE) /\ bookmarks' = bookmarks
           returns == Return(next.call, next.more)
<1>1. ended \/ returns
  BY DEF Give
<1>2. counted' \in [files : Nat, returned : Nat] /\ "budget" \in Kinds
  <2> DEFINE n == counted.returned + used
  <2>1. n \in Nat /\ counted \in [files : Nat, returned : Nat]
    BY CallParts
  <2>2. counted' = [counted EXCEPT !.returned = n]
    BY DEF Give
  <2> HIDE DEF n
  <2>3. counted' \in [files : Nat, returned : Nat]
    BY <2>1, <2>2
  <2> QED BY <2>3 DEF Kinds
<1>3. next.call \in Call
  BY CallParts, DeliverFits
<1>4. CASE ended
  BY <1>2, <1>4, CallParts, EndFits
<1>5. CASE returns
  <2> HIDE DEF next
  <2> QED BY <1>2, <1>3, <1>5, ReturnFits
<1> HIDE DEF ended, returns
<1> QED BY <1>1, <1>4, <1>5

(* Counting the batches that were pulled is counting rows.                  *)
LEMMA UsedFits ==
  ASSUME NEW out \in Nat, NEW asked \in Nat, NEW size \in Nat \ {0}
  PROVE  Smaller(out, ((asked + size - 1) \div size) * size) \in Nat
<1> DEFINE k == (asked + size - 1) \div size
<1>1. k \in Nat
  <2>1. asked + size - 1 \in Nat
    OBVIOUS
  <2> QED BY <2>1
<1> HIDE DEF k
<1>2. k * size \in Nat
  BY <1>1
<1> QED BY <1>2 DEF Smaller, k

(* After a sorted scan, one delivery ends the call.                         *)
LEMMA SortedGiven ==
  ASSUME PagesTyped, GiveSorted
  PROVE  \E refs \in Seq(Ref), used \in Nat, seen \in Int : Give(refs, used, seen)
<1> DEFINE sorted == SortedBy(call.kept, KeyBefore)
           all == IF query.distinct THEN DistinctRows(sorted) ELSE sorted
           end == IF Limited THEN TopK ELSE Len(all)
           out == Cut(all, query.offset + 1, end)
           asked == call.at.offset + call.maxRows + 1
           used == Smaller(Len(out), ((asked + query.batchSize - 1) \div query.batchSize) * query.batchSize)
           seen == IF query.distinct
                   THEN Smaller(Len(all), query.offset + used + IF used = Len(out) THEN 1 ELSE 0)
                   ELSE 0
<1>1. Give(out, used, seen)
  BY DEF GiveSorted
<1>2. sorted \in Seq(Ref)
  BY CallParts, SortsFit
<1>3. all \in Seq(Ref)
  <2> HIDE DEF sorted
  <2> QED BY <1>2, DistinctFits
<1> HIDE DEF all
<1>4. query.offset + 1 \in Nat \ {0} /\ end \in Int /\ query.batchSize \in Nat \ {0}
  <2>1. Len(all) \in Int
    BY <1>3
  <2>2. query.offset \in Nat /\ query.batchSize \in Nat \ {0} /\ (Limited => TopK \in Nat)
    BY CallParts, QueryFits
  <2> QED BY <2>1, <2>2
<1> HIDE DEF end
<1>5. out \in Seq(Ref)
  BY <1>3, <1>4, CutBounded
<1>6. asked \in Nat
  <2>1. call.at.offset \in Nat /\ call.maxRows \in Nat
    BY CallParts DEF Bookmark
  <2> QED BY <2>1
<1> HIDE DEF asked, out
<1>7. used \in Nat
  <2>1. Len(out) \in Nat
    BY <1>5
  <2> QED BY <1>4, <1>6, <2>1, UsedFits
<1> HIDE DEF used
<1>8. seen \in Int
  <2>1. Len(all) \in Nat /\ query.offset \in Nat
    BY <1>3, CallParts, QueryFits
  <2> QED BY <1>7, <2>1 DEF Smaller
<1> HIDE DEF seen
<1> QED BY <1>1, <1>5, <1>7, <1>8

(* The routes with a top-K have a limit.                                    *)
LEMMA TopKRoutes ==
  ASSUME PagesTyped, Route \in {"rankedRefs", "columnTopK", "lateLimit"}
  PROVE  Limited /\ ~query.distinct /\ TopK \in Nat /\ TopK \in Int /\ query.offset + 1 \in Nat \ {0}
<1>1. Limited /\ ~query.distinct
  BY RouteFits
<1>2. TopK \in Nat /\ query.offset \in Nat
  BY <1>1, CallParts, QueryFits
<1> QED BY <1>1, <1>2

(* After a top-K scan, one delivery ends the call.                          *)
LEMMA TopGiven ==
  ASSUME PagesTyped, Route = "columnTopK", GiveTop
  PROVE  \E refs \in Seq(Ref), used \in Nat, seen \in Int : Give(refs, used, seen)
<1> DEFINE first == FirstK(call.kept, TopK)
           out == Cut(first, query.offset + 1, TopK)
<1>1. Give(out, Len(out), 0)
  BY DEF GiveTop
<1>2. TopK \in Nat /\ query.offset + 1 \in Nat \ {0} /\ TopK \in Int
  BY TopKRoutes
<1>3. first \in Seq(Ref)
  BY <1>2, CallParts, FirstFits
<1> HIDE DEF first
<1>4. out \in Seq(Ref)
  BY <1>2, <1>3, CutBounded
<1> HIDE DEF out
<1>5. Len(out) \in Nat
  BY <1>4
<1> QED BY <1>1, <1>4, <1>5

(* References whose late columns are missing are references.                *)
LEMMA LateColumnsFit ==
  ASSUME NEW refs \in Seq(Ref)
  PROVE  WithoutLateColumns(refs) \in Seq(Ref) /\ Len(WithoutLateColumns(refs)) = Len(refs)
<1> DEFINE F(i) == [refs[i] EXCEPT !.row.id = Missing]
           n == Len(refs)
<1>1. ASSUME NEW i \in 1..n PROVE F(i) \in Ref
  <2>1. refs[i] \in Ref
    OBVIOUS
  <2> DEFINE r == refs[i]
             row == [r.row EXCEPT !.id = 0]
  <2>2. r.row \in AnyRow /\ r \in Ref
    BY <2>1 DEF Ref
  <2> HIDE DEF r
  <2>3. row \in AnyRow
    BY <2>2 DEF AnyRow
  <2>4. [r EXCEPT !.row.id = Missing] = [r EXCEPT !.row = row]
    BY <2>2 DEF Missing, Ref
  <2> HIDE DEF row
  <2>5. [r EXCEPT !.row = row] \in Ref
    BY <2>2, <2>3 DEF Ref
  <2> QED BY <2>4, <2>5 DEF r
<1>2. WithoutLateColumns(refs) = [i \in 1..n |-> F(i)] /\ n \in Nat
  BY DEF WithoutLateColumns
<1> HIDE DEF F
<1> QED BY <1>1, <1>2

(* The late fetch begins with windows over what is kept.                    *)
LEMMA BeginFetchTyped ==
  ASSUME PagesTyped, UNCHANGED <<store, planCache, query, writes, calls>>,
         Route \in {"rankedRefs", "lateLimit"}, BeginFetch
  PROVE  PagesTyped'
<1> DEFINE ranked == IF Route = "rankedRefs" THEN SortedBy(call.kept, RefBefore) ELSE call.kept
           chosen == Cut(ranked, query.offset + 1, TopK)
           kept == WithoutLateColumns(chosen)
           windows == Windows(chosen)
           c == [call EXCEPT !.phase = "fetch", !.kept = kept, !.windows = windows]
<1>1. call' = c /\ UNCHANGED <<counted, bookmarks, reply>>
  BY DEF BeginFetch
<1>2. Limited /\ ~query.distinct /\ TopK \in Nat /\ TopK \in Int /\ query.offset + 1 \in Nat \ {0}
  BY TopKRoutes
<1>3. ranked \in Seq(Ref) /\ Len(ranked) <= Larger(1, TopK)
  <2>1. call.kept \in Seq(Ref) /\ Len(call.kept) <= Larger(1, TopK)
    BY <1>2, CallParts
  <2>2. SortedBy(call.kept, RefBefore) \in Seq(Ref) /\ Len(SortedBy(call.kept, RefBefore)) = Len(call.kept)
    BY <2>1, SortsFit
  <2> QED BY <2>1, <2>2
<1> HIDE DEF ranked
<1>4. chosen \in Seq(Ref) /\ Len(chosen) <= Len(ranked)
  BY <1>2, <1>3, CutBounded
<1> HIDE DEF chosen
<1>5. kept \in Seq(Ref) /\ Len(kept) = Len(chosen) /\ windows \in Seq(Window)
  BY <1>4, LateColumnsFit, WindowsFit
<1> HIDE DEF kept, windows
<1>6. Len(kept) <= Larger(1, TopK)
  <2>1. Len(ranked) \in Nat /\ Len(chosen) \in Nat /\ Larger(1, TopK) \in Nat
    BY <1>2, <1>3, <1>4 DEF Larger
  <2> QED BY <1>3, <1>4, <1>5, <2>1
<1>7. c \in Call
  BY <1>5, CallParts DEF Call, Phases
<1>8. /\ c.at = call.at /\ c.maxRows = call.maxRows /\ c.skipped = call.skipped /\ c.page = call.page
      /\ c.offsetSkipped = call.offsetSkipped /\ c.returned = call.returned
      /\ c.kept = kept /\ c.phase = "fetch" /\ c.open = call.open /\ c.batches = call.batches
  BY CallParts DEF Call
<1> HIDE DEF c
<1>9. CallFits(c, bookmarks)
  BY <1>6, <1>8 DEF CallFits, PagesTyped
<1> QED BY <1>1, <1>7, <1>9, CallParts, StepFits

(* EndScan keeps what each variable holds.                                  *)
LEMMA EndScanTyped == ASSUME PagesTyped, EndScan PROVE PagesTyped'
<1>1. UNCHANGED <<store, planCache, query, writes, calls>>
  BY DEF EndScan
<1>2. CASE Route \in {"rows", "columnar"}
  <2>1. Return(call, FALSE) /\ counted' = counted
    BY <1>2 DEF EndScan
  <2> QED BY <1>1, <2>1, CallParts, ReturnFits
<1>3. CASE Route = "collect"
  <2>1. GiveSorted
    BY <1>3 DEF EndScan
  <2> QED BY <1>1, <2>1, SortedGiven, GiveTyped
<1>4. CASE Route = "columnTopK"
  <2>1. GiveTop
    BY <1>4 DEF EndScan
  <2> QED BY <1>1, <1>4, <2>1, TopGiven, GiveTyped
<1>5. CASE Route \in {"rankedRefs", "lateLimit"}
  <2>1. BeginFetch
    BY <1>5 DEF EndScan
  <2> QED BY <1>1, <1>5, <2>1, BeginFetchTyped
<1> QED BY <1>2, <1>3, <1>4, <1>5, RouteFits

(* A fetched row is the one that was asked for.                              *)
LEMMA FetchedFit ==
  ASSUME NEW refs \in Seq(Ref), NEW found \in Seq(Ref)
  PROVE  Fetched(refs, found) \in Seq(Ref) /\ Len(Fetched(refs, found)) = Len(refs)
<1> DEFINE At(i) == {j \in DOMAIN found : found[j].file = refs[i].file /\ found[j].index = refs[i].index}
           Id(i) == found[CHOOSE j \in At(i) : TRUE].row.id
           F(i) == IF At(i) = {} THEN refs[i] ELSE [refs[i] EXCEPT !.row.id = Id(i)]
           n == Len(refs)
<1>1. ASSUME NEW i \in 1..n PROVE F(i) \in Ref
  <2>1. CASE At(i) = {}
    BY <2>1
  <2>2. CASE At(i) # {}
    <3>1. Id(i) \in Nat
      <4> DEFINE j == CHOOSE j \in At(i) : TRUE
      <4>1. j \in DOMAIN found
        BY <2>2
      <4> HIDE DEF j
      <4>2. found[j] \in Ref
        BY <4>1
      <4>3. found[j].row \in AnyRow
        BY <4>2 DEF Ref
      <4>4. found[j].row.id \in Nat
        BY <4>3 DEF AnyRow
      <4> QED BY <4>4 DEF j
    <3> DEFINE r == refs[i]
               id == Id(i)
               row == [r.row EXCEPT !.id = id]
    <3>2. id \in Nat
      BY <3>1
    <3> HIDE DEF id
    <3>3. r \in Ref
      OBVIOUS
    <3> HIDE DEF r
    <3>4. r.row \in AnyRow
      BY <3>3 DEF Ref
    <3>5. row \in AnyRow
      BY <3>2, <3>4 DEF AnyRow
    <3>6. [r EXCEPT !.row.id = id] = [r EXCEPT !.row = row]
      BY <3>3 DEF Ref
    <3> HIDE DEF row
    <3>7. [r EXCEPT !.row = row] \in Ref
      BY <3>3, <3>5 DEF Ref
    <3> QED BY <2>2, <3>6, <3>7 DEF r, id
  <2> QED BY <2>1, <2>2
<1>2. Fetched(refs, found) = [i \in 1..n |-> F(i)] /\ n \in Nat
  BY DEF Fetched
<1> HIDE DEF F
<1> QED BY <1>1, <1>2

(* Fetch keeps what each variable holds.                                    *)
LEMMA FetchTyped == ASSUME PagesTyped, Fetch PROVE PagesTyped'
<1>1. /\ UNCHANGED <<store, planCache, query, counted, bookmarks, writes, calls>>
      /\ call.phase = "fetch" /\ call.windows # <<>>
  BY DEF Fetch
<1> DEFINE window == Head(call.windows)
           found == RefsAt(window.file, store[window.file].v, window.from, window.to)
           windows == Tail(call.windows)
           kept == Fetched(call.kept, found)
           c == [call EXCEPT !.windows = windows, !.kept = kept]
           ended == Ended(call, "failed", FALSE)
           goes == There(window.file) /\ call' = c /\ reply' = reply
<1>2. ended \/ goes
  BY DEF Fetch
<1>3. "failed" \in Kinds
  BY DEF Kinds
<1>4. CASE ended
  BY <1>1, <1>3, <1>4, CallParts, EndFits
<1>5. CASE goes
  <2>1. window \in Window /\ windows \in Seq(Window)
    BY <1>1, CallParts, HeadTailProperties
  <2>2. found \in Seq(Ref)
    <3> DEFINE f == window.file
               v == store[f].v
               o == Object(f)
    <3>1. f \in Files /\ window.from \in Nat \ {0} /\ window.to \in Int
      BY <2>1 DEF Window
    <3>2. o \in Versions /\ o.file = f /\ o.v = v
      <4>1. There(f)
        BY <1>5
      <4>2. o \in Versions
        BY <3>1, <4>1, StoreParts
      <4> QED BY <4>2 DEF Object
    <3> HIDE DEF v
    <3>3. RefsAt(o.file, o.v, window.from, window.to) \in Seq(Ref)
      BY <3>1, <3>2, RefsFit
    <3> QED BY <3>2, <3>3 DEF v
  <2> HIDE DEF found
  <2>3. kept \in Seq(Ref) /\ Len(kept) = Len(call.kept)
    BY <2>2, CallParts, FetchedFit
  <2>4. call' = c /\ reply' = reply
    BY <1>5
  <2> HIDE DEF kept, windows
  <2>5. c \in Call
    BY <2>1, <2>3, CallParts DEF Call
  <2>6. /\ c.at = call.at /\ c.maxRows = call.maxRows /\ c.skipped = call.skipped /\ c.page = call.page
        /\ c.offsetSkipped = call.offsetSkipped /\ c.returned = call.returned
        /\ c.kept = kept /\ c.phase = "fetch" /\ c.open = call.open /\ c.batches = call.batches
    BY <1>1, CallParts DEF Call
  <2> HIDE DEF c
  <2>7. CallFits(c, bookmarks)
    BY <1>1, <2>3, <2>6 DEF CallFits, PagesTyped
  <2> QED BY <1>1, <2>4, <2>5, <2>7, CallParts, StepFits
<1> HIDE DEF ended, goes
<1> QED BY <1>2, <1>4, <1>5

(* GiveFetched keeps what each variable holds.                              *)
LEMMA GiveFetchedTyped == ASSUME PagesTyped, GiveFetched PROVE PagesTyped'
<1>1. UNCHANGED <<store, planCache, query, writes, calls>> /\ Give(call.kept, Len(call.kept), 0)
  BY DEF GiveFetched
<1>2. call.kept \in Seq(Ref) /\ Len(call.kept) \in Nat
  BY CallParts
<1> QED BY <1>1, <1>2, GiveTyped

(* What the other process does to a slice that runs.                         *)
Disturbed(c) == IF c.phase = "idle" THEN c ELSE [c EXCEPT !.quiet = FALSE]

(* A write changes the store and its count.                                 *)
LEMMA WriteTyped ==
  ASSUME PagesTyped, NEW f \in Files, NEW object \in [v : Nat, there : BOOLEAN],
         object.v <= Len(Contents[f]), object.there => object.v > 0, Write(f, object),
         writes' \in [puts : Nat, deletes : Nat], writes'.puts + writes'.deletes <= MaxWrites
  PROVE  PagesTyped'
<1>1. /\ UNCHANGED <<planCache, query, counted, bookmarks, reply, calls>>
      /\ store' = [store EXCEPT ![f] = object] /\ call' = Disturbed(call)
  BY DEF Write, Disturbed
<1>2. store' \in [Files -> [v : Nat, there : BOOLEAN]] /\ StoreFits'
  <2>1. store \in [Files -> [v : Nat, there : BOOLEAN]]
    BY DEF PagesTyped
  <2>2. store' \in [Files -> [v : Nat, there : BOOLEAN]]
    BY <1>1, <2>1
  <2>3. \A g \in Files : store'[g] = IF g = f THEN object ELSE store[g]
    BY <1>1, <2>1
  <2>4. \A g \in Files : store'[g].v <= Len(Contents[g]) /\ (store'[g].there => store'[g].v > 0)
    BY <2>3 DEF PagesTyped, StoreFits, There
  <2> QED BY <2>2, <2>4 DEF StoreFits, There
<1>3. call' \in Call /\ CallFits(call', bookmarks')
  <2>1. Disturbed(call) \in Call
    BY CallParts DEF Disturbed, Call
  <2> DEFINE c == Disturbed(call)
  <2>2. /\ c.at = call.at /\ c.maxRows = call.maxRows /\ c.skipped = call.skipped /\ c.page = call.page
        /\ c.offsetSkipped = call.offsetSkipped /\ c.returned = call.returned /\ c.phase = call.phase
        /\ c.kept = call.kept /\ c.open = call.open /\ c.batches = call.batches /\ c.objects = call.objects
    BY CallParts DEF Disturbed, Call
  <2> HIDE DEF c
  <2>3. CallFits(c, bookmarks)
    BY <2>2 DEF CallFits, PagesTyped
  <2> QED BY <1>1, <2>1, <2>3 DEF c
<1>4. CallFits(call, bookmarks)'
  BY <1>1, <1>3, CallFitsNext
<1> QED BY <1>1, <1>2, <1>3, <1>4 DEF PagesTyped

(* The writes that are counted stay numbers.                                *)
LEMMA WritesCount ==
  ASSUME PagesTyped, NEW f \in Files, Put(f) \/ Delete(f)
  PROVE  writes' \in [puts : Nat, deletes : Nat] /\ writes'.puts + writes'.deletes <= MaxWrites
<1>1. writes \in [puts : Nat, deletes : Nat] /\ writes.puts + writes.deletes < MaxWrites
  BY DEF PagesTyped, Put, Delete, Write
<1>2. CASE Put(f)
  <2>1. writes' = [writes EXCEPT !.puts = @ + 1]
    BY <1>2 DEF Put
  <2> QED BY <1>1, <2>1, PagesBoundsAssumption
<1>3. CASE Delete(f)
  <2>1. writes' = [writes EXCEPT !.deletes = @ + 1]
    BY <1>3 DEF Delete
  <2> QED BY <1>1, <2>1, PagesBoundsAssumption
<1> QED BY <1>2, <1>3

(* Put keeps what each variable holds.                                      *)
LEMMA PutTyped == ASSUME PagesTyped, NEW f \in Files, Put(f) PROVE PagesTyped'
<1> DEFINE n == store[f].v + 1
           object == [v |-> n, there |-> TRUE]
<1>1. n \in Nat /\ n > 0 /\ n <= Len(Contents[f])
  <2>1. store[f].v \in Nat /\ store[f].v < Len(Contents[f])
    BY DEF PagesTyped, Put
  <2>2. Len(Contents[f]) \in Nat
    BY ContentsAssumption
  <2> QED BY <2>1, <2>2
<1>2. Write(f, object)
  BY DEF Put
<1> HIDE DEF n
<1> QED BY <1>1, <1>2, WritesCount, WriteTyped

(* Delete keeps what each variable holds.                                   *)
LEMMA DeleteTyped == ASSUME PagesTyped, NEW f \in Files, Delete(f) PROVE PagesTyped'
<1> DEFINE object == [store[f] EXCEPT !.there = FALSE]
<1>1. store[f] \in [v : Nat, there : BOOLEAN] /\ store[f].v <= Len(Contents[f])
  BY DEF PagesTyped, StoreFits
<1>2. object \in [v : Nat, there : BOOLEAN] /\ object.v <= Len(Contents[f]) /\ (object.there => object.v > 0)
  BY <1>1
<1>3. Write(f, object)
  BY DEF Delete
<1> HIDE DEF object
<1> QED BY <1>2, <1>3, WritesCount, WriteTyped

(* The strengthening holds at the start.                                    *)
LEMMA PagesInitTyped == PagesInit => PagesTyped
<1> SUFFICES ASSUME PagesInit PROVE PagesTyped
  OBVIOUS
<1>1. query \in Queries /\ call = IdleCall /\ bookmarks = {}
  BY DEF PagesInit
<1>2. call \in Call /\ CallFits(call, bookmarks)
  BY <1>1, IdleFits
<1>3. store \in [Files -> [v : Nat, there : BOOLEAN]] /\ StoreFits
  <2>1. \A f \in Files : store[f] \in {[v |-> 0, there |-> FALSE], [v |-> 1, there |-> TRUE]}
    BY DEF PagesInit
  <2>2. {[v |-> 0, there |-> FALSE], [v |-> 1, there |-> TRUE]} \subseteq [v : Nat, there : BOOLEAN]
    OBVIOUS
  <2>3. \A f \in Files : Len(Contents[f]) \in Nat /\ Len(Contents[f]) >= 1
    BY ContentsAssumption
  <2>4. StoreFits
    BY <2>1, <2>3 DEF StoreFits, There
  <2>5. store \in [Files -> [v : Nat, there : BOOLEAN]]
    BY <2>1, <2>2 DEF PagesInit
  <2> QED BY <2>4, <2>5
<1>4. reply.kind \in Kinds /\ reply.call \in Call
  BY <1>1, <1>2 DEF PagesInit, NoReply, Kinds
<1>5. writes \in [puts : Nat, deletes : Nat] /\ writes.puts + writes.deletes <= MaxWrites /\ calls \in 0..MaxCalls
  BY PagesBoundsAssumption DEF PagesInit
<1> QED BY <1>1, <1>2, <1>3, <1>4, <1>5, FirstPageFits DEF PagesTyped, PagesInit

(* Every step keeps the types.                                              *)
LEMMA PagesTypedNext == ASSUME PagesTyped, [PagesNext]_pagesVars PROVE PagesTyped'
<1>1. CASE UNCHANGED pagesVars
  <2>1. CallFits(call', bookmarks') /\ query' = query
    <3>1. call' = call /\ bookmarks' = bookmarks /\ query' = query
      BY <1>1 DEF pagesVars
    <3>2. CallFits(call, bookmarks)
      BY DEF PagesTyped
    <3> QED BY <3>1, <3>2
  <2>2. CallFits(call, bookmarks)'
    BY <2>1, CallFitsNext
  <2> QED BY <1>1, <2>2 DEF PagesTyped, pagesVars, StoreFits, There
<1>2. CASE \E at \in {FirstPage} \cup bookmarks, maxRows \in PageSizes : Slice(at, maxRows)
  BY <1>2, SliceTyped
<1>3. CASE \E f \in Files : Put(f) \/ Delete(f)
  BY <1>3, PutTyped, DeleteTyped
<1> QED BY <1>1, <1>2, <1>3, ListPlanTyped, PlanTasksTyped, ListScanTyped, OpenFileTyped, ReadFooterTyped,
           StreamBatchTyped, KeepBatchTyped, EndScanTyped, FetchTyped, GiveFetchedTyped, ReadFailsTyped
        DEF PagesNext

(* The strengthening is invariant.                                          *)
LEMMA PagesAreTyped == PagesSpec => []PagesTyped
<1> QED BY PagesInitTyped, PagesTypedNext, PTL DEF PagesSpec

(* Types: a slice, its bookmark, the store and the counters are what they      *)
(* should be, a slice skips no more than its bookmark and its offset say, and  *)
(* a page holds no more than maxRows.                                        *)
THEOREM PagesTypeCorrect == PagesSpec => []PagesTypeOK
<1>1. PagesTyped => PagesTypeOK
  <2> SUFFICES ASSUME PagesTyped PROVE PagesTypeOK
    OBVIOUS
  <2>1. /\ store \in [Files -> [v : Nat, there : BOOLEAN]]
        /\ query \in Queries /\ counted \in [files : Nat, returned : Nat]
        /\ reply.kind \in Kinds /\ calls \in 0..MaxCalls
        /\ writes \in [puts : Nat, deletes : Nat] /\ writes.puts + writes.deletes <= MaxWrites
    BY DEF PagesTyped
  <2>2. \A f \in Files : store[f].v \in 0..Len(Contents[f]) /\ (There(f) => store[f].v > 0)
    <3> TAKE f \in Files
    <3>1. store[f].v \in Nat /\ store[f].v <= Len(Contents[f]) /\ (There(f) => store[f].v > 0)
      BY <2>1 DEF PagesTyped, StoreFits
    <3>2. Len(Contents[f]) \in Nat
      BY ContentsAssumption
    <3> QED BY <3>1, <3>2
  <2>3. call.phase \in Phases
    BY DEF PagesTyped, Call
  <2>4. call.at \in bookmarks \cup {FirstPage} /\ call.maxRows \in PageSizes \cup {0} /\ Len(call.page) <= call.maxRows
    BY DEF PagesTyped, CallFits
  <2>5. call.skipped \in 0..call.at.offset /\ call.offsetSkipped \in 0..query.offset
    <3>1. call.at \in Bookmark /\ query \in Queries /\ call.skipped \in Nat /\ call.offsetSkipped \in Nat
          /\ call.skipped <= call.at.offset /\ call.offsetSkipped <= query.offset
      BY CallParts
    <3>2. call.at.offset \in Nat
      BY <3>1 DEF Bookmark
    <3>3. query.offset \in Nat
      BY <3>1, QueryFits
    <3> QED BY <3>1, <3>2, <3>3
  <2> QED BY <2>1, <2>2, <2>3, <2>4, <2>5 DEF PagesTypeOK, Kinds, Phases
<1> QED BY <1>1, PagesAreTyped, PTL

(* Bounded buffers: whatever the batches bring, a buffer of the query's        *)
(* retaining routes holds no more rows than the offset and the limit ask for,  *)
(* and the streaming routes hold none.                                        *)
THEOREM BuffersBounded == PagesSpec => []BuffersAreBounded
<1>1. PagesTyped => BuffersAreBounded
  BY CallParts DEF BuffersAreBounded
<1> QED BY <1>1, PagesAreTyped, PTL

-----------------------------------------------------------------------------
(* Pages: the snapshot that a bookmark pins                                   *)

(* A listing that lacks the last version of an object.                       *)
Outdated(listed) ==
  \E f \in Files : store[f].v > 0 /\ \A i \in DOMAIN listed : listed[i].file = f => listed[i].v < store[f].v
ListedPhases == {"tasks", "relisting", "scan", "footer", "fetch"}
PastPhases == ListedPhases \ {"tasks"}
IsListed == call.phase \in ListedPhases
IsPlanOf(plan, listed) ==
  DOMAIN plan = DOMAIN listed /\ \A i \in DOMAIN listed : plan[i].object = listed[i]

PlansHold ==
  /\ \A b \in bookmarks : IsPlanOf(b.plan, b.listed)
  /\ call.phase \in PastPhases =>
       IsPlanOf(call.plan, call.listed) /\ (call.at # FirstPage => call.at.plan = call.plan)
AllThere == \A f \in Files : store[f].v > 0 => There(f)
ListingIsKnown == IsListed => IF call.quiet THEN call.listed = Listing ELSE Outdated(call.listed)
LoudPagesAreLeft == IsListed /\ call.at # FirstPage /\ ~call.at.quiet => call.at.listed # call.listed
SnapshotsHold ==
  ~query.cached /\ writes.deletes = 0 =>
    AllThere /\ ListingIsKnown /\ LoudPagesAreLeft /\ \A b \in bookmarks : ~b.quiet => Outdated(b.listed)

(* A bookmark pins a snapshot: a slice that gets past the fingerprint lists     *)
(* what every page before it listed, none of which saw the store change.       *)
SnapshotsArePinned ==
  ~query.cached /\ writes.deletes = 0 /\ IsPastFingerprint /\ call.at # FirstPage =>
    call.at.listed = call.listed /\ call.at.quiet

(* Two listings with the same manifest are the same.                        *)
LEMMA PlanTellsListing ==
  ASSUME NEW plan, NEW a \in Seq(Versions), NEW b \in Seq(Versions), IsPlanOf(plan, a), IsPlanOf(plan, b)
  PROVE  a = b
<1>1. DOMAIN a = DOMAIN b /\ \A i \in DOMAIN a : a[i] = b[i]
  BY DEF IsPlanOf
<1>2. Len(a) = Len(b) /\ Len(a) \in Nat /\ DOMAIN a = 1..Len(a) /\ DOMAIN b = 1..Len(b)
  BY <1>1
<1> QED BY <1>1, <1>2

(* What a step of a slice that is past the fingerprint may do.                 *)
Follows(c) ==
  c.at = call.at /\ c.plan = call.plan /\ c.listed = call.listed /\ c.quiet = call.quiet
    /\ c.maxRows = call.maxRows
ScanStep ==
  \/ ListScan \/ OpenFile \/ ReadFooter \/ StreamBatch \/ KeepBatch \/ EndScan \/ Fetch \/ GiveFetched
EndsIdle == call' = IdleCall /\ bookmarks' = bookmarks
GoesOn == Follows(call') /\ call'.phase \in PastPhases /\ bookmarks' = bookmarks
Returns == \E c \in Call, more \in BOOLEAN : Return(c, more) /\ Follows(c)

(* A delivery fails on a budget or returns what follows from the call.      *)
LEMMA GiveFollows ==
  ASSUME PagesTyped, NEW refs \in Seq(Ref), NEW used, NEW seen, Give(refs, used, seen)
  PROVE  EndsIdle \/ Returns
<1> DEFINE next == Deliver(call, refs)
<1>1. next.call \in Call /\ ButForPage(next.call, call) /\ next.more \in BOOLEAN
  BY CallParts, DeliverFits
<1>2. (Ended(call, "budget", FALSE) /\ bookmarks' = bookmarks) \/ Return(next.call, next.more)
  BY DEF Give
<1> HIDE DEF next
<1> QED BY <1>1, <1>2 DEF EndsIdle, Returns, Ended, ButForPage, Follows

(* A step after the plan is known ends the call, goes on with it, or returns*)
(* a page that follows from it.                                             *)
LEMMA ScanSteps ==
  ASSUME PagesTyped, ScanStep
  PROVE  /\ UNCHANGED <<store, query, writes>> /\ call.phase \in PastPhases
         /\ EndsIdle \/ GoesOn \/ Returns
<1>1. UNCHANGED <<store, query, writes>> /\ call.phase \in PastPhases
  BY DEF ScanStep, ListScan, Expand, OpenFile, ReadFooter, StreamBatch, KeepBatch, EndScan, Fetch, GiveFetched,
         PastPhases, ListedPhases
<1> SUFFICES EndsIdle \/ GoesOn \/ Returns
  BY <1>1
<1>2. call \in Call
  BY CallParts
<1>3. CASE ListScan
  <2>1. \/ Ended(call, "failed", FALSE) \/ Ended(call, "budget", FALSE)
        \/ call' = [call EXCEPT !.phase = "scan", !.objects = Expanded]
    BY <1>3 DEF ListScan, Expand
  <2>2. bookmarks' = bookmarks
    BY <1>3 DEF ListScan, Expand
  <2>3. CASE call' = [call EXCEPT !.phase = "scan", !.objects = Expanded]
    BY <1>2, <2>2, <2>3 DEF Call, GoesOn, Follows, PastPhases, ListedPhases
  <2> QED BY <2>1, <2>2, <2>3 DEF EndsIdle, Ended
<1>4. CASE OpenFile
  <2> DEFINE f == Head(call.objects).file
             objects == Tail(call.objects)
             c == [call EXCEPT !.phase = "footer", !.objects = objects, !.open = Object(f)]
  <2>1. Ended(call, "failed", FALSE) \/ Ended(call, "budget", FALSE) \/ call' = c
    BY <1>4 DEF OpenFile
  <2>2. bookmarks' = bookmarks
    BY <1>4 DEF OpenFile
  <2> HIDE DEF f, objects
  <2>3. CASE call' = c
    BY <1>2, <2>2, <2>3 DEF Call, GoesOn, Follows, PastPhases, ListedPhases
  <2> HIDE DEF c
  <2> QED BY <2>1, <2>2, <2>3 DEF EndsIdle, Ended
<1>5. CASE ReadFooter
  <2>1. PICK v \in Readable(call.open) : call' = CutBy(call.open.file, v)
    BY <1>5 DEF ReadFooter
  <2> DEFINE batches == Batches(call.open.file, v, ScanBatchSize, RowEnd(call.open.file, v))
  <2>2. call' = [call EXCEPT !.phase = "scan", !.batches = batches] /\ bookmarks' = bookmarks
    BY <1>5, <2>1 DEF CutBy, ReadFooter
  <2> HIDE DEF batches
  <2> QED BY <1>2, <2>2 DEF Call, GoesOn, Follows, PastPhases, ListedPhases
<1>6. CASE StreamBatch
  <2>1. PICK v \in Readable(call.open) : GiveOut(Streamed(BatchRefs(v)))
    BY <1>6 DEF StreamBatch
  <2>2. call.batches # <<>> /\ BatchRefs(v) \in Seq(Ref) /\ call.phase = "scan"
    BY <1>6, ReadRefsFit DEF StreamBatch
  <2> DEFINE refs == BatchRefs(v)
             rows == Streamed(refs)
             moved == StreamedCall(rows)
             next == Deliver(moved, rows.out)
  <2> HIDE DEF refs
  <2>3. rows.out \in Seq(Ref) /\ moved \in Call /\ Follows(moved) /\ moved.phase = "scan"
        /\ moved.skipped = call.skipped /\ moved.page = call.page
    <3>1. refs \in Seq(Ref)
      BY <2>2 DEF refs
    <3>2. rows.out \in Seq(Ref) /\ rows.seen \in Seq(Ref) /\ rows.skipped \in Nat
      BY <3>1, CallParts, StreamedFits
    <3> HIDE DEF rows
    <3> DEFINE n == call.returned + Len(rows.out)
               rest == Tail(call.batches)
    <3>3. n \in Nat
      <4>1. call.returned \in Nat
        BY CallParts
      <4>2. Len(rows.out) \in Nat
        BY <3>2
      <4> QED BY <4>1, <4>2
    <3>4. rest \in Seq(Batch)
      BY <2>2, CallParts, HeadTailProperties
    <3>5. moved = [call EXCEPT !.batches = rest, !.kept = rows.seen, !.offsetSkipped = rows.skipped, !.returned = n]
      BY DEF StreamedCall
    <3> HIDE DEF n, rest, moved
    <3> QED BY <1>2, <2>2, <3>2, <3>3, <3>4, <3>5 DEF Call, Follows
  <2>4. next.call \in Call /\ Follows(next.call) /\ next.call.phase = "scan" /\ next.more \in BOOLEAN
    <3> HIDE DEF moved, rows
    <3>1. moved.skipped <= moved.at.offset /\ Len(moved.page) <= moved.maxRows
      BY <2>3, CallParts DEF Follows
    <3>2. next.call \in Call /\ ButForPage(next.call, moved) /\ next.more \in BOOLEAN
      BY <2>3, <3>1, DeliverFits
    <3> HIDE DEF next
    <3> QED BY <2>3, <3>2 DEF ButForPage, Follows
  <2>5. \/ Ended(call, "budget", FALSE) /\ bookmarks' = bookmarks
        \/ Return(next.call, next.more)
        \/ call' = next.call /\ bookmarks' = bookmarks
    BY <2>1 DEF GiveOut, refs
  <2> HIDE DEF next
  <2> QED BY <2>4, <2>5 DEF EndsIdle, GoesOn, Returns, Ended, PastPhases, ListedPhases
<1>7. CASE KeepBatch
  <2>1. PICK v \in Readable(call.open) : Keep(Retained(BatchRefs(v)))
    BY <1>7 DEF KeepBatch
  <2> DEFINE kept == Retained(BatchRefs(v))
             enough == Route = "lateLimit" /\ Len(kept) >= TopK
             batches == IF enough THEN <<>> ELSE Tail(call.batches)
             objects == IF enough THEN <<>> ELSE call.objects
             c == [call EXCEPT !.kept = kept, !.batches = batches, !.objects = objects]
  <2>2. (Ended(call, "budget", FALSE) \/ call' = c) /\ bookmarks' = bookmarks /\ call.phase = "scan"
    BY <1>7, <2>1 DEF Keep, KeepBatch
  <2> HIDE DEF kept, batches, objects
  <2>3. CASE call' = c
    BY <1>2, <2>2, <2>3 DEF Call, GoesOn, Follows, PastPhases, ListedPhases
  <2> HIDE DEF c
  <2> QED BY <2>2, <2>3 DEF EndsIdle, Ended
<1>8. CASE EndScan
  <2>1. CASE Route \in {"rows", "columnar"}
    <3>1. Return(call, FALSE)
      BY <1>8, <2>1 DEF EndScan
    <3>2. Follows(call) /\ FALSE \in BOOLEAN
      BY DEF Follows
    <3> QED BY <1>2, <3>1, <3>2 DEF Returns
  <2>2. CASE Route = "collect"
    <3>1. PICK refs \in Seq(Ref), used \in Nat, seen \in Int : Give(refs, used, seen)
      <4>1. GiveSorted
        BY <1>8, <2>2 DEF EndScan
      <4> QED BY <4>1, SortedGiven
    <3> QED BY <3>1, GiveFollows
  <2>3. CASE Route = "columnTopK"
    <3>1. PICK refs \in Seq(Ref), used \in Nat, seen \in Int : Give(refs, used, seen)
      <4>1. GiveTop
        BY <1>8, <2>3 DEF EndScan
      <4> QED BY <2>3, <4>1, TopGiven
    <3> QED BY <3>1, GiveFollows
  <2>4. CASE Route \in {"rankedRefs", "lateLimit"}
    <3> DEFINE ranked == IF Route = "rankedRefs" THEN SortedBy(call.kept, RefBefore) ELSE call.kept
               chosen == Cut(ranked, query.offset + 1, TopK)
               kept == WithoutLateColumns(chosen)
               windows == Windows(chosen)
    <3>1. BeginFetch
      BY <1>8, <2>4 DEF EndScan
    <3>2. call' = [call EXCEPT !.phase = "fetch", !.kept = kept, !.windows = windows] /\ bookmarks' = bookmarks
      BY <3>1 DEF BeginFetch
    <3> HIDE DEF kept, windows
    <3> QED BY <1>2, <3>2 DEF Call, GoesOn, Follows, PastPhases, ListedPhases
  <2> QED BY <2>1, <2>2, <2>3, <2>4, RouteFits
<1>9. CASE Fetch
  <2> DEFINE window == Head(call.windows)
             found == RefsAt(window.file, store[window.file].v, window.from, window.to)
             windows == Tail(call.windows)
             kept == Fetched(call.kept, found)
             c == [call EXCEPT !.windows = windows, !.kept = kept]
  <2>1. (Ended(call, "failed", FALSE) \/ call' = c) /\ bookmarks' = bookmarks /\ call.phase = "fetch"
    BY <1>9 DEF Fetch
  <2> HIDE DEF windows, kept
  <2>2. CASE call' = c
    BY <1>2, <2>1, <2>2 DEF Call, GoesOn, Follows, PastPhases, ListedPhases
  <2> HIDE DEF c
  <2> QED BY <2>1, <2>2 DEF EndsIdle, Ended
<1>10. CASE GiveFetched
  <2>1. Give(call.kept, Len(call.kept), 0) /\ call.kept \in Seq(Ref)
    BY <1>10, CallParts DEF GiveFetched
  <2> QED BY <2>1, GiveFollows
<1> QED BY <1>3, <1>4, <1>5, <1>6, <1>7, <1>8, <1>9, <1>10 DEF ScanStep

(* A page that is returned adds at most its own bookmark.                   *)
LEMMA ReturnedBookmarks ==
  ASSUME NEW c \in Call, NEW more \in BOOLEAN, Return(c, more)
  PROVE  /\ call' = IdleCall /\ reply' = [kind |-> "page", call |-> c, more |-> more]
         /\ \A b \in bookmarks' \ bookmarks :
              /\ more /\ b.plan = c.plan /\ b.listed = c.listed /\ b.quiet = (c.quiet /\ c.at.quiet)
              /\ b.offset = c.at.offset + Len(c.page) /\ b.given = c.at.given \o c.page
<1> DEFINE quiet == c.quiet /\ c.at.quiet
           b == [plan |-> c.plan, offset |-> c.at.offset + Len(c.page), given |-> c.at.given \o c.page,
                 listed |-> c.listed, quiet |-> quiet]
<1>1. call' = IdleCall /\ reply' = [kind |-> "page", call |-> c, more |-> more]
  BY DEF Return, Ended
<1>2. bookmarks' \subseteq bookmarks \cup {b} /\ (~more => bookmarks' = bookmarks)
  BY DEF Return
<1>3. /\ b.plan = c.plan /\ b.listed = c.listed /\ b.quiet = quiet
      /\ b.offset = c.at.offset + Len(c.page) /\ b.given = c.at.given \o c.page
  BY DEF b
<1> HIDE DEF b
<1> QED BY <1>1, <1>2, <1>3

(* Every step keeps plans those of their listings.                          *)
LEMMA PlansHoldNext == ASSUME PagesTyped, PlansHold, [PagesNext]_pagesVars PROVE PlansHold'
<1>1. CASE UNCHANGED pagesVars
  BY <1>1 DEF PlansHold, pagesVars
<1>2. CASE \E at \in {FirstPage} \cup bookmarks, maxRows \in PageSizes : Slice(at, maxRows)
  <2>1. PICK at \in {FirstPage} \cup bookmarks, maxRows \in PageSizes : Slice(at, maxRows)
    BY <1>2
  <2>2. call'.phase = "listing" /\ bookmarks' = bookmarks
    BY <2>1 DEF Slice, IdleCall
  <2> QED BY <2>2 DEF PlansHold, PastPhases, ListedPhases
<1>3. CASE ListPlan
  <2>1. call \in Call
    BY CallParts
  <2>2. bookmarks' = bookmarks
    BY <1>3 DEF ListPlan, Expand
  <2> DEFINE quiet == Expanded = Listing
             c == [call EXCEPT !.phase = "tasks", !.listed = Expanded, !.quiet = quiet]
  <2>3. call' = IdleCall \/ call' = c
    BY <1>3 DEF ListPlan, Expand, Ended
  <2> HIDE DEF quiet
  <2>4. c.phase \notin PastPhases /\ IdleCall.phase \notin PastPhases
    BY <2>1 DEF Call, IdleCall, PastPhases, ListedPhases
  <2> HIDE DEF c
  <2> QED BY <2>2, <2>3, <2>4 DEF PlansHold
<1>4. CASE PlanTasks
  <2>1. PICK footer \in Footers : Compare([call EXCEPT !.plan = Manifest(call.listed, footer)])
    BY <1>4 DEF PlanTasks
  <2>2. bookmarks' = bookmarks
    BY <1>4 DEF PlanTasks
  <2> DEFINE plan == Manifest(call.listed, footer)
             planned == [call EXCEPT !.plan = plan]
             c == [planned EXCEPT !.phase = "relisting"]
  <2>3. IsPlanOf(plan, call.listed)
    <3>1. \A i \in DOMAIN call.listed : call.listed[i] \in Versions
      BY CallParts
    <3>2. \A i \in DOMAIN call.listed : footer[i] \in Readable(call.listed[i])
      BY <2>1 DEF Footers
    <3>3. \A i \in DOMAIN call.listed : [file |-> call.listed[i].file, v |-> footer[i]] \in Versions
      BY <3>1, <3>2, ReadableFits
    <3> QED BY <3>3, CallParts, ManifestFits DEF IsPlanOf
  <2>4. call' = IdleCall \/ (call' = c /\ (call.at # FirstPage => call.at.plan = planned.plan))
    BY <2>1 DEF Compare, Ended
  <2> HIDE DEF plan
  <2>5. c.plan = plan /\ c.listed = call.listed /\ c.at = call.at /\ planned.plan = plan
    BY CallParts DEF Call
  <2>6. IdleCall.phase \notin PastPhases
    BY DEF IdleCall, PastPhases, ListedPhases
  <2> HIDE DEF c, planned
  <2> QED BY <2>2, <2>3, <2>4, <2>5, <2>6 DEF PlansHold
<1>5. CASE ScanStep
  <2>1. call.phase \in PastPhases /\ (EndsIdle \/ GoesOn \/ Returns)
    BY <1>5, ScanSteps
  <2>2. IdleCall.phase \notin PastPhases
    BY DEF IdleCall, PastPhases, ListedPhases
  <2>3. CASE EndsIdle
    BY <2>2, <2>3 DEF EndsIdle, PlansHold
  <2>4. CASE GoesOn
    BY <2>1, <2>4 DEF GoesOn, PlansHold, Follows
  <2>5. CASE Returns
    <3>1. PICK c \in Call, more \in BOOLEAN : Return(c, more) /\ Follows(c)
      BY <2>5 DEF Returns
    <3>2. call' = IdleCall /\ \A b \in bookmarks' \ bookmarks : b.plan = c.plan /\ b.listed = c.listed
      BY <3>1, ReturnedBookmarks
    <3> QED BY <2>1, <2>2, <3>1, <3>2 DEF PlansHold, Follows
  <2> QED BY <2>1, <2>3, <2>4, <2>5
<1>6. CASE ReadFails
  BY <1>6 DEF ReadFails, Ended, IdleCall, PlansHold, PastPhases, ListedPhases
<1>7. CASE \E f \in Files : Put(f) \/ Delete(f)
  <2>1. bookmarks' = bookmarks /\ call' = Disturbed(call)
    BY <1>7 DEF Put, Delete, Write, Disturbed
  <2>2. call'.phase = call.phase /\ call'.plan = call.plan /\ call'.listed = call.listed /\ call'.at = call.at
    BY <2>1, CallParts DEF Disturbed, Call
  <2> QED BY <2>1, <2>2 DEF PlansHold
<1> QED BY <1>1, <1>2, <1>3, <1>4, <1>5, <1>6, <1>7 DEF PagesNext, ScanStep

(* The listing is that of the store.                                        *)
LEMMA ListingNext == ASSUME store' = store PROVE Listing' = Listing
BY DEF Listing, There, Object

(* Whether a listing is outdated is a matter of the store.                  *)
LEMMA OutdatedNext == ASSUME store' = store, NEW listed PROVE Outdated(listed)' <=> Outdated(listed)
BY DEF Outdated

(* What the store lists now is not outdated.                                *)
LEMMA ListingIsNotOutdated ==
  ASSUME PagesTyped, AllThere
  PROVE  ~Outdated(Listing)
<1> SUFFICES ASSUME Outdated(Listing) PROVE FALSE
  OBVIOUS
<1>1. PICK f \in Files : store[f].v > 0 /\ \A i \in DOMAIN Listing : Listing[i].file = f => Listing[i].v < store[f].v
  BY DEF Outdated
<1>2. There(f)
  BY <1>1 DEF AllThere
<1>3. PICK i \in DOMAIN Listing : Listing[i] = Object(f)
  BY <1>2, ListingFits DEF PagesTyped, StoreFits
<1>4. Object(f).file = f /\ Object(f).v = store[f].v /\ store[f].v \in Nat
  BY DEF Object, PagesTyped
<1> QED BY <1>1, <1>3, <1>4

(* Writes only take a listing further from the store.                         *)
LEMMA PutOutdates ==
  ASSUME PagesTyped, NEW f \in Files, Put(f)
  PROVE  /\ AllThere => AllThere'
         /\ \A listed \in Seq(Versions) : Outdated(listed) => Outdated(listed)'
         /\ \A listed : listed = Listing => Outdated(listed)'
         /\ call' = Disturbed(call) /\ UNCHANGED <<query, bookmarks>>
<1> DEFINE n == store[f].v + 1
<1>1. /\ store' = [store EXCEPT ![f] = [v |-> n, there |-> TRUE]]
      /\ call' = Disturbed(call) /\ UNCHANGED <<query, bookmarks>>
  BY DEF Put, Write, Disturbed
<1>2. store \in [Files -> [v : Nat, there : BOOLEAN]] /\ store[f].v \in Nat
  BY DEF PagesTyped
<1>3. n \in Nat /\ store[f].v < n /\ n > 0
  BY <1>2
<1>4. /\ store'[f].v = n /\ store'[f].there
      /\ \A g \in Files \ {f} : store'[g] = store[g]
      /\ \A g \in Files : store[g].v \in Nat
  BY <1>1, <1>2
<1> HIDE DEF n
<1>5. AllThere => AllThere'
  BY <1>4 DEF AllThere, There
<1>6. ASSUME NEW listed \in Seq(Versions), Outdated(listed) PROVE Outdated(listed)'
  <2>1. PICK g \in Files : store[g].v > 0 /\ \A i \in DOMAIN listed : listed[i].file = g => listed[i].v < store[g].v
    BY <1>6 DEF Outdated
  <2>2. store'[g].v >= store[g].v /\ store'[g].v \in Nat /\ store[g].v \in Nat
    BY <1>3, <1>4
  <2>3. \A i \in DOMAIN listed : listed[i].v \in Nat
    BY <1>6 DEF Versions
  <2>4. store'[g].v > 0 /\ \A i \in DOMAIN listed : listed[i].file = g => listed[i].v < store'[g].v
    BY <2>1, <2>2, <2>3
  <2> QED BY <2>4 DEF Outdated
<1>7. ASSUME NEW listed, listed = Listing PROVE Outdated(listed)'
  <2>1. \A i \in DOMAIN listed : listed[i] = Object(listed[i].file)
    BY <1>7, ListingFits DEF PagesTyped, StoreFits
  <2>2. \A i \in DOMAIN listed : listed[i].file = f => listed[i].v = store[f].v
    BY <2>1 DEF Object
  <2> QED BY <1>3, <1>4, <2>2 DEF Outdated
<1> QED BY <1>1, <1>5, <1>6, <1>7

(* No step changes the query.                                               *)
LEMMA StepsKeepQuery ==
  ASSUME PagesTyped, PagesNext
  PROVE  query' = query /\ (writes' = writes \/ \E f \in Files : Put(f) \/ Delete(f))
<1>1. CASE \E at \in {FirstPage} \cup bookmarks, maxRows \in PageSizes : Slice(at, maxRows)
  BY <1>1 DEF Slice
<1>2. CASE ListPlan
  BY <1>2 DEF ListPlan, Expand
<1>3. CASE PlanTasks
  BY <1>3 DEF PlanTasks
<1>4. CASE ScanStep
  BY <1>4, ScanSteps
<1>5. CASE ReadFails
  BY <1>5 DEF ReadFails
<1>6. CASE \E f \in Files : Put(f) \/ Delete(f)
  BY <1>6 DEF Put, Delete, Write
<1> QED BY <1>1, <1>2, <1>3, <1>4, <1>5, <1>6 DEF PagesNext, ScanStep

(* Every step keeps a bookmark quiet as long as its listing is the current  *)
(* one.                                                                     *)
LEMMA SnapshotsHoldNext == ASSUME PagesTyped, PlansHold, SnapshotsHold, [PagesNext]_pagesVars PROVE SnapshotsHold'
<1>1. CASE UNCHANGED pagesVars
  <2>1. UNCHANGED <<store, query, writes, call, bookmarks>>
    BY <1>1 DEF pagesVars
  <2>2. Listing' = Listing /\ \A l : Outdated(l)' <=> Outdated(l)
    BY <2>1, ListingNext, OutdatedNext
  <2> QED BY <2>1, <2>2 DEF SnapshotsHold, AllThere, There, ListingIsKnown, LoudPagesAreLeft, IsListed
<1> SUFFICES ASSUME ~query'.cached, writes'.deletes = 0, PagesNext
             PROVE  AllThere' /\ ListingIsKnown' /\ LoudPagesAreLeft'
                      /\ \A b \in bookmarks' : ~b.quiet => Outdated(b.listed)'
  BY <1>1 DEF SnapshotsHold
<1>2. query' = query /\ ~query.cached /\ writes.deletes = 0
  <2>1. query' = query /\ (writes' = writes \/ \E f \in Files : Put(f) \/ Delete(f))
    BY StepsKeepQuery
  <2>2. \A f \in Files : Put(f) => writes' = [writes EXCEPT !.puts = @ + 1]
    BY DEF Put
  <2>3. \A f \in Files : Delete(f) => writes' = [writes EXCEPT !.deletes = @ + 1]
    BY DEF Delete
  <2>4. writes \in [puts : Nat, deletes : Nat]
    BY DEF PagesTyped
  <2> QED BY <2>1, <2>2, <2>3, <2>4
<1>4. AllThere /\ ListingIsKnown /\ LoudPagesAreLeft /\ \A b \in bookmarks : ~b.quiet => Outdated(b.listed)
  BY <1>2 DEF SnapshotsHold
<1>5. ASSUME store' = store
      PROVE  AllThere' /\ Listing' = Listing /\ \A l : Outdated(l)' <=> Outdated(l)
  BY <1>4, <1>5, ListingNext, OutdatedNext DEF AllThere, There
<1>6. IdleCall.phase \notin ListedPhases
  BY DEF IdleCall, ListedPhases
<1>7. CASE \E at \in {FirstPage} \cup bookmarks, maxRows \in PageSizes : Slice(at, maxRows)
  <2>1. PICK at \in {FirstPage} \cup bookmarks, maxRows \in PageSizes : Slice(at, maxRows)
    BY <1>7
  <2>2. call'.phase \notin ListedPhases /\ bookmarks' = bookmarks /\ store' = store
    BY <2>1 DEF Slice, IdleCall, ListedPhases
  <2> QED BY <1>4, <1>5, <2>2 DEF ListingIsKnown, LoudPagesAreLeft, IsListed
<1>8. CASE ListPlan
  <2> DEFINE quiet == Expanded = Listing
             c == [call EXCEPT !.phase = "tasks", !.listed = Expanded, !.quiet = quiet]
  <2>1. (call' = IdleCall \/ call' = c) /\ bookmarks' = bookmarks /\ store' = store
    BY <1>8 DEF ListPlan, Expand, Ended
  <2>2. Expanded = Listing /\ quiet
    BY <1>2 DEF Expanded
  <2> HIDE DEF quiet
  <2>3. c.listed = Listing /\ c.quiet = quiet /\ c.at = call.at
    BY <2>2, CallParts DEF Call
  <2> HIDE DEF c
  <2>4. CASE call' = c
    <3>1. ListingIsKnown'
      BY <1>5, <2>1, <2>2, <2>3, <2>4 DEF ListingIsKnown
    <3>2. LoudPagesAreLeft'
      <4> SUFFICES ASSUME call.at # FirstPage, ~call.at.quiet, call.at.listed = Listing PROVE FALSE
        BY <2>3, <2>4 DEF LoudPagesAreLeft
      <4>1. call.at \in bookmarks
        BY CallParts
      <4> QED BY <1>4, <4>1, ListingIsNotOutdated
    <3> QED BY <1>4, <1>5, <2>1, <3>1, <3>2
  <2> QED BY <1>4, <1>5, <1>6, <2>1, <2>4 DEF ListingIsKnown, LoudPagesAreLeft, IsListed
<1>9. CASE PlanTasks
  <2>1. PICK footer \in Footers : Compare([call EXCEPT !.plan = Manifest(call.listed, footer)])
    BY <1>9 DEF PlanTasks
  <2> DEFINE plan == Manifest(call.listed, footer)
             planned == [call EXCEPT !.plan = plan]
             c == [planned EXCEPT !.phase = "relisting"]
  <2>2. (call' = IdleCall \/ call' = c) /\ bookmarks' = bookmarks /\ store' = store /\ call.phase = "tasks"
    BY <1>9, <2>1 DEF PlanTasks, Compare, Ended
  <2> HIDE DEF plan
  <2>3. c.listed = call.listed /\ c.quiet = call.quiet /\ c.at = call.at
    BY CallParts DEF Call
  <2> HIDE DEF c
  <2>4. IsListed
    BY <2>2 DEF IsListed, ListedPhases
  <2> QED BY <1>4, <1>5, <1>6, <2>2, <2>3, <2>4 DEF ListingIsKnown, LoudPagesAreLeft, IsListed
<1>10. CASE ScanStep
  <2>1. store' = store /\ call.phase \in PastPhases /\ (EndsIdle \/ GoesOn \/ Returns)
    BY <1>10, ScanSteps
  <2>2. IsListed
    BY <2>1 DEF IsListed, PastPhases
  <2>3. CASE EndsIdle
    BY <1>4, <1>5, <1>6, <2>1, <2>3 DEF EndsIdle, ListingIsKnown, LoudPagesAreLeft, IsListed
  <2>4. CASE GoesOn
    BY <1>4, <1>5, <2>1, <2>2, <2>4 DEF GoesOn, Follows, ListingIsKnown, LoudPagesAreLeft, IsListed
  <2>5. CASE Returns
    <3>1. PICK c \in Call, more \in BOOLEAN : Return(c, more) /\ Follows(c)
      BY <2>5 DEF Returns
    <3>2. /\ call' = IdleCall
          /\ \A b \in bookmarks' \ bookmarks : b.listed = c.listed /\ b.quiet = (c.quiet /\ c.at.quiet)
      BY <3>1, ReturnedBookmarks
    <3>3. ASSUME NEW b \in bookmarks' \ bookmarks, ~b.quiet PROVE Outdated(b.listed)
      <4>1. b.listed = call.listed /\ ~(call.quiet /\ call.at.quiet)
        BY <3>1, <3>2, <3>3 DEF Follows
      <4>2. CASE ~call.quiet
        BY <1>4, <2>2, <4>1, <4>2 DEF ListingIsKnown
      <4>3. CASE ~call.at.quiet
        <5>1. call.at # FirstPage
          BY <4>3 DEF FirstPage
        <5>2. call.at \in bookmarks /\ call.at \in Bookmark /\ call.listed \in Seq(Versions)
          BY <5>1, CallParts
        <5>3. call.at.listed \in Seq(Versions)
          BY <5>2 DEF Bookmark
        <5>4. IsPlanOf(call.plan, call.at.listed) /\ IsPlanOf(call.plan, call.listed)
          BY <2>1, <5>1, <5>2 DEF PlansHold
        <5>5. call.at.listed = call.listed
          BY <5>2, <5>3, <5>4, PlanTellsListing
        <5> QED BY <1>4, <2>2, <4>3, <5>1, <5>5 DEF LoudPagesAreLeft
      <4> QED BY <4>1, <4>2, <4>3
    <3> QED BY <1>4, <1>5, <1>6, <2>1, <3>2, <3>3 DEF ListingIsKnown, LoudPagesAreLeft, IsListed
  <2> QED BY <2>1, <2>3, <2>4, <2>5
<1>11. CASE ReadFails
  <2>1. call' = IdleCall /\ bookmarks' = bookmarks /\ store' = store
    BY <1>11 DEF ReadFails, Ended
  <2> QED BY <1>4, <1>5, <1>6, <2>1 DEF ListingIsKnown, LoudPagesAreLeft, IsListed
<1>12. CASE \E f \in Files : Put(f)
  <2>1. PICK f \in Files : Put(f)
    BY <1>12
  <2>2. /\ AllThere' /\ call' = Disturbed(call) /\ bookmarks' = bookmarks
        /\ \A listed \in Seq(Versions) : Outdated(listed) => Outdated(listed)'
        /\ \A listed : listed = Listing => Outdated(listed)'
    BY <1>4, <2>1, PutOutdates
  <2>3. /\ call'.phase = call.phase /\ call'.listed = call.listed /\ call'.at = call.at
        /\ call.phase # "idle" => ~call'.quiet
    BY <2>2, CallParts DEF Disturbed, Call
  <2>4. ListingIsKnown'
    <3> SUFFICES ASSUME IsListed' PROVE ~call'.quiet /\ Outdated(call.listed)'
      BY DEF ListingIsKnown
    <3>1. IsListed /\ ~call'.quiet
      BY <2>3 DEF IsListed, ListedPhases
    <3>2. PICK l : l = call.listed
      OBVIOUS
    <3>3. l \in Seq(Versions) /\ (Outdated(l) \/ l = Listing) /\ call'.listed = l
      BY <1>4, <2>3, <3>1, <3>2, CallParts DEF ListingIsKnown
    <3>4. Outdated(l)'
      BY <2>2, <3>3
    <3>5. Outdated(call.listed)'
      BY <3>3, <3>4 DEF Outdated
    <3> QED BY <3>1, <3>5
  <2>5. LoudPagesAreLeft'
    BY <1>4, <2>3 DEF LoudPagesAreLeft, IsListed
  <2>6. \A b \in bookmarks : b.listed \in Seq(Versions)
    BY DEF PagesTyped, Bookmark
  <2> QED BY <1>4, <2>2, <2>4, <2>5, <2>6
<1>13. CASE \E f \in Files : Delete(f)
  <2>1. writes \in [puts : Nat, deletes : Nat] /\ writes' = [writes EXCEPT !.deletes = @ + 1]
    BY <1>13 DEF Delete, PagesTyped
  <2>2. writes'.deletes # 0
    BY <2>1
  <2> QED BY <2>2
<1> QED BY <1>7, <1>8, <1>9, <1>10, <1>11, <1>12, <1>13 DEF PagesNext, ScanStep

(* The strengthening for snapshots is invariant.                            *)
LEMMA PagesPinned == PagesSpec => [](PagesTyped /\ PlansHold /\ SnapshotsHold)
<1>1. PagesInit => PlansHold /\ SnapshotsHold
  <2> SUFFICES ASSUME PagesInit PROVE PlansHold /\ SnapshotsHold
    OBVIOUS
  <2>1. bookmarks = {} /\ call.phase \notin ListedPhases
    BY DEF PagesInit, IdleCall, ListedPhases
  <2>2. AllThere
    BY DEF PagesInit, AllThere, There
  <2> QED BY <2>1, <2>2 DEF PlansHold, SnapshotsHold, PastPhases, ListingIsKnown, LoudPagesAreLeft, IsListed
<1> DEFINE I == PagesTyped /\ PlansHold /\ SnapshotsHold
<1>2. PagesInit => I
  BY <1>1, PagesInitTyped
<1>3. I /\ [PagesNext]_pagesVars => I'
  BY PagesTypedNext, PlansHoldNext, SnapshotsHoldNext
<1> HIDE DEF I
<1>4. PagesSpec => []I
  BY <1>2, <1>3, PTL DEF PagesSpec
<1> QED BY <1>4 DEF I

(* Snapshots whose plans are those of their listings are pinned.            *)
LEMMA PinnedByPlans == ASSUME PagesTyped, PlansHold, SnapshotsHold PROVE SnapshotsArePinned
<1> SUFFICES ASSUME ~query.cached, writes.deletes = 0, IsPastFingerprint, call.at # FirstPage
             PROVE  call.at.listed = call.listed /\ call.at.quiet
  BY DEF SnapshotsArePinned
<1>1. call.phase \in PastPhases /\ IsListed
  BY DEF IsPastFingerprint, PastPhases, ListedPhases, IsListed
<1>2. call.at \in bookmarks /\ call.at \in Bookmark /\ call.listed \in Seq(Versions)
  BY CallParts
<1>3. call.at.listed \in Seq(Versions)
  BY <1>2 DEF Bookmark
<1>4. IsPlanOf(call.plan, call.at.listed) /\ IsPlanOf(call.plan, call.listed)
  BY <1>1, <1>2 DEF PlansHold
<1>5. call.at.listed = call.listed
  BY <1>2, <1>3, <1>4, PlanTellsListing
<1> QED BY <1>1, <1>5 DEF SnapshotsHold, LoudPagesAreLeft

(* A bookmark pins a snapshot: in a lake without a planning cache and a store  *)
(* that nothing was deleted from, a slice that gets past assertBookmarkMatches *)
(* lists what every page before it listed, and none of them saw a change.      *)
THEOREM SnapshotsPinned == PagesSpec => []SnapshotsArePinned
<1>1. PagesTyped /\ PlansHold /\ SnapshotsHold => SnapshotsArePinned
  BY PinnedByPlans
<1> QED BY <1>1, PagesPinned, PTL

-----------------------------------------------------------------------------
(* What a query promises does not change while the query does not.            *)
LEMMA PromiseNext ==
  ASSUME query' = query, NEW rows, NEW listed, NEW from, NEW to
  PROVE  /\ Whole(listed)' = Whole(listed)
         /\ AgreesWith(rows, Cut(Whole(listed), from, to), listed)'
              <=> AgreesWith(rows, Cut(Whole(listed), from, to), listed)
<1>1. Limited' = Limited /\ TopK' = TopK /\ Route' = Route
  BY DEF Limited, TopK, Route
<1>2. ASSUME NEW refs PROVE Matching(refs)' = Matching(refs)
  BY DEF Matching, IsSelected, Selected
<1>3. ASSUME NEW refs PROVE InOrder(refs)' = InOrder(refs)
  BY DEF InOrder
<1>4. ASSUME NEW refs PROVE Chosen(refs)' = Chosen(refs)
  BY <1>2 DEF Chosen
<1>5. Whole(listed)' = Whole(listed)
  <2> DEFINE found == Found(listed)
             ordered == InOrder(found)
             all == RowsIn(ordered, Chosen(ordered))
  <2>1. Whole(listed) = Cut(all, query.offset + 1, IF Limited THEN TopK ELSE Len(all))
    BY DEF Whole
  <2>2. Whole(listed)' = Cut(all, query.offset + 1, IF Limited THEN TopK ELSE Len(all))'
    BY DEF Whole
  <2>3. all' = all
    BY <1>3, <1>4
  <2> QED BY <1>1, <2>1, <2>2, <2>3
<1>6. AgreesWith(rows, Cut(Whole(listed), from, to), listed)'
              <=> AgreesWith(rows, Cut(Whole(listed), from, to), listed)
  BY <1>1, <1>2, <1>5 DEF AgreesWith
<1> QED BY <1>5, <1>6

(* What a whole scan finds are references.                                  *)
LEMMA FoundFits == ASSUME NEW listed \in Seq(Versions) PROVE Found(listed) \in Seq(Ref)
<1> DEFINE Y == Seq(Ref)
           R(i) == RefsAt(listed[i].file, listed[i].v, 1, Unbounded(listed[i].file, listed[i].v))
           n == Len(listed)
           all == [i \in 1..n |-> R(i)]
<1>1. ASSUME NEW i \in 1..n PROVE R(i) \in Y
  <2> DEFINE o == listed[i]
  <2>1. o \in Versions
    OBVIOUS
  <2> HIDE DEF o
  <2>2. FileRows(o.file, o.v) \in Seq(Row) /\ 1 \in Nat \ {0}
    BY <2>1, ContentsOf
  <2>3. Unbounded(o.file, o.v) \in Int
    BY <2>2 DEF Unbounded
  <2>4. RefsAt(o.file, o.v, 1, Unbounded(o.file, o.v)) \in Y
    BY <2>1, <2>2, <2>3, RefsFit
  <2> QED BY <2>4 DEF o
<1>2. n \in Nat /\ Found(listed) = FlattenSeq(all)
  BY DEF Found
<1> HIDE DEF R, Y
<1>3. all \in Seq(Y)
  BY <1>1, <1>2
<1> HIDE DEF all
<1> QED BY <1>2, <1>3, FlattenSteps DEF Y

(* The whole result is rows.                                                *)
LEMMA WholeFits == ASSUME PagesTyped, NEW listed \in Seq(Versions) PROVE Whole(listed) \in Seq(AnyRow)
<1> DEFINE ordered == InOrder(Found(listed))
           places == Chosen(ordered)
           all == RowsIn(ordered, places)
           end == IF Limited THEN TopK ELSE Len(all)
           n == Cardinality(places)
           F(i) == ordered[NthOf(places, i)].row
<1>1. ordered \in Seq(Ref)
  BY FoundFits, SortsFit DEF InOrder
<1> HIDE DEF ordered
<1>2. places \subseteq DOMAIN ordered
  BY DEF Chosen, Matching
<1> HIDE DEF places
<1>3. IsFiniteSet(places) /\ places \subseteq Int /\ n \in Nat
  <2>1. DOMAIN ordered = 1..Len(ordered) /\ Len(ordered) \in Nat
    BY <1>1
  <2>2. IsFiniteSet(1..Len(ordered))
    BY <2>1, FS_Interval
  <2>3. IsFiniteSet(places)
    BY <1>2, <2>1, <2>2, FS_Subset
  <2> QED BY <1>2, <2>1, <2>3, FS_CardinalityType
<1>4. \A i \in 1..n : NthOf(places, i) \in places
  BY <1>3, NthOfSet
<1>5. \A i \in 1..n : F(i) \in AnyRow
  <2> TAKE i \in 1..n
  <2>1. ordered[NthOf(places, i)] \in Ref
    BY <1>1, <1>2, <1>4
  <2> QED BY <2>1 DEF Ref
<1>6. all = [i \in 1..n |-> F(i)]
  BY DEF RowsIn
<1> HIDE DEF F, n
<1>7. all \in Seq(AnyRow)
  BY <1>3, <1>5, <1>6
<1> HIDE DEF all
<1>8. query.offset + 1 \in Nat \ {0} /\ end \in Int
  <2>1. query.offset \in Nat /\ (Limited => TopK \in Nat)
    BY CallParts, QueryFits
  <2>2. Len(all) \in Int
    BY <1>7
  <2> QED BY <2>1, <2>2
<1> HIDE DEF end
<1>9. Whole(listed) = Cut(all, query.offset + 1, end)
  BY DEF Whole, all, places, ordered, end
<1> QED BY <1>7, <1>8, <1>9, CutBounded

(* Rows that agree with a result are as many.                               *)
LEMMA AgreeingLength ==
  ASSUME NEW rows, NEW expected, NEW listed, AgreesWith(rows, expected, listed)
  PROVE  Len(rows) = Len(expected)
<1>1. CASE rows = expected
  BY <1>1
<1>2. CASE rows # expected
  BY <1>2 DEF AgreesWith
<1> QED BY <1>1, <1>2

(* A bookmark whose pages were right, all together.                           *)
IsRight(b) ==
  b.offset = Len(b.given) /\ AgreesWith(b.given, Cut(Whole(b.listed), 1, b.offset), b.listed)
PagesHold == \A b \in bookmarks : b.quiet => IsRight(b)

(* Whether a bookmark is right is a matter of the query.                    *)
LEMMA RightNext == ASSUME query' = query, NEW b PROVE IsRight(b)' <=> IsRight(b)
<1> DEFINE whole == Cut(Whole(b.listed), 1, b.offset)
<1>1. AgreesWith(b.given, whole, b.listed)' <=> AgreesWith(b.given, whole, b.listed)
  BY PromiseNext
<1> QED BY <1>1 DEF IsRight

(* The first page is where the result begins.                               *)
LEMMA FirstPageIsRight == ASSUME PagesTyped PROVE IsRight(FirstPage)
<1>1. Whole(NoListing) \in Seq(AnyRow)
  BY WholeFits, FirstPageFits
<1> DEFINE none == Cut(Whole(NoListing), 1, 0)
<1>2. none \in Seq(AnyRow) /\ Len(none) <= Room(1, 0) /\ Len(none) \in Nat
  <2>1. 1 \in Nat \ {0} /\ 0 \in Int
    OBVIOUS
  <2>2. none \in Seq(AnyRow) /\ Len(none) <= Room(1, 0)
    BY <1>1, <2>1, CutBounded
  <2> QED BY <2>2
<1>3. none = <<>>
  BY <1>2 DEF Room
<1>4. /\ FirstPage.offset = 0 /\ FirstPage.given = <<>> /\ FirstPage.listed = NoListing /\ Len(<<>>) = 0
      /\ DOMAIN <<>> = {}
  BY DEF FirstPage
<1> HIDE DEF none
<1>5. AgreesWith(<<>>, none, NoListing)
  BY <1>3, <1>4 DEF AgreesWith
<1> QED BY <1>4, <1>5 DEF IsRight, none

(* A page that was quiet, after pages that were, is right together with them.  *)
LEMMA LengthsAddUp ==
  ASSUME NEW whole \in Nat, NEW offset \in Nat, NEW maxRows \in Nat, NEW page \in Nat, NEW given \in Nat,
         NEW joined \in Nat, whole > offset + maxRows, joined = given + page,
         joined = Room(1, Smaller(offset + maxRows, whole)),
         page = Room(offset + 1, Smaller(offset + maxRows, whole))
  PROVE  page = maxRows /\ given = offset /\ joined = offset + page
BY DEF Room, Smaller

(* A quiet page that is exact leaves a bookmark that is right.              *)
LEMMA QuietBookmarkIsRight ==
  ASSUME PagesTyped, NEW c \in Call, c.at.quiet, c.at.listed \in {NoListing, c.listed},
         LET whole == Whole(c.listed)
             end == c.at.offset + c.maxRows
         IN /\ AgreesWith(c.page, Cut(whole, c.at.offset + 1, end), c.listed)
            /\ c.at.quiet /\ c.at.listed \in {NoListing, c.listed} =>
                 AgreesWith(c.at.given \o c.page, Cut(whole, 1, end), c.listed)
            /\ Len(whole) > end
  PROVE  LET offset == c.at.offset + Len(c.page)
             given == c.at.given \o c.page
         IN offset = Len(given) /\ AgreesWith(given, Cut(Whole(c.listed), 1, offset), c.listed)
<1> DEFINE whole == Whole(c.listed)
           end == c.at.offset + c.maxRows
           given == c.at.given \o c.page
<1>1. /\ AgreesWith(c.page, Cut(whole, c.at.offset + 1, end), c.listed)
      /\ AgreesWith(given, Cut(whole, 1, end), c.listed)
      /\ Len(whole) > end
  OBVIOUS
<1>2. /\ c.listed \in Seq(Versions) /\ c.at \in Bookmark /\ c.maxRows \in Nat /\ c.page \in Seq(AnyRow)
      /\ c.at.offset \in Nat /\ c.at.given \in Seq(AnyRow)
  BY DEF Call, Bookmark
<1>3. whole \in Seq(AnyRow) /\ Len(whole) \in Nat
  <2>1. whole \in Seq(AnyRow)
    BY <1>2, WholeFits
  <2> QED BY <2>1
<1>4. /\ end \in Int /\ end \in Nat /\ c.at.offset + 1 \in Nat \ {0} /\ 1 \in Nat \ {0}
      /\ Len(c.page) \in Nat /\ given \in Seq(AnyRow) /\ Len(given) = Len(c.at.given) + Len(c.page)
      /\ Len(c.at.given) \in Nat /\ Len(given) \in Nat
  <2>1. end \in Int /\ end \in Nat /\ c.at.offset + 1 \in Nat \ {0} /\ 1 \in Nat \ {0}
    <3>1. \A m, n \in Nat : m + n \in Int /\ m + n \in Nat /\ m + 1 \in Nat \ {0} /\ 1 \in Nat \ {0}
      OBVIOUS
    <3> QED BY <1>2, <3>1
  <2> DEFINE p == c.page
             g == c.at.given
  <2>2. p \in Seq(AnyRow) /\ g \in Seq(AnyRow)
    BY <1>2
  <2> HIDE DEF p, g
  <2>3. /\ Len(p) \in Nat /\ Len(g) \in Nat /\ g \o p \in Seq(AnyRow) /\ Len(g \o p) = Len(g) + Len(p)
        /\ Len(g \o p) \in Nat
    BY <2>2
  <2> QED BY <2>1, <2>3 DEF p, g
<1> HIDE DEF whole, given
<1>5. /\ Len(given) = Room(1, Smaller(end, Len(whole)))
      /\ Len(c.page) = Room(c.at.offset + 1, Smaller(end, Len(whole)))
  <2> HIDE DEF end
  <2>1. Len(Cut(whole, 1, end)) = Room(1, Smaller(end, Len(whole)))
    BY <1>3, <1>4, CutIsSeq
  <2>2. Len(Cut(whole, c.at.offset + 1, end)) = Room(c.at.offset + 1, Smaller(end, Len(whole)))
    BY <1>3, <1>4, CutIsSeq
  <2> QED BY <1>1, <2>1, <2>2, AgreeingLength
<1>6. Len(c.page) = c.maxRows /\ Len(c.at.given) = c.at.offset /\ Len(given) = c.at.offset + Len(c.page)
  <2> QED BY <1>1, <1>2, <1>3, <1>4, <1>5, LengthsAddUp
<1> QED BY <1>1, <1>6 DEF whole, given

(* Every step keeps bookmarks right while quiet pages are exact.            *)
LEMMA PagesHoldNext ==
  ASSUME PagesTyped, PlansHold, QuietPagesAreExact', PagesHold, [PagesNext]_pagesVars
  PROVE  PagesHold'
<1>1. query' = query
  BY StepsKeepQuery DEF pagesVars
<1>2. ASSUME NEW b \in bookmarks, b.quiet PROVE IsRight(b)'
  BY <1>1, <1>2, RightNext DEF PagesHold
<1>3. CASE bookmarks' = bookmarks
  BY <1>2, <1>3 DEF PagesHold
<1>4. CASE ScanStep /\ Returns
  <2>1. PICK c \in Call, more \in BOOLEAN : Return(c, more) /\ Follows(c)
    BY <1>4 DEF Returns
  <2>2. /\ reply' = [kind |-> "page", call |-> c, more |-> more]
        /\ \A b \in bookmarks' \ bookmarks :
             /\ more /\ b.plan = c.plan /\ b.listed = c.listed /\ b.quiet = (c.quiet /\ c.at.quiet)
             /\ b.offset = c.at.offset + Len(c.page) /\ b.given = c.at.given \o c.page
    BY <2>1, ReturnedBookmarks
  <2>3. call.phase \in PastPhases
    BY <1>4, ScanSteps
  <2>4. c.at.listed \in {NoListing, c.listed}
    <3>1. CASE call.at = FirstPage
      BY <2>1, <3>1 DEF Follows, FirstPage
    <3>2. CASE call.at # FirstPage
      <4>1. call.at \in bookmarks /\ call.at \in Bookmark /\ call.listed \in Seq(Versions)
        BY <3>2, CallParts
      <4>2. call.at.listed \in Seq(Versions)
        BY <4>1 DEF Bookmark
      <4>3. IsPlanOf(call.plan, call.at.listed) /\ IsPlanOf(call.plan, call.listed)
        BY <2>3, <3>2, <4>1 DEF PlansHold
      <4>4. call.at.listed = call.listed
        BY <4>1, <4>2, <4>3, PlanTellsListing
      <4> QED BY <2>1, <4>4 DEF Follows
    <3> QED BY <3>1, <3>2
  <2>5. ASSUME NEW b \in bookmarks' \ bookmarks, b.quiet PROVE IsRight(b)'
    <3>1. more /\ c.quiet /\ c.at.quiet /\ b.listed = c.listed
          /\ b.offset = c.at.offset + Len(c.page) /\ b.given = c.at.given \o c.page
      BY <2>2, <2>5
    <3> DEFINE whole == Whole(c.listed)
               end == c.at.offset + c.maxRows
               joined == c.at.given \o c.page
    <3>2. /\ AgreesWith(c.page, Cut(whole, c.at.offset + 1, end), c.listed)'
          /\ c.at.quiet /\ c.at.listed \in {NoListing, c.listed} =>
               AgreesWith(joined, Cut(whole, 1, end), c.listed)'
          /\ (Len(whole) > end)'
      <4>1. reply'.kind = "page" /\ reply'.call = c /\ reply'.more = more
        BY <2>2
      <4> QED BY <3>1, <4>1 DEF QuietPagesAreExact
    <3>3. /\ AgreesWith(c.page, Cut(whole, c.at.offset + 1, end), c.listed)
          /\ c.at.quiet /\ c.at.listed \in {NoListing, c.listed} =>
               AgreesWith(joined, Cut(whole, 1, end), c.listed)
          /\ Len(whole) > end
      <4> DEFINE from == c.at.offset + 1
                 page == c.page
      <4>1. whole' = whole
        BY <1>1, PromiseNext
      <4> HIDE DEF joined, end, from, page
      <4>2. /\ AgreesWith(page, Cut(whole, from, end), c.listed)' <=> AgreesWith(page, Cut(whole, from, end), c.listed)
            /\ AgreesWith(joined, Cut(whole, 1, end), c.listed)' <=> AgreesWith(joined, Cut(whole, 1, end), c.listed)
        BY <1>1, PromiseNext
      <4> HIDE DEF whole
      <4> QED BY <3>2, <4>1, <4>2 DEF joined, end, from, page
    <3>4. LET offset == c.at.offset + Len(c.page)
              given == c.at.given \o c.page
          IN offset = Len(given) /\ AgreesWith(given, Cut(Whole(c.listed), 1, offset), c.listed)
      BY <2>4, <3>1, <3>3, QuietBookmarkIsRight
    <3>5. IsRight(b)
      BY <3>1, <3>4 DEF IsRight
    <3> QED BY <1>1, <3>5, RightNext
  <2> QED BY <1>2, <2>5 DEF PagesHold
<1>5. bookmarks' = bookmarks \/ (ScanStep /\ Returns)
  <2>1. CASE ScanStep
    BY <2>1, ScanSteps DEF EndsIdle, GoesOn
  <2>2. CASE ListPlan
    BY <2>2 DEF ListPlan, Expand
  <2>3. CASE \E at \in {FirstPage} \cup bookmarks, maxRows \in PageSizes : Slice(at, maxRows)
    BY <2>3 DEF Slice
  <2>4. CASE PlanTasks \/ ReadFails
    BY <2>4 DEF PlanTasks, ReadFails
  <2>5. CASE \E f \in Files : Put(f) \/ Delete(f)
    BY <2>5 DEF Put, Delete, Write
  <2>6. CASE UNCHANGED pagesVars
    BY <2>6 DEF pagesVars
  <2> QED BY <2>1, <2>2, <2>3, <2>4, <2>5, <2>6 DEF PagesNext, ScanStep
<1> QED BY <1>3, <1>4, <1>5

(* Pages follow right ones: if every quiet page is exact, on its own and       *)
(* together with quiet ones before it, then no sequence of calls, writes, stale *)
(* bookmarks and failures hands a reader a page after ones that were not.      *)
THEOREM ResumedPagesFollow == PagesSpec /\ []QuietPagesAreExact => []ResumedPagesFollowExactOnes
<1>1. PagesInit => PagesHold
  BY DEF PagesInit, PagesHold
<1> DEFINE I == PagesTyped /\ PlansHold /\ SnapshotsHold
<1>2. I /\ QuietPagesAreExact' /\ PagesHold /\ [PagesNext]_pagesVars => PagesHold'
  BY PagesHoldNext
<1>3. I /\ PagesHold => ResumedPagesFollowExactOnes
  <2> SUFFICES ASSUME I, PagesHold, writes.deletes = 0, ~query.cached, IsPastFingerprint
               PROVE  IsRight(call.at)
    BY DEF ResumedPagesFollowExactOnes, PaginationIsConsistent, IsRight
  <2>1. CASE call.at = FirstPage
    BY <2>1, FirstPageIsRight
  <2>2. CASE call.at # FirstPage
    <3>1. SnapshotsArePinned
      BY PinnedByPlans
    <3>2. call.at \in bookmarks
      BY <2>2, CallParts
    <3> QED BY <2>2, <3>1, <3>2 DEF SnapshotsArePinned, PagesHold
  <2> QED BY <2>1, <2>2
<1>4. PagesSpec => []I
  BY PagesPinned
<1> HIDE DEF I
<1> QED BY <1>1, <1>2, <1>3, <1>4, PTL DEF PagesSpec
==============================================================================
