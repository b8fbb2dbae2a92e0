-------------------------------- MODULE MCTables --------------------------------
(***************************************************************************)
(* A table over objects, one of two: an Iceberg table that two writers append *)
(* to, or a Lance dataset of two fragments that is read while reads fail or    *)
(* are late.  A call of the dataset that is over, with nothing under way       *)
(* behind it, is no deadlock.                                               *)
(***************************************************************************)
EXTENDS MCIcebergCommit, LanceReader

D == INSTANCE MCLanceData
MCTakes == D!AllTakes

VARIABLE turn

NoTake == D!NoIds
IsRead == phase = "over" /\ \A t \in DOMAIN tasks : Settled(tasks[t])

MCInit ==
  \/ turn = "iceberg" /\ take = NoTake /\ TakeInit /\ Init
  \/ turn = "lance" /\ Init /\ TakeInit

MCNext ==
  \/ turn = "iceberg" /\ Next /\ UNCHANGED <<turn, takeVars>>
  \/ turn = "lance" /\ TakeNext /\ UNCHANGED <<turn, vars>>
  \/ turn = "lance" /\ IsRead /\ UNCHANGED <<turn, vars, takeVars>>

MCSpec == MCInit /\ [][MCNext]_<<turn, vars, takeVars>>
=============================================================================
