CONSTANTS
  Null = Null
  Error = Error
  NoFrame = NoFrame
  Plans <- MCPlans
SPECIFICATION Spec
CHECK_DEADLOCK FALSE
INVARIANTS
  SlicesAddUp
  TiesFollowTheScan
  HeldStatesAreWhole
