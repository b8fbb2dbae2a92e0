\* Four readers, two slots.
SPECIFICATION Spec
CONSTANTS
  Reader = {r1, r2, r3, r4}
  Limit = 2
INVARIANTS ActiveCountsHolders NoLostWaiter
PROPERTY EveryOperationSettles
