\* Eleven query shapes, one for each route and budget; pages of one and of two rows.
SPECIFICATION PagesSpec
CONSTANTS
  NFiles = 2
  Contents <- Objects
  Queries <- Shapes
  NoLimit = NoLimit
  PageSizes = {1, 2}
  MaxWrites = 2
  MaxCalls = 3
INVARIANTS QuietPagesAreExact ResumedPagesFollowExactOnes FreshCallsAreServed
CHECK_DEADLOCK FALSE
