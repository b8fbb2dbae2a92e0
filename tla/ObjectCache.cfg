\* Two clients, two paths; the cache holds one object and one range.
SPECIFICATION CacheSpec
CONSTANTS
  Path = {p1, p2}
  Client = {c1, c2}
  SizeOf <- Sizes
  PriorityOf <- Balanced
  MaxBytes = 3
  MaxVersion = 1
SYMMETRY Symm
INVARIANTS BytesAreCounted StaleIsExplained
