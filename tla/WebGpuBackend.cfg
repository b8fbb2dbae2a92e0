CONSTANTS
  c1 = c1
  c2 = c2
  ka = ka
  kb = kb
  NoOne = NoOne
  Callers = {c1, c2}
  Keys = {ka, kb}
  Bytes <- MCBytes
  MaxResidentBytes = 3
  MaxGeneration = 1
  MaxCalls = 3
SPECIFICATION Spec
INVARIANTS ResidencyIsBounded CacheIsOfTheDevice
PROPERTIES ResultsAreExact LeasesPin EveryCallSettles
CHECK_DEADLOCK FALSE
