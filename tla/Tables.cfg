\* Two writers and three appends, two of them perhaps with one snapshot id, to a table with or without a version hint; a dataset of two fragments.
SPECIFICATION MCSpec
CONSTANTS
  Writer = {w1, w2}
  MaxId = 3
  Base = 2
  MaxAppends = 3
  Takes <- MCTakes
  CoalesceGap = 1
  MaxCoalesced = 4
  EdgeBytes = 1
  MatchBytes = 2
  MaxFailures = 1
  MaxRows = 3
  ByteBits = 2
  WordBytes = 2
  FooterBytes = 1
  EntryBytes = 1
  TailBytes = 4
  TailShare = 2
  NumberBytes = 2
  ItemBytes = 1
  MaxWrappers = 2
SYMMETRY Symm
INVARIANTS HintIsWhole RacersConflict ConflictsAreReal OnlyCommitsAreVisible RowsAreAsWritten LeasesAreReturned
