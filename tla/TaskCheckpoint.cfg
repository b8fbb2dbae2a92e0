\* Two workers, two idempotency keys, one task of two files.
SPECIFICATION Spec
CONSTANTS
  j1 = j1
  Task = {t1}
  MarkedTask = {t1}
  Worker = {w1, w2}
  Key = {k1, k2}
  NFiles = 2
  StaleTimeout = 1
  Instant = {0, 2}
  NoKey = NoKey
  NoPath = NoPath
  NoJob = NoJob
  Job = {j1}
  JobOf <- OneJob
SYMMETRY Symm
INVARIANTS RecordedOutputsAreWhole LoneRetrySucceeds ManifestIsSound
PROPERTY FreshPutsMoveOneStage
