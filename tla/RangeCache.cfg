\* Three slices on two buffers of a file of five bytes; windows of two bytes, and room for two windows.
SPECIFICATION Spec
CONSTANTS
  Buffer = {b1, b2}
  Slice = {s1, s2, s3}
  Request <- Requests
  FileLength = 5
  CoalesceBytes = 2
  MaxEntryBytes = 2
  MaxBytes = 3
  MaxVersion = 1
SYMMETRY Symm
INVARIANTS BytesAreCounted OneReadPerWindow AnswersAreExact CurrentReadersAreCurrent
