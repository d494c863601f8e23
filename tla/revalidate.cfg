\* Masters replaced by rename with any stamp or written in place, objects put,
\* and binaries upgraded by restarts.
CONSTANTS
  A = A
  B = B
  C = C
  Requests = {r1, r2}
  Contents = {A, B, C}
  SizeOf <- MCSizeOf
  LimitValues = {"wide"}
  Binaries = {1, 2}
  Kinds = {"image"}
  Stores = {"local", "object"}
  MaxClock = 1
  MaxFiles = 3
  MaxAnswers = 3
SYMMETRY Symmetry
SPECIFICATION Spec
INVARIANTS
  TypeOK
  StrongETag
  AnswerIsTheResolvedVersion
CHECK_DEADLOCK FALSE
