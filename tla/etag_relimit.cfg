\* A restart may publish other limits. Nothing else need happen.
CONSTANTS
  A = A
  B = B
  C = C
  Requests = {r1, r2}
  Contents = {A, B}
  SizeOf <- MCSizeOf
  LimitValues = {"wide", "narrow"}
  Binaries = {1}
  Kinds = {"info", "max"}
  Stores = {"local", "object"}
  MaxClock = 1
  MaxFiles = 2
  MaxAnswers = 3
SPECIFICATION Spec
INVARIANT StrongETag
CHECK_DEADLOCK FALSE
