\* Three connections: one idle, one in flight and one abandoned can coexist
\* at the signal.  The process may end, so terminal states are no deadlock.
CONSTANT Conns = {c1, c2, c3}
SPECIFICATION FairSpec
INVARIANTS
  TypeOK
  CleanDrainCutsNobody
PROPERTIES
  ShutdownCompletes
CHECK_DEADLOCK FALSE
