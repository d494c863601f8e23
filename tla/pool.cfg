\* Two workers and one queue place over four slots: with both permits taken,
\* by an orphaned task among others, one request queues and one is shed.
CONSTANTS
  Requests = {r1, r2, r3, r4}
  Workers = 2
  QueueDepth = 1
SPECIFICATION FairSpec
INVARIANTS
  TypeOK
  PermitsConserved
  NoGhostWaiters
  NoIdleWorkerBesideWaiters
  SomeDecodeIsSerial
PROPERTIES
  NoOvertaking
  PoolSpec
  GaugesTell
  AdmittedMoveOn
  TasksReaped
