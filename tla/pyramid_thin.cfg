\* One narrow master halved twice over is enough.
CONSTANTS
  Masters <- MCThinMasters
  MaxResident = 40
SPECIFICATION Spec
INVARIANT WholeImageIsWholeLevel
CHECK_DEADLOCK FALSE
