\* A single worker and two info.json requests are enough.
CONSTANTS
  Requests = {r1, r2, r3}
  Workers = 1
  QueueDepth = 1
SYMMETRY SlotSymmetry
SPECIFICATION Spec
INVARIANT
  DecodesBoundedByWorkers
