SPECIFICATION Spec
CONSTANTS
  Plans <- UserPlans
  Workers = {w1, w2}
SYMMETRY WorkerSymmetry
INVARIANTS ConnectionTypeOK ReadInOrder AcknowledgedCounted HalfClosed
CHECK_DEADLOCK FALSE
