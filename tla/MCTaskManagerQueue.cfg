SPECIFICATION Spec
CONSTANTS
  t1 = t1
  t2 = t2
  t3 = t3
  Task = {t1, t2, t3}
  MaxConcurrency = 3
  MaxQueueSize = 3
  DefaultConcurrency = 1
  DefaultQueueSize = 3
  MaxFaults = 0
  MaxRestarts = 0
SYMMETRY TaskSymmetry
INVARIANTS
  WorkerRowActive
  WorkConserving
PROPERTIES
  DispatchWithinConcurrency
  DispatchInQueueOrder
  LoadWithinCap
