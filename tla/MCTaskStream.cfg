SPECIFICATION StreamSpec
CONSTANTS
  t1 = t1
  h1 = h1
  f1 = f1
  f2 = f2
  Task = {t1}
  Handler = {h1}
  Fetch = {f1, f2}
  MaxConcurrency = 1
  MaxQueueSize = 1
  DefaultConcurrency = 1
  DefaultQueueSize = 1
  MaxFaults = 0
  MaxRestarts = 1
  QueueMax = 1
  MaxBreaks = 1
SYMMETRY StreamSymmetry
INVARIANTS
  StreamInvariant
  QuietListIsRight
