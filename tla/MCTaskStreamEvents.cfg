SPECIFICATION StreamSpec
CONSTANTS
  t1 = t1
  t2 = t2
  h1 = h1
  Task = {t1, t2}
  Handler = {h1}
  Fetch = {}
  MaxConcurrency = 1
  MaxQueueSize = 2
  DefaultConcurrency = 1
  DefaultQueueSize = 2
  MaxFaults = 0
  MaxRestarts = 0
  QueueMax = 2
  MaxBreaks = 0
SYMMETRY StreamSymmetry
INVARIANTS
  TerminalEventIsLast
