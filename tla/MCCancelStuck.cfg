SPECIFICATION FairSpec
CONSTANTS
  t1 = t1
  t2 = t2
  Task = {t1, t2}
  MaxConcurrency = 2
  MaxQueueSize = 2
  DefaultConcurrency = 1
  DefaultQueueSize = 2
  MaxFaults = 0
  MaxRestarts = 0
PROPERTIES
  CancellingResolves
