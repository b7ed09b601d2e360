SPECIFICATION FairStreamSpec
CONSTANTS
  t1 = t1
  h1 = h1
  f1 = f1
  Task = {t1}
  Handler = {h1}
  Fetch = {f1}
  MaxConcurrency = 1
  MaxQueueSize = 1
  DefaultConcurrency = 1
  DefaultQueueSize = 1
  MaxFaults = 0
  MaxRestarts = 0
  QueueMax = 3
  MaxBreaks = 0
PROPERTIES
  EndedCardLeaves
