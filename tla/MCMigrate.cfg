SPECIFICATION Spec
CONSTANTS
  p1 = p1
  p2 = p2
  u = u
  None = None
  Unseen = Unseen
  Picture = {p1, p2}
  Upload = {u}
  Task = {1, 2}
  Table <- MCTable
  StorageName = "aliyun"
  Limits = {0, 1}
  Attempts = 2
  MaxFaults = 2
  MaxKills = 1
INVARIANTS
  MigrationInvariant
  VerifiedIsMigrated
  ObjectOrphansExcused
PROPERTIES
  PicturesStayAvailable
  OnlyStoredKeysWritten
  RerunsFinish
