SPECIFICATION BatchSpec
CONSTANTS
  p1 = p1
  p2 = p2
  u = u
  None = None
  Unseen = Unseen
  Picture = {p1, p2}
  Upload = {u}
  Task = {1, 2}
  Table <- MCTable
  StorageName = "aliyun"
  Limits = {0, 1}
  Attempts = 2
  MaxFaults = 0
  MaxKills = 0
PROPERTIES
  BatchesFinish
