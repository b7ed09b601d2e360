SPECIFICATION Spec
CONSTANTS
  Picture = {}
  i1 = i1
  i2 = i2
  u1 = u1
  u2 = u2
  c1 = c1
  t1 = t1
  t2 = t2
  t3 = t3
  k = k
  None = None
  Upload = {i1, i2}
  Uploader = {u1, u2}
  Creator = {c1}
  Task = {t1, t2, t3}
  Credential = {k}
  MaxN = 2
  Cap = 2
  Configured = {"local", "minio"}
  MaxFaults = 2
SYMMETRY RequestSymmetry
INVARIANTS
  InductiveInvariant
  AnsweredIsWhole
  ReferencesHold
  AnswersMeanWhatTheySay
  AcceptedWithKey
PROPERTIES
  WholeStaysWhole
