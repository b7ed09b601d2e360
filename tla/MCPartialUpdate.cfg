SPECIFICATION Spec
CONSTANTS
  k1 = k1
  m1 = m1
  m2 = m2
  m3 = m3
  r1 = r1
  r2 = r2
  u1 = u1
  u2 = u2
  None = None
  Key = {k1}
  Model = {m1, m2, m3}
  Url = {u1, u2}
  DefaultUrl = u1
  Request = {r1, r2}
  Answer <- MCAnswer
  MaxFaults = 0
SYMMETRY StoreSymmetry
PROPERTIES
  PartialUpdateKeepsUrl
