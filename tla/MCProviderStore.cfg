SPECIFICATION Spec
CONSTANTS
  k1 = k1
  m1 = m1
  m2 = m2
  m3 = m3
  r1 = r1
  r2 = r2
  r3 = r3
  u1 = u1
  u2 = u2
  None = None
  Key = {k1}
  Model = {m1, m2, m3}
  Url = {u1, u2}
  DefaultUrl = u1
  Request = {r1, r2, r3}
  Answer <- MCAnswer
  MaxFaults = 1
SYMMETRY StoreSymmetry
INVARIANTS
  InductiveInvariant
  ModelsOfOneAnswer
  OrphansAreExcused
  DefaultIsExcused
PROPERTIES
  ImplementsCatalog
