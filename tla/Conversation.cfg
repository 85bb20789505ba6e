SPECIFICATION MCFairSpec
CONSTANTS
  r1 = r1
  r2 = r2
  n1 = n1
  c1 = c1
  s1 = s1
  p1 = p1
  m1 = m1
  i1 = i1
  Nobody = Nobody
  User = User
  Request = {r1, r2}
  Rotator = {n1}
  Compactor = {c1}
  Stopper = {s1}
  Applier = {p1}
  Catalog = {m1}
  Isolated = {i1}
  Unresponsive = {r1}
  MaxRounds = 2
INVARIANTS OneWriter RequestsEndInOrder
PROPERTY RotationEnds
