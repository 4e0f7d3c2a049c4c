SPECIFICATION FairSpec
CONSTANTS
  u1 = u1
  u2 = u2
  s1 = s1
  s2 = s2
  i1 = i1
  i2 = i2
  n1 = n1
  n2 = n2
  Users = {u1}
  Services = {s1, s2}
  Inbounds = {i1, i2}
  Nodes = {n1, n2}
  NodeOf <- MCNodeOf
  Loose = {}
  MaxTraffic = 1
  MaxKey = 1
INVARIANTS TypeOK ActiveIsActivated Agreement RemovedIsGone
PROPERTY InactiveLeaves
