SPECIFICATION Spec
CONSTANTS
  nS = nS
  n1 = n1
  v1 = v1
  v2 = v2
  d1 = d1
  d2 = d2
  m1 = m1
  o0 = o0
  o1 = o1
  TypeId = {tS, t1}
  TypeName = {nS, n1}
  Entity = {e1, e2}
  ExternalId = {x1}
  Value = {v1}
  Document = {d1, d2}
  Valid <- MCValidOne
  RelationType = {m1}
  RelDocument = {o0, o1}
  Targets <- MCTargets
  Request = {r1, r2}
  SystemType = tS
  SystemName = nS
  SystemDoc = d1
  NoRelations = o0
  None = None
INVARIANTS BuiltinTypeKept
