SPECIFICATION Spec
CONSTANTS
  System = {s1}
  n1 = n1
  n2 = n2
  k1 = k1
  k2 = k2
  v1 = v1
  v2 = v2
  d1 = d1
  d2 = d2
  e1 = e1
  t1 = t1
  Name = {n1}
  Key = {k1, k2}
  Prefixed <- MCPrefixedOne
  Value = {v1, v2}
  Document = {d1, d2}
  KeysIn <- MCKeysInOne
  Valid <- MCValidOne
  Entity = {e1}
  Type = {t1}
  TypeOf <- MCTypeOf
  Schema = {x1, x2}
  Request = {r1, r2}
  None = None
SYMMETRY Symmetry
INVARIANTS
  SchemaKept
  IInv
PROPERTIES
  DeactivationHolds
  OverlaysWrittenByOwner
