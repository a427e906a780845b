SPECIFICATION Spec
CONSTANTS
  Key = {k1, k2}
  Request = {r1, r2}
  Writer = {}
  Elem = {e1, e2, e3}
  Capacity = 2
  TTL = 1
  MaxResolve = 0
  None = None
SYMMETRY Symmetry
INVARIANTS CacheCoherent CapacityRespected
