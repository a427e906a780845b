SPECIFICATION SpecOneInstance
CONSTANTS
  Key = {k1}
  Request = {r1, r2}
  Writer = {w1}
  Elem = {e1, e2}
  Capacity = 2
  TTL = 2
  MaxResolve = 1
  None = None
INVARIANT StoreIsIdempotent
