SPECIFICATION Spec
CONSTANTS
  u1 = u1
  m1 = m1
  y1 = y1
  y2 = y2
  y3 = y3
  None = None
  Request = {r1, r2}
  Caller = {u1}
  Certificate = {}
  Admin = {}
  System = {y1, y2}
  Allowed <- BothAllowed
  Object = {o1, o2, o3}
  Conn = {c1, c2}
INVARIANTS AuditNamesSystem
