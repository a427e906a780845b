SPECIFICATION Spec
CONSTANTS
  s1 = s1
  s2 = s2
  y1 = y1
  y2 = y2
  y3 = y3
  None = None
  System = {y1, y2}
  Sub = {s1}
  SubSystem <- OneSystem
  Event <- TwoEvents
  EventSystem <- LastUnscoped
  Dispatcher = {d1, d2}
  EnqueueLimit = 1
  DispatchLimit = 1
  MaxRetries = 2
  MaxFaults = 0
INVARIANT OneRowPerPair
