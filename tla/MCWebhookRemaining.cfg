SPECIFICATION FairSpec
CONSTANTS
  s1 = s1
  s2 = s2
  y1 = y1
  y2 = y2
  y3 = y3
  None = None
  System = {y1, y2}
  Sub = {s1, s2}
  SubSystem <- OneSystem
  Event <- FourEvents
  EventSystem <- AllScoped
  Dispatcher = {d1}
  EnqueueLimit = 2
  DispatchLimit = 2
  MaxRetries = 1
  MaxFaults = 0
PROPERTY RemainingPairsCreated
