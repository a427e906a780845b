SPECIFICATION PollingSpec
CONSTANTS
  s1 = s1
  s2 = s2
  y1 = y1
  y2 = y2
  y3 = y3
  None = None
  System = {y1, y2, y3}
  Sub = {s1, s2}
  SubSystem <- TwoSystems
  Event <- ThreeEvents
  EventSystem <- EachItsOwn
  Dispatcher = {d1}
  EnqueueLimit = 2
  DispatchLimit = 1
  MaxRetries = 3
  MaxFaults = 2
INVARIANTS PostsAccounted OutcomeIsTrue RowsInScope OneRowPerPair IInv
PROPERTIES EveryEventEnqueued NoPostWhenDone ImplementsLifecycle
