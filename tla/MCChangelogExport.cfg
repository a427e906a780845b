CONSTANTS
  s1 = s1  s2 = s2  a = a  b = b  w1 = w1  w2 = w2
  Entity = {1, 2}
  System = {s1, s2}
  Value = {a}
  Home <- Homes
  Caller = s1
  Writer = {w1, w2}
  Limit = 1
  MaxTime = 3
  MaxWrites = 3
  None = None
SPECIFICATION Spec
CONSTRAINT Bounded
SYMMETRY Symmetric
INVARIANT IteratingYieldsAll
