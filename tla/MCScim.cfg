CONSTANTS
  u1 = u1  u2 = u2  g1 = g1  gA = gA
  p1 = p1  p2 = p2  s1 = s1  s2 = s2
  r1 = r1  r2 = r2  w1 = w1  w2 = w2
  MaxMembers = 2
  MaxForeign = 1
  MaxChanged = 1
  User = {u1}
  Group = {g1, gA}
  Admin = gA
  Provider = {p1, p2}
  Subject = {s1, s2}
  BootKey <- Bootstrap
  Request = {r1}
  Process = {w1}
  None = None
SPECIFICATION Spec
CONSTRAINT Bounded
INVARIANTS MembersAccounted ActiveAccounted MembersOfProvider
PROPERTIES BootstrapGrantsAdmin BootstrapFailsOnlyByRace
