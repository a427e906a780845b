CONSTANTS
  m1 = m1  m2 = m2  m3 = m3  x = x  y = y
  Ident = {"active"}
  Supported <- OneColumn
  StringAttr = {}
  Literal = {"true"}
  StringLiteral = {}
  CompareOp = {"eq"}
  PatternOp = {"co"}
  MaxTokens = 11
  Member = {m1, m2, m3}
  PropValue = {x}
  MaxValue = 2
  Keep = Keep
  Absent = Absent
SPECIFICATION Spec
CHECK_DEADLOCK FALSE
INVARIANTS SqlMeansFilter PatchIsChange
