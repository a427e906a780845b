CONSTANTS
  m1 = m1  m2 = m2  m3 = m3  x = x  y = y
  Ident = {"active", "emails", "value"}
  Supported <- Columns
  StringAttr <- StringColumns
  Literal = {"text", "true"}
  StringLiteral = {"text"}
  CompareOp = {"eq"}
  PatternOp = {"co"}
  MaxTokens = 8
  Member = {m1, m2}
  PropValue = {x}
  MaxValue = 2
  Keep = Keep
  Absent = Absent
SPECIFICATION Spec
CHECK_DEADLOCK FALSE
INVARIANTS SqlMeansFilter PatchIsChange
