SPECIFICATION Spec
CONSTANTS
  Block = 3
  Archives <- PlainOnly
  Dirs = {"to", "lib"}
  DataTypes = {"other"}
  FaultSets = {{"cut"}}
  Letters = {"a"}
  MaxName = 2
  Null = Null
INVARIANT EarlyCloseIsError
CHECK_DEADLOCK FALSE
