SPECIFICATION HashSpec
CONSTANTS
  a = a
  b = b
  c = c
  ftp = ftp
  here = here
  there = there
  None = None
  Urls = {a, b, c, ftp}
  Sites = {here, there}
  First = a
  Site <- MCSite
  Web <- WithPage
  Size = 2
  Needs = {1}
  Chunk = 3
  MaxLine = 3
  MaxRedirects = 5
  Max64 = 40
  Width = 64
  ReqSize = 2
  FaultSets = {{}}
INVARIANT InStep
CHECK_DEADLOCK FALSE
