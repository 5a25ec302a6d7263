SPECIFICATION HashSpec
CONSTANTS
  a = a
  b = b
  c = c
  ftp = ftp
  here = here
  there = there
  None = None
  Urls = {a, b, c, ftp}
  Sites = {here, there}
  First = a
  Site <- MCSite
  Web <- Loops
  Size = 5
  Needs = {0, 1, 3, 6}
  Chunk = 2
  MaxLine = 3
  MaxRedirects = 5
  Max64 = 40
  Width = 64
  ReqSize = 3
  FaultSets = {{"connect", "send"}, {"hangup", "alloc"}}
INVARIANTS TypeOK InStep HashIsOfFile EndIsWhole
PROPERTIES RedirectsEnd ImplementsStream ReadReturns
CHECK_DEADLOCK FALSE
