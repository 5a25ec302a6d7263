SPECIFICATION FileFairSpec
CONSTANTS
  Total = 5
  Needs = {0, 1, 3, 6}
  Chunk = 2
  FileFaults = {"read", "alloc"}
PROPERTIES ImplementsStream ReadReturns
