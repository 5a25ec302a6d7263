SPECIFICATION FairSpec
CONSTANTS
  a = a
  b = b
  c = c
  EndSize = 3
  LocatorSize = 2
  HeaderSize = 3
  LocalSize = 2
  ExtraSize = 2
  WordSize = 2
  Near = 7
  Far = 12
  Big = 999
  Archives <- MCArchives
  FaultSets = {{}, {"io", "data"}}
INVARIANTS TypeOK FilesAreEntries SuccessIsComplete ValidUnpacks
PROPERTY Terminates
CHECK_DEADLOCK FALSE
