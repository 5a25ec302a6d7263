SPECIFICATION FairSpec
CONSTANTS
  Total = 4
  Encoded = 3
  Yields <- MCYields
  Needs = {0, 1, 3, 5}
  Chunk = 2
  Held = 2
  FaultSets = {{}, {"read", "cut"}, {"data", "alloc"}}
INVARIANTS IntactNeverFails
PROPERTIES ImplementsStream ReadReturns
