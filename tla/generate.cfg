SPECIFICATION Spec
CONSTANTS
  Tomls <- MCTomls
  Tree <- MCTree
  Kind <- MCKind
  FaultSets <- MCFaultSets
  MaxRuns = 3
INVARIANT SolutionResolves
INVARIANT RunIsComplete
INVARIANT ItemsResolve
