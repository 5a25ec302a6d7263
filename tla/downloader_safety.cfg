SPECIFICATION FairSpec
CONSTANTS
  p1 = p1
  p2 = p2
  a = a
  b = b
  c = c
  web = web
  web2 = web2
  loc = loc
  odd = odd
  None = None
  Cut = Cut
  Procs = {p1, p2}
  Paths = {a, b}
  Urls = {web, loc, odd}
  Vers = {1, 2}
  Faults = {"net", "rename", "map", "hang"}
  RunsNinja = TRUE
  MaxRuns = 2
  MaxKills = 1
  Manifests <- AllKinds
  Pins <- AllPins
  Scheme <- MCScheme
  LineSize = 8
INVARIANTS SkippedIsInstalled NinjaSeesAll TextIsMap
PROPERTY EveryRunEnds
CHECK_DEADLOCK FALSE
