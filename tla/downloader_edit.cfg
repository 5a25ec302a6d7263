SPECIFICATION EditSpec
CONSTANTS
  p1 = p1
  p2 = p2
  a = a
  b = b
  c = c
  web = web
  web2 = web2
  loc = loc
  odd = odd
  None = None
  Cut = Cut
  Procs = {p1}
  Paths = {a}
  Urls = {web, web2}
  Vers = {1, 2}
  Faults = {}
  RunsNinja = TRUE
  MaxRuns = 3
  MaxKills = 0
  Manifests <- Versions
  Pins <- AllPins
  Scheme <- MCScheme
  LineSize = 8
INVARIANTS NinjaSeesAll
CHECK_DEADLOCK FALSE
