SPECIFICATION Spec
CONSTANTS
  p1 = p1
  p2 = p2
  a = a
  b = b
  c = c
  web = web
  web2 = web2
  loc = loc
  odd = odd
  None = None
  Cut = Cut
  Procs = {p1, p2}
  Paths = {a, b}
  Urls = {web}
  Vers = {1, 2}
  Faults = {"net", "delete", "tmp"}
  RunsNinja = TRUE
  MaxRuns = 3
  MaxKills = 0
  Manifests <- SharedUrl
  Pins <- NoPins
  Scheme <- MCScheme
  LineSize = 8
SYMMETRY Perms
INVARIANTS InstalledMatchesPin
CHECK_DEADLOCK FALSE
