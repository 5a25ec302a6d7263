SPECIFICATION FairSpec
CONSTANTS
  Block = 3
  Archives <- MCArchives
  Dirs = {"to", "lib"}
  DataTypes = {"reg", "link", "other"}
  FaultSets = {{"cut", "io"}, {"read"}}
  Letters = {"a"}
  MaxName = 3
  Null = Null
INVARIANTS ConsumesWhatItSaw BytesBelong WholeArchiveUnpacks RefusedNameStops LandsInside
PROPERTY Terminates
CHECK_DEADLOCK FALSE
