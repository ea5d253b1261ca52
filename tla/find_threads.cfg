CONSTANTS
  Files = {"big", "large", "small", "sealed"}
  Content <- MCContent
  Unopenable = {"sealed"}
  Late = {"large"}
  Target <- MCTarget
  Chunk = 4
  SizeLimit = 8
  ThreadLimit = 2
  Context = 1
  SizeMod = 64
  SpawnMayFail = TRUE
  WalkMayThrow = TRUE
  NoFile = "no file"
SPECIFICATION FairSpec
INVARIANTS TypeOK StreamOutlivesThreads ContextFromFile
PROPERTIES ImplementsSearch LinesTogether Terminates
CHECK_DEADLOCK FALSE
