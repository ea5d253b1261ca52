CONSTANTS
  Files = {"odd"}
  Content <- MCContent
  Unopenable = {}
  Late = {}
  Target <- MCTarget
  Chunk = 4
  SizeLimit = 8
  ThreadLimit = 1
  Context = 1
  SizeMod = 64
  SpawnMayFail = FALSE
  WalkMayThrow = FALSE
  NoFile = "no file"
SPECIFICATION FairSpec
PROPERTY Terminates
CHECK_DEADLOCK FALSE
