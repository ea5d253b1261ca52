CONSTANTS
  Files = {"three"}
  Content <- MCContent
  Unopenable = {}
  Late = {}
  Target <- MCTarget
  Chunk = 4
  SizeLimit = 8
  ThreadLimit = 1
  Context = 2
  SizeMod = 64
  SpawnMayFail = FALSE
  WalkMayThrow = FALSE
  NoFile = "no file"
SPECIFICATION Spec
INVARIANT OutputAsDescribed
CHECK_DEADLOCK FALSE
