CONSTANTS
  Page = 32
  Overhead = 4
  NBUCKETS = 6
  Top = 4
  Amt <- MCAmt
  SrchLen = 4
  HeapLimit = 124
  SetupMayFail = FALSE
  Bases = {60}
  Requests = {0, 3, 9, 40}
  Counts = {1}
  ForeignMoves = {8}
  MaxPointers = 3
SPECIFICATION RsSpec
INVARIANTS BlocksDisjoint HeadersTrue FreeListsExact RsRoomForRequest KreallocCopies
PROPERTY KeepsPromise
CHECK_DEADLOCK FALSE
