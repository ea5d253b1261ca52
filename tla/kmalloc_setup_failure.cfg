CONSTANTS
  Page = 32
  Overhead = 4
  NBUCKETS = 6
  Top = 4
  Amt <- MCAmt
  SrchLen = 2
  HeapLimit = 188
  SetupMayFail = TRUE
  Bases = {40}
  Requests = {}
  Counts = {}
  ForeignMoves = {}
  MaxPointers = 4
  Clients <- OnlyUnlucky
SPECIFICATION MCSpec
INVARIANT RoomForRequest
CHECK_DEADLOCK FALSE
