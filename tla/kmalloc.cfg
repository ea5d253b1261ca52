CONSTANTS
  Page = 32
  Overhead = 4
  NBUCKETS = 6
  Top = 4
  Amt <- MCAmt
  SrchLen = 2
  HeapLimit = 188
  SetupMayFail = FALSE
  Bases = {60, 62}
  Requests = {}
  Counts = {}
  ForeignMoves = {}
  MaxPointers = 4
  Clients <- ListsAndEdges
SPECIFICATION MCSpec
INVARIANTS TypeOK BlocksDisjoint HeadersTrue FreeListsExact KreallocCopies IInv
  RoomForRequest TightFit StatsTrue
PROPERTIES FreedIsFirst AlignedAlone KeepsPromise
CHECK_DEADLOCK FALSE
