CONSTANTS
  Page = 32
  Overhead = 4
  NBUCKETS = 6
  Top = 4
  Amt <- MCAmt
  SrchLen = 4
  HeapLimit = 190
  SetupMayFail = TRUE
  Thread = {1, 2}
  SizesOf <- Different
  Base = 52
  MaxHeld = 3
SPECIFICATION Spec
INVARIANTS HandedOutOnce CutApart NothingLost NeverCrashes
CHECK_DEADLOCK FALSE
