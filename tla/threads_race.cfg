CONSTANTS
  Page = 32
  Overhead = 4
  NBUCKETS = 6
  Top = 4
  Amt <- MCAmt
  SrchLen = 4
  HeapLimit = 190
  SetupMayFail = FALSE
  Thread = {1, 2}
  SizesOf <- Same
  Base = 60
  MaxHeld = 3
SPECIFICATION Spec
INVARIANT HandedOutOnce
CHECK_DEADLOCK FALSE
