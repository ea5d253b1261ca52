CONSTANTS
    Thread = {1, 2, 3}
    Word = 8
    Addr = {1, 2}
    Residue = {0, 5}
    Programs <- Litmus
    Ptr = 1
    Rounds = 4
SPECIFICATION MCSpec
INVARIANTS TypeOK OutcomeInOrder PrintsZero NoUseAfterFree
PROPERTY ImplementsWords
CHECK_DEADLOCK FALSE
