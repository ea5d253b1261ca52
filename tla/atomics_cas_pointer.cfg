CONSTANTS
    Thread = {1, 2, 3}
    Word = 8
    Addr = {1, 2}
    Residue = {0, 5}
    Programs <- Pointers
    Ptr = 1
    Rounds = 4
SPECIFICATION LitmusSpec
INVARIANT OutcomeInOrder
CHECK_DEADLOCK FALSE
