SPECIFICATION FairSpec
CONSTANTS
    CLK_DIV = 2
    cpol = 0
    cpha = 0
    WORD = 2
    Modules = {0, 1, 2}
    START_MASK = {0, 1}
    DELAY_VALUE = 2
    MaxResets = 2
    SYNC_DEPTH = 2
    RESET_REQ_WAIT_TIME = 1
    MIN_RST_ASSERTION_TIME = 3
    RESET_REQ_EARLY_DSRT_TIME = 1
INVARIANTS
    Lockstep
    WordsOfThisStart
PROPERTIES
    Prints
