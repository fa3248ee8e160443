SPECIFICATION FairSpec
CONSTANTS
    SYNC_DEPTH = 2
    RESET_REQ_WAIT_TIME = 1
    MIN_RST_ASSERTION_TIME = 3
    RESET_REQ_EARLY_DSRT_TIME = 1
PROPERTIES
    ResetSequence
    EveryPulseResets
    LeavesReset
