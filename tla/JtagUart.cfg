SPECIFICATION FairSpec
CONSTANTS
    BUF_LEN = 3
    FIFO = 2
    WLEVEL = 1
    RLEVEL = 0
    INT_MAX = 4
    DEFAULT = 2
    Setups <- MCSetups
    Timeouts = {0}
    K = 6
INVARIANTS
    CopiesFit
    TxArmed
    RxArmed
PROPERTIES
    WritesArrive
    ReadsArrive
    CallsReturn
