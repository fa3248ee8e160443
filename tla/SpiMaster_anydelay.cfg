SPECIFICATION FairSpecAny
CONSTANTS
    CLK_DIV = 2
    cpol = 0
    cpha = 0
    WORD = 2
    Delays = {0, 5}
    TxWords <- MCTxWord
    SlaveWords <- MCSlaveWord
    SLAVE_SAMPLE = "trailing"
INVARIANTS
    SclkRests
PROPERTIES
    FrameWhole
    Completes
