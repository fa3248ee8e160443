SPECIFICATION FairSpec
CONSTANTS
    CLK_DIV = 3
    cpol = 0
    cpha = 0
    WORD = 3
    Delays = {3, 5}
    TxWords <- MCTxWords3
    SlaveWords <- MCSlaveWords3
    SLAVE_SAMPLE = "leading"
INVARIANTS
    WordReceived
    WordDelivered
PROPERTIES
    SclkTiming
    ImplementsTransfer
