SPECIFICATION FairSpec
CONSTANTS
    WORD = 2
    CONV = 3
    SLOW = 2
    Delays = {2, 10, 11, 12}
    HALF = 5
    GAP = 13
INVARIANTS
    FreshWord
    NeverHalts
    NoJam
PROPERTIES
    Rearmed
