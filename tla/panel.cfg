SPECIFICATION FairSpec
CONSTANTS
    VERY_SHORT = 1
    SHORT_MIN = 2
    SHORT_MAX = 3
    SW_TR_HOLD = 4
    BLINK_RATE = 2
    MODE_TIME = 5
INVARIANTS
    TypeOK
    YellowShowsMode
PROPERTIES
    ReleaseKeepsPromise
    YellowBlinks
