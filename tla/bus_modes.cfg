SPECIFICATION FairSpec
CONSTANTS
    Node = {n1}
    Identities <- FreshOrSet
    NodeNumbers = {1, 2}
    SettableIds = {0, 2}
    ForeignIds = {1}
    Acts = {"SNN", "CANID", "ENUM", "QUERY", "RQNP", "QNN", "EXT", "RTR", "EMPTY", "DATA", "button", "event"}
    Endless = {"RTR"}
    MAX_STIMULI = 4
    NUM_MESSAGES = 1
    RX_SIZE = 2
    ENUM_TIME = 1
    MODE_TIME = 2
    PROMPT = FALSE
INVARIANTS
    TypeOK
    LedShowsMode
    FLiMGetsId
PROPERTIES
    NodeNumberGuarded
    EnumerationStarts
    EnumerationEnds
    TransitionEnds
