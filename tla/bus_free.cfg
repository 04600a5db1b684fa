SPECIFICATION Spec
CONSTANTS
    Node = {n1, n2}
    Identities <- TwoSet
    NodeNumbers = {1, 2}
    SettableIds = {1}
    ForeignIds = {1}
    Acts = {"button"}
    Endless = {}
    MAX_STIMULI = 2
    NUM_MESSAGES = 3
    RX_SIZE = 4
    ENUM_TIME = 1
    MODE_TIME = 2
    PROMPT = TRUE
PROPERTY FreeIdAllocated
