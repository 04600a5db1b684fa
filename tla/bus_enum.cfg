SPECIFICATION FairSpec
CONSTANTS
    Node = {n1, n2}
    Identities <- TwoSet
    NodeNumbers = {1, 2}
    SettableIds = {1}
    ForeignIds = {1}
    Acts = {"ENUM", "CANID", "event", "reboot"}
    Endless = {}
    MAX_STIMULI = 2
    NUM_MESSAGES = 2
    RX_SIZE = 5
    ENUM_TIME = 1
    MODE_TIME = 1
    PROMPT = TRUE
PROPERTIES
    EnumerationAvoidsOthers
    EnumerationEnds
