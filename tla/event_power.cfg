SPECIFICATION Spec
CONSTANTS
    EE_MAX_EVENTS = 2
    EE_NUM_EVS = 1
    Byte <- TheBytes
    makeHash <- TheHash
    Events <- FewEvents
    EVIndices = {0, 1}
    EVValues = {1}
INVARIANTS
    HashMirror
    LookupExact
PROPERTIES
    OthersSurvive
