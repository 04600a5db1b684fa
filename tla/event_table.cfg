SPECIFICATION SpecPowered
CONSTANTS
    EE_MAX_EVENTS = 3
    EE_NUM_EVS = 2
    Byte <- TheBytes
    makeHash <- TheHash
    Events <- TheEvents
    EVIndices = {1, 2}
    EVValues = {1}
INVARIANTS
    TypeOK
    HashMirror
    CollisionExact
    LookupExact
    NoDuplicates
PROPERTIES
    ImplementsStore
