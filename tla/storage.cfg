SPECIFICATION Spec
CONSTANTS
    EepromTypes = {"EEPROM_INTERNAL", "EEPROM_USES_FLASH"}
    FLASH_PAGE_SIZE = 8
    NUM_FLASH_PAGES = 2
    EE_NVS_START = 10
    EE_NUM_NVS = 1
    EE_EVENTS_START = 11
    EE_MAX_EVENTS = 1
    EE_NUM_EVS = 1
    NodeNumbers = {1, 256}
    CANIDs = {1}
    Values = {7}
    Events <- MCEvents
INVARIANTS
    TypeOK
    IdentityStored
PROPERTIES
    ImplementsMemory
    ResetFlagTruthful
    FLiMNeedsNumber
