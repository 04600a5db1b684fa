SPECIFICATION Spec
CONSTANTS
    EepromTypes = {"EEPROM_USES_FLASH"}
    FLASH_PAGE_SIZE = 8
    NUM_FLASH_PAGES = 3
    EE_NVS_START = 10
    EE_NUM_NVS = 1
    EE_EVENTS_START = 13
    EE_MAX_EVENTS = 1
    EE_NUM_EVS = 1
    NodeNumbers = {1, 256}
    CANIDs = {1}
    Values = {7}
    Events <- MCEvents
PROPERTIES
    ImplementsMemory
