CONSTANTS
    RAM_ADDR_WIDTH = 2
    SYNC_STAGES = 3
    RequestInReset = FALSE
    MaxWords = 9
SPECIFICATION Spec
PROPERTIES RefinesQueue RefinesProtocol FlagsMove
