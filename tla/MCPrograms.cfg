CONSTANTS
    ChainCount = 2
    DeviceCount = 2
    NodeCount = 1
    required_bytes = 2
    ProbeBytes = {0, 48, 70, 103}
    Faults = 2
    Idles = 1
    MAX_DISPLACE = 2
    PERIOD = 8
    WordLimit = 16
SPECIFICATION AllSpec
INVARIANTS
    LocksReleased
    OnlyFoundOpen
    FirstWanted
    SlotLeft
    Displaced
    BackInOrder
PROPERTIES
    SampleGenuine
    Completes
