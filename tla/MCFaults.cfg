CONSTANTS
    NUM_WORDS = 2
    PORT_B_ERROR_INJECT = {3}
    Words = {{0, 1, 2, 3, 4, 5, 6, 7}, {2, 5}}
    UpsetBits = {0, 2, 12}
    MaxEvents = 3
    Window = 4
    Limit = 2
    META_FRAME_LEN = 4
    MinGap = 1
SPECIFICATION AllSpec
INVARIANTS
    SingleFixed
    MoreSeen
    ReadBack
    DeafLockLeft
    InStep
PROPERTIES
    LocksEarned
    LossesJustified
    Settles
