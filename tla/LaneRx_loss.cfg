CONSTANTS
    Window = 4
    Limit = 2
    META_FRAME_LEN = 4
    MinGap = 1
SPECIFICATION Spec
PROPERTY LossJustified
