CONSTANTS
    SYMBOL_SIZE = 5
    MOD_POLY = 37
    DATA_SYMBOLS = 27
    NoisyWords = 2
    Clocks = 165
    Pause = 0
    GapClocks = 1
    NoisePlaces = {0, 13, 26, 30}
    NoiseValues = {1, 30}
    MaxErrors = 1
SPECIFICATION RsSpec
INVARIANT Repaired
CHECK_DEADLOCK FALSE
