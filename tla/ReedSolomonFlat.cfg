CONSTANTS
    SYMBOL_SIZE = 4
    MOD_POLY = 19
    DATA_SYMBOLS = 9
    ErrorValues = {1, 14}
    MaxErrors = 3
SPECIFICATION Spec
INVARIANT MathPasses
INVARIANT SyndromesDetect
INVARIANT ErrorsCorrected
CHECK_DEADLOCK FALSE
