CONSTANTS
    SYMBOL_SIZE = 5
    MOD_POLY = 37
    DATA_SYMBOLS = 27
    NoisyWords = 2
    Clocks = 165
    Pause = 6
    GapClocks = 1
    NoisePlaces = {0, 13, 26, 30}
    NoiseValues = {1, 30}
    MaxErrors = 1
    meta_frame_len = 6
    lane_bits = 20
    WordsWanted = 46
    LockTime = 31
    Nybbles = 16
    AlignWords = 4
    Gaps = {2, 3}
SPECIFICATION AllSpec
INVARIANTS
    SyndromeJudges
    SearchFindsDamage
    ScheduleFound
    BitsOnLine
    WordsWhole
    CleanLanesPass
    ErrorsAnswered
    Recovered
    BitsInOrder
PROPERTY Locks
