CONSTANTS
    meta_frame_len = 6
    lane_bits = 20
    WordsWanted = 46
    LockTime = 31
    Nybbles = 16
    AlignWords = 4
    Gaps = {2, 3}
SPECIFICATION Spec
INVARIANT LockNotLate
CHECK_DEADLOCK FALSE
