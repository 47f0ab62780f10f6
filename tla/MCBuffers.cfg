CONSTANTS
    Depth = 3
    SYNC_STAGES = 2
    MaxWords = 7
    Word = {0, 1}
    Zero = 0
    DEPTH = 4
    INIT_CNT = 0
    StrobeInReset = FALSE
    MaxOwed = 6
SPECIFICATION AllSpec
CONSTRAINT FewWords
INVARIANTS Inv TxReady LossIffOverflow NoEventLost SameView
PROPERTIES RefinesQueue QueuesKept Served
