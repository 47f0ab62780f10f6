CONSTANTS
    DEPTH = 4
    Word = {0, 1}
    Zero = 0
    INIT_CNT = 4
SPECIFICATION Spec
INVARIANT OperateIdentically
