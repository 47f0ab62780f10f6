CONSTANTS
    DEPTH = 4
    Word = {0, 1}
    Zero = 0
SPECIFICATION Spec
INVARIANT ShowsTop
