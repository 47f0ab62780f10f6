CONSTANTS
    StrobeInReset = FALSE
    MaxOwed = 3
SPECIFICATION Spec
INVARIANT OneStrobePerEvent
