CONSTANTS
    MaxImages = 3
    MaxClicks = 2
SPECIFICATION Spec



CHECK_DEADLOCK FALSE
INVARIANT PreviewIndexInRange
