CONSTANTS
    MaxImages = 3
    MaxClicks = 2
SPECIFICATION Spec
INVARIANT TypeOK
INVARIANT PreviewShowsImage
INVARIANT ViewContentOnce
CHECK_DEADLOCK FALSE
