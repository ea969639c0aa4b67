\* Two colours, one signal of each setting in the main loop, two messages.
SPECIFICATION Spec
CONSTANTS
    c1 = c1
    c2 = c2
    Color <- TwoColors
    NoColor = NoColor
    Unknown = Unknown
    MaxPending = 1
    MaxMessages = 2
SYMMETRY Symmetry
INVARIANTS
    TypeOK
    ViewCurrent
CHECK_DEADLOCK FALSE
