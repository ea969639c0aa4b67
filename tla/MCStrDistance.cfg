\* All pairs of strings of three characters, up to three long.
SPECIFICATION Spec
CONSTANTS
    x = x
    y = y
    z = z
    Char <- ThreeChars
    MaxLength = 3
INVARIANTS
    TypeOK
    RowIsExact
    ZeroIsEqual
CHECK_DEADLOCK FALSE
