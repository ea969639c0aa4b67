\* Two calls with or without preview, the files changing under them.
SPECIFICATION FairSpec
CONSTANTS
    r1 = r1
    r2 = r2
    i1 = i1
    i2 = i2
    Request <- TwoRequests
    Image <- TwoImages
    NoImage = NoImage
    Nobody = Nobody
INVARIANTS
    TypeOK
    NoUseAfterFree
    OnlyAccepted
    SuccessIsSet
PROPERTIES
    KeepsPromise
    ClosedIsReplied
CHECK_DEADLOCK FALSE
