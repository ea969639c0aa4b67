\* Two calls of either method, in both desktop modes, within two seconds.
SPECIFICATION FairSpec
CONSTANTS
    r1 = r1
    r2 = r2
    Request <- TwoRequests
    Nobody = Nobody
    MaxSecond = 1
INVARIANTS
    TypeOK
    NoUseAfterFree
PROPERTIES
    KeepsPromise
    ClosedIsReplied
CHECK_DEADLOCK FALSE
