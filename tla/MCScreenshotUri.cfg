\* Two screenshots within one second.
SPECIFICATION Spec
CONSTANTS
    r1 = r1
    r2 = r2
    Request <- TwoRequests
    Nobody = Nobody
    MaxSecond = 0
INVARIANTS
    UriIsOwn
CHECK_DEADLOCK FALSE
