\* A monitor created while the screensaver is active.
SPECIFICATION Spec
CONSTANTS
    s1 = s1
    s2 = s2
    s3 = s3
    h1 = h1
    h2 = h2
    Session <- TwoSessions
    Handle <- TwoHandles
    NoSession = NoSession
    NoHandle = NoHandle
    MaxFrontendRestarts = 0

INVARIANTS
    ToldTheScreensaver
CHECK_DEADLOCK FALSE
