\* A monitor that could not be created, after a restart of the frontend.
SPECIFICATION Spec
CONSTANTS
    s1 = s1
    s2 = s2
    s3 = s3
    h1 = h1
    h2 = h2
    Session <- TwoSessions
    Handle <- TwoHandles
    NoSession = NoSession
    NoHandle = NoHandle
    MaxFrontendRestarts = 1

INVARIANTS
    FailedIsNotActive
CHECK_DEADLOCK FALSE
