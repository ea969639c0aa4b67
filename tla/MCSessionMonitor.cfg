\* Three monitors on two handles, one restart of the frontend, signals without
\* end, under the fairness of FairSpec; no symmetry, for the liveness.
SPECIFICATION FairSpec
CONSTANTS
    s1 = s1
    s2 = s2
    s3 = s3
    h1 = h1
    h2 = h2
    Session <- ThreeSessions
    Handle <- TwoHandles
    NoSession = NoSession
    NoHandle = NoHandle
    MaxFrontendRestarts = 1
INVARIANTS
    TypeOK
    AnswersOnce
    NoEarlyAnswer
    NoNeedlessWait
    MonitorsCurrent
    LookupSound
PROPERTIES
    ImplementsEndSessionQuery
    QueryAnswered
CHECK_DEADLOCK FALSE
