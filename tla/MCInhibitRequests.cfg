\* Every interleaving of three requests over two cookies, with one restart of
\* the daemon and one of the frontend, under the fairness of FairSpec; no
\* symmetry, for the liveness.
SPECIFICATION FairSpec
CONSTANTS
    r1 = r1
    r2 = r2
    r3 = r3
    Request <- ThreeRequests
    Cookie <- TwoCookies
    h1 = h1
    h2 = h2
    handle <- TwoHandles
    MaxRestarts = 1
    MaxFrontendRestarts = 1
INVARIANTS
    TypeOK
    AtMostOneUninhibit
    NoOrphanInhibitor
    OpenStaysInhibited
    NoForeignRelease
    OpenIsReachable
PROPERTIES
    ImplementsInhibition
    ClosedIsReleased
CHECK_DEADLOCK FALSE
