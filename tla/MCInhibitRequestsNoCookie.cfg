\* The comment of handle_close_gnome against the code: one request whose
\* Inhibit call the daemon refuses after the Close.
SPECIFICATION Spec
CONSTANTS
    r1 = r1
    r2 = r2
    r3 = r3
    Request <- TwoRequests
    Cookie <- TwoCookies
    h1 = h1
    h2 = h2
    handle <- TwoHandles
    MaxRestarts = 0
    MaxFrontendRestarts = 0
INVARIANTS
    UninhibitHasCookie
CHECK_DEADLOCK FALSE
