\* Three changes, two restarts of Cinnamon or the portal, two autostart entries.
SPECIFICATION FairSpec
CONSTANTS
    Entry = {e1, e2}
    NoEntry = NoEntry
    NoRequest = NoRequest
    MaxChanges = 3
    MaxRestarts = 2
    MaxMessages = 2
INVARIANTS
    TypeOK
    ViewCurrent
    AutostartTold
PROPERTIES
    ViewSettles
