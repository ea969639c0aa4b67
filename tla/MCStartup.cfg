\* Three instances, in Cinnamon, with and without --replace;
\* one crash; the Screenshot portal may fail to start.
SPECIFICATION FairSpec
CONSTANTS
    Instances = {p1, p2, p3}
    Calls = {c1}
    NoOne = NoOne
    MaxCrashes = 1
    Modes = {"cinnamon"}
    Asked = {"Screenshot", "Wallpaper"}
    Fallible = {"Screenshot"}
INVARIANTS
    TypeOK
    OwnerServes
    NoCallLost
PROPERTIES
    NameKept
    NoneLingers
CHECK_DEADLOCK FALSE
