SPECIFICATION FairSpec
CONSTANTS
    Msg = {m1, m2, m3}
    Mine = {m1, m2}
    MaxCopies = 2
    MaxCrashes = 1
INVARIANTS
    TypeOK
    PostedAtMostOnce
    ShownOnce
PROPERTIES
    OnceInTheRoom
    EverythingEnds
CHECK_DEADLOCK FALSE
