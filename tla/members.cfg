SPECIFICATION FairSpec
CONSTANTS
    Member = {a, b}
    Loop = {l1}
    NamesUser = {TRUE, FALSE}
    MaxChanges = 4
    MaxLost = 1
    MaxOther = 1
INVARIANTS
    TypeOK
    NobodyMissing
    NobodyExtra
PROPERTIES
    GetsIn
CHECK_DEADLOCK FALSE
