SPECIFICATION Spec
CONSTANTS
    Contact = {c1, c2, c3, c4}
    PageSize = 2
    MaxTime = 3
    MaxChanges = 2
INVARIANTS
    TypeOK
    FindsEveryone
PROPERTIES
    Ends
CHECK_DEADLOCK FALSE
