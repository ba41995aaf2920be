SPECIFICATION Spec
CONSTANTS
    Member = {a, b}
    Loop = {l1}
    NamesUser = {FALSE}
    MaxChanges = 2
    MaxLost = 0
    MaxOther = 1
INVARIANTS
    AddedAreIn
CHECK_DEADLOCK FALSE
