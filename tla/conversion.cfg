SPECIFICATION Spec
CONSTANTS
    MaxAttachments = 4
INVARIANTS
    TypeOK
    OnePartEach
    NoticeWhereLost
CHECK_DEADLOCK FALSE
