SPECIFICATION Spec
CONSTANTS
    m1 = m1
    m2 = m2
    m3 = m3
    m4 = m4
    s1 = s1
    s2 = s2
    Msg = {m1, m2, m3, m4}
    NoMsg = NoMsg
    Sub = {s1, s2}
    Matches <- MCMatches
    Kind <- MCKind
    MaxFrame = 2
INVARIANTS
    TypeOK
    OnItsWay
    AtMostOneEvent
PROPERTIES
    Promise
CHECK_DEADLOCK FALSE
