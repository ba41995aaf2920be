SPECIFICATION LoginsSpec
CONSTANTS
    Conn = {c1, c2, c3, c4}
    NoConn = NoConn
    Reader = {r1}
    Advices = {"retry"}
    Offers = {{"websocket", "long-polling"}}
    Retries = 2
    MaxFaults = 1
    MaxPending = 1
    MaxHold = 0
INVARIANTS
    KeepsItsOwn
CHECK_DEADLOCK FALSE
