SPECIFICATION FairClientSpec
CONSTANTS
    Conn = {c1, c2}
    NoConn = NoConn
    Reader = {r1}
    Advices = {"retry"}
    Offers = {{"websocket", "long-polling"}}
    Retries = 3
    MaxFaults = 1
    MaxPending = 1
    MaxHold = 0
    Sub = {s1}
    Slot = {1, 2}
PROPERTIES
    PollingRestarts
CHECK_DEADLOCK FALSE
