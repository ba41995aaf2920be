SPECIFICATION Spec
CONSTANTS
    Conn = {c1, c2}
    NoConn = NoConn
    Reader = {r1}
    Advices = {"retry"}
    Offers = {{"websocket"}}
    Retries = 2
    MaxFaults = 1
    MaxPending = 1
    MaxHold = 0
SYMMETRY Symmetry
PROPERTIES
    NoTransportIsAnError
CHECK_DEADLOCK FALSE
