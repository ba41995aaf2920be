SPECIFICATION Spec
CONSTANTS
    Conn = {c1, c2, c3, c4}
    NoConn = NoConn
    Reader = {r1, r2}
    Advices = {"retry", "handshake", "none"}
    Offers = {{"websocket", "long-polling"}, {"long-polling"}, {"websocket"}, {}}
    Retries = 2
    MaxFaults = 3
    MaxPending = 1
    MaxHold = 1
SYMMETRY Symmetry
INVARIANTS
    TypeOK
    ConnectedIsListening
    ReaderExclusive
    PanicIsProvoked
PROPERTIES
    TransportStableUnderAdvice
    OnlyOwnConnClosed
CHECK_DEADLOCK FALSE
