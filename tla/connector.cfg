SPECIFICATION FairSpec
CONSTANTS
    Client = {c1, c2}
    NoClient = NoClient
    Msg = {m1}
    MaxConnects = 2
    MaxLosses = 1
INVARIANTS
    TypeOK
    OneEventEach
    SenderKnown
    ForwardersServed
    WatchedIsSubscribed
PROPERTIES
    ConnectEnds
CHECK_DEADLOCK FALSE
