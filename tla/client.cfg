SPECIFICATION FairClientSpec
CONSTANTS
    Conn = {c1, c2}
    NoConn = NoConn
    Reader = {r1}
    Advices = {"retry"}
    Offers = {{"websocket", "long-polling"}, {"long-polling"}}
    Retries = 3
    MaxFaults = 2
    MaxPending = 1
    MaxHold = 0
    Sub = {s1}
    Slot = {1, 2}
INVARIANTS
    ClientTypeOK
    FlagHasItsPoller
    InOnePlace
    ListedIsCurrent
PROPERTIES
    Spec
    SubscriptionKept
    PollersStop
    Recovers
CHECK_DEADLOCK FALSE
