------------------------------- MODULE Logins -------------------------------
(***************************************************************************)
(* Two logins in one bridge. Each has a FayeClient, a supervisor, readers   *)
(* and advice of its own; but registeredTransports (pkg/faye/faye.go) holds *)
(* one WebsocketTransport for the process, which the init function of       *)
(* pkg/groupmerealtime/real_time.go registers, and selectTransport hands it *)
(* to both. So both have wsConn: whoever dials last sets it for the other,  *)
(* and first closes the connection the other may be reading.                *)
(***************************************************************************)
EXTENDS FayeSession

VARIABLES
    stateB, transportB, mutexB, supB, triesB, offerB, readerB, readingB,
    pendingB, holdoffB, faultsB,
    provokedB                         \* the other login's; panicked is the process's

\* What one login does not share with the other.
private  == <<state, transport, mutex, supVars, readerVars, pending, holdoff, faults,
              provoked>>
privateB == <<stateB, transportB, mutexB, supB, triesB, offerB, readerB, readingB,
              pendingB, holdoffB, faultsB, provokedB>>
loginsVars == <<wsConn, open, panicked, private, privateB>>

B == INSTANCE FayeSession WITH
        state <- stateB, transport <- transportB, mutex <- mutexB, sup <- supB,
        tries <- triesB, offer <- offerB, reader <- readerB,
        reading <- readingB, pending <- pendingB, holdoff <- holdoffB,
        faults <- faultsB, provoked <- provokedB

LoginsInit == Init /\ B!Init

\* A dial returns a connection nobody uses, the other login included.
Unused(c, itsReading) == \A r \in Reader : itsReading[r] # c

Step ==
    /\ Next /\ UNCHANGED privateB
    /\ \A c \in open' \ open : Unused(c, readingB)

StepB ==
    /\ B!Next /\ UNCHANGED private
    /\ \A c \in open' \ open : Unused(c, reading)

\* A panic ends both.
LoginsNext == ~panicked /\ (Step \/ StepB)

LoginsSpec == LoginsInit /\ [][LoginsNext]_loginsVars

-----------------------------------------------------------------------------
\* Whatever the other login does to the connection they share (closing it, line 25
\* of websocket_transport.go, or dialling another in its place), a login never looks
\* connected with no reader of its own alive, and its own readers and handshakes
\* still exclude one another until its server advises a new handshake. Stated of one
\* of the two logins, which are alike.
KeepsItsOwn == SomebodyListens /\ ReaderExclusive
=============================================================================
