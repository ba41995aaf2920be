----------------------------- MODULE FayeSession -----------------------------
(***************************************************************************)
(* The connection half of the bridge's push client: pkg/faye/faye_client.go *)
(* with its two transports, and the supervisor that keeps it connected,     *)
(* PushSubscription.Setup and StayConnectedLoop of                          *)
(* pkg/groupmerealtime/real_time.go.                                        *)
(*                                                                          *)
(* Three kinds of goroutine share one FayeClient:                           *)
(*   - the supervisor (sup): Setup, then StayConnectedLoop; it alone runs   *)
(*     HandshakeAndConnect;                                                 *)
(*   - one reader per successful websocket connect: websocketReadPoll;      *)
(*   - one goroutine per advice the server sends: handleAdvice (pending     *)
(*     counts the ones that have not run).                                  *)
(* FayeClient.mutex is taken by handshake and handleAdvice only; the reader *)
(* reads transport and writes state without it.                             *)
(***************************************************************************)
EXTENDS Integers

CONSTANTS
    Conn,        \* websocket connections (a pool: a forgotten one is reused)
    NoConn,      \* the nil connection
    Reader,      \* websocketReadPoll goroutines that may live at once
    Advices,     \* the reconnect advice the server may send
    Offers,      \* the supportedConnectionTypes a handshake answer may list
    Retries,     \* attempts StayConnectedLoop makes before it gives up
    MaxFaults,   \* bound: losses, failed requests, frames that do not decode
    MaxPending,  \* bound: handleAdvice goroutines of one kind waiting to run
    MaxHold      \* bound: the longest holdoff an advice interval sets

AdviceKind == {"retry", "handshake", "none"}
TransportKind == {"long-polling", "websocket"}

ASSUME ConnAssumption == NoConn \notin Conn
ASSUME AdvicesAssumption == Advices \subseteq AdviceKind
ASSUME OffersAssumption == Offers \subseteq SUBSET TransportKind
ASSUME BoundAssumption ==
    /\ Retries \in Nat \ {0}
    /\ MaxFaults \in Nat /\ MaxPending \in Nat /\ MaxHold \in Nat

VARIABLES
    state,      \* FayeClient.state
    transport,  \* FayeClient.transport: which registered transport it holds
    wsConn,     \* WebsocketTransport.connection, set by the last good dial
    open,       \* the connections whose two ends are both up
    mutex,      \* who holds FayeClient.mutex
    sup,        \* where the supervisor is
    tries,      \* attempts it has left in this round
    offer,      \* response.SupportedConnectionTypes() of the handshake
    reader,     \* where each websocketReadPoll goroutine is
    reading,    \* the connection its transport.read() call copied
    pending,    \* handleAdvice goroutines spawned and not yet run, by advice
    holdoff,    \* nextHandshake - now, 0 once it has passed
    faults,     \* faults the environment has injected so far
    panicked,   \* a goroutine panicked: the process is gone
    provoked    \* history: what the server has done that the client cannot take

endVars    == <<panicked, provoked>>
netVars    == <<wsConn, open>>
supVars    == <<sup, tries, offer>>
readerVars == <<reader, reading>>
vars == <<state, transport, netVars, mutex, supVars, readerVars, pending,
          holdoff, faults, endVars>>

ClientState == {"UNCONNECTED", "CONNECTING", "CONNECTED", "DISCONNECTED"}
SupPc == {"begin", "entering", "sending", "selecting", "dialing", "returning",
          "connecting", "idle", "stopped"}
ReaderPc == {"off", "ready", "reading", "closing", "resetting"}

\* Advice to handshake has been followed; the last handshake was answered without
\* long-polling on offer; something was answered, or sent, that holds no message.
Provocation == {"handshake", "no long-polling", "no message"}

\* Every variable stays in its range: in particular a round never spends more
\* attempts than StayConnectedLoop grants and no bound is overrun.
TypeOK ==
    /\ state \in ClientState
    /\ transport \in TransportKind \cup {"nil"}
    /\ wsConn \in Conn \cup {NoConn}
    /\ open \subseteq Conn
    /\ mutex \in {"free", "sup", "advice"}
    /\ sup \in SupPc
    /\ tries \in 0..Retries
    /\ offer \in Offers \cup {{}}
    /\ reader \in [Reader -> ReaderPc]
    /\ reading \in [Reader -> Conn \cup {NoConn}]
    /\ pending \in [AdviceKind -> 0..MaxPending]
    /\ holdoff \in 0..MaxHold
    /\ faults \in 0..MaxFaults
    /\ panicked \in BOOLEAN /\ provoked \subseteq Provocation

\* NewFayeClient, and Setup about to make its single attempt.
Init ==
    /\ state = "UNCONNECTED" /\ transport = "nil"
    /\ wsConn = NoConn /\ open = {} /\ mutex = "free"
    /\ sup = "begin" /\ tries = 1 /\ offer = {}
    /\ reader = [r \in Reader |-> "off"]
    /\ reading = [r \in Reader |-> NoConn]
    /\ pending = [a \in AdviceKind |-> 0]
    /\ holdoff = 0 /\ faults = 0 /\ panicked = FALSE /\ provoked = {}

Alive(r) == reader[r] # "off"

\* go faye.handleAdvice(...). Advice without a reconnect field, "", takes the
\* mutex and does nothing, so its goroutine is left out.
Spawn(a) ==
    IF a = "" THEN UNCHANGED pending
    ELSE /\ pending[a] < MaxPending
         /\ pending' = [pending EXCEPT ![a] = @ + 1]

Fault == faults < MaxFaults /\ faults' = faults + 1

\* A panic in any goroutine ends the process: no goroutine runs on, every socket
\* is closed.
Die ==
    /\ panicked' = TRUE
    /\ sup' = "stopped" /\ tries' = 0 /\ offer' = {}
    /\ reader' = [r \in Reader |-> "off"]
    /\ reading' = [r \in Reader |-> NoConn]
    /\ pending' = [a \in AdviceKind |-> 0]
    /\ open' = {} /\ mutex' = "free"
    /\ UNCHANGED <<state, transport, wsConn, holdoff>>

\* decodeResponse returns msgs[0] without asking whether there is one: a frame or an
\* answer that is [] or null is a panic of whoever decodes it. One that has null in
\* the place of a message is a panic of whoever reads that message first.
NoMessage ==
    /\ Die
    /\ provoked' = provoked \cup {"no message"}
    /\ UNCHANGED faults

-----------------------------------------------------------------------------
(* The supervisor: HandshakeAndConnect, called by Setup once and by           *)
(* StayConnectedLoop up to Retries times in a row.                            *)

\* Mutant: the retry loop ends at its first failure.
TryFailedForGood == tries' = tries - 1 /\ sup' = "stopped" /\ offer' = {}

\* HandshakeAndConnect returned an error: the next attempt, or, when there is
\* none left, Setup returns its error and StayConnectedLoop ends.
TryFailed ==
    /\ tries' = tries - 1
    /\ sup' = IF tries > 1 THEN "begin" ELSE "stopped"
    /\ offer' = {}

\* handshake refuses: the server said not to reconnect.
HsRefused ==
    /\ sup = "begin" /\ state = "DISCONNECTED"
    /\ TryFailed
    /\ UNCHANGED <<state, transport, netVars, mutex, readerVars, pending,
                   holdoff, faults, endVars>>

\* sleepFor := time.Now().Unix() - faye.nextHandshake
SleepFor == 0 - holdoff

\* Mutant: DISCONNECTED is not checked.
HsCheckAlways ==
    /\ sup = "begin"
    /\ sup' = "entering"
    /\ UNCHANGED <<state, transport, netVars, mutex, tries, offer, readerVars,
                   pending, holdoff, faults, endVars>>

HsCheck ==
    /\ sup = "begin" /\ state # "DISCONNECTED"
    /\ ~(holdoff > 0 /\ SleepFor > 0)
    /\ sup' = "entering"
    /\ UNCHANGED <<state, transport, netVars, mutex, tries, offer, readerVars,
                   pending, holdoff, faults, endVars>>

\* Mutant: the transport is swapped without the mutex.
HsStartUnlocked ==
    /\ sup = "entering"
    /\ transport' = "long-polling" /\ state' = "CONNECTING"
    /\ sup' = "sending"
    /\ UNCHANGED <<netVars, mutex, tries, offer, readerVars, pending, holdoff,
                   faults, endVars>>

\* Under the mutex: every handshake starts on the mandatory HTTP transport.
HsStart ==
    /\ sup = "entering" /\ mutex = "free"
    /\ transport' = "long-polling" /\ state' = "CONNECTING"
    /\ sup' = "sending"
    /\ UNCHANGED <<netVars, mutex, tries, offer, readerVars, pending, holdoff,
                   faults, endVars>>

\* The handshake request failed; it is sent again after 10 seconds, for ever.
HsSendErr ==
    /\ sup = "sending" /\ mutex = "free"
    /\ state' = "UNCONNECTED"
    /\ UNCHANGED <<transport, netVars, mutex, supVars, readerVars, pending,
                   holdoff, faults, endVars>>

\* The answer, whether or not it says successful: CONNECTED at once, and the mutex
\* kept while a transport is chosen.
HsAnswer(o) ==
    /\ sup = "sending" /\ mutex = "free"
    /\ mutex' = "sup" /\ state' = "CONNECTED"
    /\ offer' = o /\ sup' = "selecting"
    /\ provoked' = (provoked \ {"no long-polling"})
                     \cup (IF "long-polling" \in o THEN {} ELSE {"no long-polling"})
    /\ UNCHANGED <<transport, netVars, tries, readerVars, pending, holdoff,
                   faults, panicked>>

HsNoMessage == sup = "sending" /\ NoMessage

\* WebsocketTransport.isUsable first closes the connection it holds.
HsCloseOld ==
    /\ sup = "selecting" /\ "websocket" \in offer
    /\ open' = open \ {wsConn}
    /\ sup' = "dialing"
    /\ UNCHANGED <<state, transport, wsConn, mutex, tries, offer, readerVars,
                   pending, holdoff, faults, endVars>>

\* The dial succeeded: c is a connection nobody holds.
HsDialOk(c) ==
    /\ sup = "dialing"
    /\ c \notin open \cup {wsConn} /\ \A r \in Reader : reading[r] # c
    /\ open' = open \cup {c} /\ wsConn' = c
    /\ transport' = "websocket" /\ mutex' = "free"
    /\ sup' = "returning"
    /\ UNCHANGED <<state, tries, offer, readerVars, pending, holdoff, faults,
                   endVars>>

\* No websocket: long-polling if the server offers it; else selectTransport
\* returns a nil Transport and setTimeoutSeconds is called on it.
FallBack ==
    \/ /\ "long-polling" \in offer
       /\ transport' = "long-polling" /\ mutex' = "free"
       /\ sup' = "returning"
       /\ UNCHANGED <<state, netVars, tries, offer, readerVars, pending, holdoff,
                      endVars>>
    \/ "long-polling" \notin offer /\ Die /\ UNCHANGED provoked

HsNoWs ==
    /\ sup = "selecting" /\ "websocket" \notin offer
    /\ FallBack /\ UNCHANGED faults

HsDialFail == sup = "dialing" /\ Fault /\ FallBack

\* handshake returns (ResubscribeAll, which may run here, has no part in this
\* module).
HsReturn ==
    /\ sup = "returning"
    /\ sup' = "connecting" /\ offer' = {}
    /\ UNCHANGED <<state, transport, netVars, mutex, tries, readerVars, pending,
                   holdoff, faults, endVars>>

\* connect() wrote its message, and go faye.websocketReadPoll().
ConnectWsOk(r) ==
    /\ sup = "connecting" /\ transport = "websocket" /\ wsConn \in open
    /\ reader[r] = "off"
    /\ reader' = [reader EXCEPT ![r] = "ready"]
    /\ sup' = "idle"
    /\ UNCHANGED <<state, transport, netVars, mutex, tries, offer, reading,
                   pending, holdoff, faults, endVars>>

\* The new connection is already gone: the attempt failed, state stays CONNECTED.
ConnectWsErr ==
    /\ sup = "connecting" /\ transport = "websocket" /\ wsConn \notin open
    /\ TryFailed
    /\ UNCHANGED <<state, transport, netVars, mutex, readerVars, pending,
                   holdoff, faults, endVars>>

\* connect() over HTTP waits for the answer, whose advice is always handled.
ConnectHttpOk(a) ==
    /\ sup = "connecting" /\ transport = "long-polling"
    /\ Spawn(a)
    /\ sup' = "idle"
    /\ UNCHANGED <<state, transport, netVars, mutex, tries, offer, readerVars,
                   holdoff, faults, endVars>>

ConnectHttpRejected(a) ==
    /\ sup = "connecting" /\ transport = "long-polling"
    /\ Fault /\ Spawn(a) /\ TryFailed
    /\ UNCHANGED <<state, transport, netVars, mutex, readerVars, holdoff,
                   endVars>>

ConnectHttpErr ==
    /\ sup = "connecting" /\ transport = "long-polling"
    /\ Fault /\ TryFailed
    /\ UNCHANGED <<state, transport, netVars, mutex, readerVars, pending,
                   holdoff, endVars>>

ConnectNoMessage ==
    sup = "connecting" /\ transport = "long-polling" /\ NoMessage

\* Mutant: one attempt too many.
SupWakeOneMore ==
    /\ sup = "idle" /\ state # "CONNECTED"
    /\ tries' = Retries + 1 /\ sup' = "begin"
    /\ UNCHANGED <<state, transport, netVars, mutex, offer, readerVars, pending,
                   holdoff, faults, endVars>>

\* StayConnectedLoop finds Connected() false.
SupWake ==
    /\ sup = "idle" /\ state # "CONNECTED"
    /\ tries' = Retries /\ sup' = "begin"
    /\ UNCHANGED <<state, transport, netVars, mutex, offer, readerVars, pending,
                   holdoff, faults, endVars>>

-----------------------------------------------------------------------------
(* A reader: websocketReadPoll. It takes no lock.                             *)

\* transport.read() of a WebsocketTransport, on the connection it holds now.
ReadCall(r) ==
    /\ reader[r] = "ready" /\ transport = "websocket"
    /\ reader' = [reader EXCEPT ![r] = "reading"]
    /\ reading' = [reading EXCEPT ![r] = wsConn]
    /\ UNCHANGED <<state, transport, netVars, mutex, supVars, pending, holdoff,
                   faults, endVars>>

\* transport.read() of an HTTPTransport: panic("not implemented!").
ReadPanic(r) ==
    /\ reader[r] = "ready" /\ transport = "long-polling"
    /\ Die /\ UNCHANGED <<faults, provoked>>

\* A frame arrived and decoded; its advice gets a goroutine.
Recv(r, a) ==
    /\ reader[r] = "reading" /\ reading[r] \in open
    /\ Spawn(a)
    /\ reader' = [reader EXCEPT ![r] = "ready"]
    /\ reading' = [reading EXCEPT ![r] = NoConn]
    /\ UNCHANGED <<state, transport, netVars, mutex, supVars, holdoff, faults,
                   endVars>>

\* Mutant: the state is reset before the connection is closed.
ReadErrResetsFirst(r) ==
    /\ reader[r] = "reading" /\ reading[r] \notin open
    /\ reader' = [reader EXCEPT ![r] = "closing"]
    /\ state' = "UNCONNECTED"
    /\ UNCHANGED <<transport, netVars, mutex, supVars, reading, pending,
                   holdoff, faults, endVars>>

\* The read failed because its connection is gone.
ReadErr(r) ==
    /\ reader[r] = "reading" /\ reading[r] \notin open
    /\ reader' = [reader EXCEPT ![r] = "closing"]
    /\ UNCHANGED <<state, transport, netVars, mutex, supVars, reading, pending,
                   holdoff, faults, endVars>>

\* Mutant: the state is reset but the loop goes on.
BadFrameReadsOn(r) ==
    /\ reader[r] = "reading" /\ reading[r] \in open
    /\ Fault
    /\ reader' = [reader EXCEPT ![r] = "ready"]
    /\ reading' = [reading EXCEPT ![r] = NoConn]
    /\ state' = "UNCONNECTED"
    /\ UNCHANGED <<transport, netVars, mutex, supVars, pending, holdoff,
                   endVars>>

RecvNoMessage(r) ==
    reader[r] = "reading" /\ reading[r] \in open /\ NoMessage

\* A frame that does not decode ends the loop over a connection still open.
BadFrame(r) ==
    /\ reader[r] = "reading" /\ reading[r] \in open
    /\ Fault
    /\ reader' = [reader EXCEPT ![r] = "closing"]
    /\ UNCHANGED <<state, transport, netVars, mutex, supVars, reading, pending,
                   holdoff, endVars>>

\* faye.transport.close(): whatever connection the transport holds by now.
CloseConn(r) ==
    /\ reader[r] = "closing"
    /\ open' = IF transport = "websocket" THEN open \ {wsConn} ELSE open
    /\ reader' = [reader EXCEPT ![r] = "resetting"]
    /\ UNCHANGED <<state, transport, wsConn, mutex, supVars, reading, pending,
                   holdoff, faults, endVars>>

\* Mutant: the goroutine ends without resetting the state.
ResetStateForgotten(r) ==
    /\ reader[r] = "resetting"
    /\ reader' = [reader EXCEPT ![r] = "off"]
    /\ reading' = [reading EXCEPT ![r] = NoConn]
    /\ UNCHANGED <<state, transport, netVars, mutex, supVars, pending, holdoff,
                   faults, endVars>>

\* The goroutine's last assignment; it overwrites any state, DISCONNECTED too.
ResetState(r) ==
    /\ reader[r] = "resetting"
    /\ state' = "UNCONNECTED"
    /\ reader' = [reader EXCEPT ![r] = "off"]
    /\ reading' = [reading EXCEPT ![r] = NoConn]
    /\ UNCHANGED <<transport, netVars, mutex, supVars, pending, holdoff, faults,
                   endVars>>

-----------------------------------------------------------------------------
(* handleAdvice, all of it under the mutex.                                   *)

Take(a) ==
    /\ pending[a] > 0 /\ mutex = "free"
    /\ pending' = [pending EXCEPT ![a] = @ - 1]

\* RETRY calls connect() and keeps the mutex until it returns.
AdviceLock ==
    /\ Take("retry")
    /\ mutex' = "advice"
    /\ UNCHANGED <<state, transport, netVars, supVars, readerVars, holdoff,
                   faults, endVars>>

\* Over a websocket the write returns, failed or not, and nothing is recorded.
AdviceConnectWs ==
    /\ mutex = "advice" /\ transport = "websocket"
    /\ mutex' = "free"
    /\ UNCHANGED <<state, transport, netVars, supVars, readerVars, pending,
                   holdoff, faults, endVars>>

\* Over HTTP the answer, accepted or rejected, carries the next advice; a failed
\* request (a = "") carries none and is only logged.
AdviceConnectHttp(a) ==
    /\ mutex = "advice" /\ transport = "long-polling"
    /\ Spawn(a)
    /\ mutex' = "free"
    /\ UNCHANGED <<state, transport, netVars, supVars, readerVars, holdoff,
                   faults, endVars>>

AdviceNoMessage ==
    mutex = "advice" /\ transport = "long-polling" /\ NoMessage

\* HANDSHAKE with interval h: state is dropped, whatever the supervisor is doing.
AdviceHandshake(h) ==
    /\ Take("handshake")
    /\ state' = "UNCONNECTED"
    /\ holdoff' = IF h > 0 THEN h ELSE holdoff
    /\ provoked' = provoked \cup {"handshake"}
    /\ UNCHANGED <<transport, netVars, mutex, supVars, readerVars, faults,
                   panicked>>

AdviceNone ==
    /\ Take("none")
    /\ state' = "DISCONNECTED"
    /\ UNCHANGED <<transport, netVars, mutex, supVars, readerVars, holdoff,
                   faults, endVars>>

\* A subscribe request answered over HTTP hands its advice on as well.
SubscribeAnswered(a) ==
    /\ transport # "nil" /\ a # "" /\ ~panicked
    /\ Spawn(a)
    /\ UNCHANGED <<state, transport, netVars, mutex, supVars, readerVars,
                   holdoff, faults, endVars>>

SubscribeNoMessage == transport # "nil" /\ ~panicked /\ NoMessage

-----------------------------------------------------------------------------
(* The environment.                                                           *)

\* The peer or the network ends a connection, or its 3-minute read deadline
\* passes: the websocket library closes it either way.
Lose(c) ==
    /\ c \in open /\ Fault
    /\ open' = open \ {c}
    /\ UNCHANGED <<state, transport, wsConn, mutex, supVars, readerVars, pending,
                   holdoff, endVars>>

Tick ==
    /\ holdoff > 0 /\ ~panicked
    /\ holdoff' = holdoff - 1
    /\ UNCHANGED <<state, transport, netVars, mutex, supVars, readerVars,
                   pending, faults, endVars>>

-----------------------------------------------------------------------------
AnyAdvice == Advices \cup {""}

\* HsAnswer, HsReturn, CloseConn and Subscribe stand in Next by themselves: they are
\* the steps that touch a subscription (FayeClient.tla).
Supervise ==
    \/ HsRefused \/ HsCheck \/ HsStart \/ HsSendErr
    \/ HsCloseOld \/ HsNoWs \/ HsDialFail
    \/ \E c \in Conn : HsDialOk(c)
    \/ \E r \in Reader : ConnectWsOk(r)
    \/ ConnectWsErr
    \/ \E a \in AnyAdvice : ConnectHttpOk(a) \/ ConnectHttpRejected(a)
    \/ ConnectHttpErr \/ SupWake
    \/ HsNoMessage \/ ConnectNoMessage

Read(r) ==
    \/ ReadCall(r) \/ ReadPanic(r) \/ ReadErr(r) \/ BadFrame(r) \/ ResetState(r)
    \/ RecvNoMessage(r)
    \/ \E a \in AnyAdvice : Recv(r, a)

HandleAdvice ==
    \/ AdviceLock \/ AdviceConnectWs \/ AdviceNone \/ AdviceNoMessage
    \/ \E a \in AnyAdvice : AdviceConnectHttp(a)
    \/ \E h \in 0..MaxHold : AdviceHandshake(h)

Subscribe ==
    SubscribeNoMessage \/ \E a \in AnyAdvice : SubscribeAnswered(a)

Environment == Tick \/ \E c \in Conn : Lose(c)

Next ==
    \/ Supervise \/ HsReturn
    \/ \E o \in Offers : HsAnswer(o)
    \/ \E r \in Reader : Read(r) \/ CloseConn(r)
    \/ HandleAdvice \/ Subscribe \/ Environment

Spec == Init /\ [][Next]_vars

\* The steps each goroutine takes by itself (FayeClient.tla assumes fairness of them).
SupRuns ==
    \/ HsRefused \/ HsCheck \/ HsCloseOld \/ HsNoWs \/ HsDialFail
    \/ \E c \in Conn : HsDialOk(c)
    \/ \E r \in Reader : ConnectWsOk(r)
    \/ ConnectWsErr \/ ConnectHttpErr
    \/ \E a \in AnyAdvice : ConnectHttpOk(a) \/ ConnectHttpRejected(a)
    \/ SupWake

ReadRuns(r) == ReadCall(r) \/ ReadPanic(r) \/ ReadErr(r) \/ ResetState(r)

AdviceReturns ==
    AdviceConnectWs \/ \E a \in AnyAdvice : AdviceConnectHttp(a)

-----------------------------------------------------------------------------
(* Safety.                                                                    *)

\* Connected() (line 151) is what StayConnectedLoop polls to decide that nothing
\* needs doing. While the supervisor sleeps on a CONNECTED websocket, some reader
\* is on the connection the transport holds, or between two reads, or on its way
\* to reset the state: a session never looks up with nobody left to notice that
\* it is down, whatever advice arrives and however reader and supervisor race.
ConnectedIsListening ==
    (sup = "idle" /\ state = "CONNECTED" /\ transport = "websocket")
        => \E r \in Reader : reader[r] = "ready"
                            \/ (Alive(r) /\ reading[r] = wsConn)

\* While handleAdvice is inside connect() (line 488) the transport it reads twice,
\* once for its type and once to send, and the connection behind it stay put: the
\* supervisor's handshake waits for the mutex.
TransportStableUnderAdvice ==
    [][mutex = "advice" => UNCHANGED <<transport, wsConn>>]_vars

\* No advice to handshake has been followed so far.
Calm == "handshake" \notin provoked

ReadersAlone ==
    \A r \in Reader : Alive(r) =>
        /\ sup \in {"idle", "begin", "stopped"}
        /\ transport = "websocket"
        /\ \A q \in Reader \ {r} : ~Alive(q)

\* As long as the server has not had a new handshake, readers and handshakes exclude
\* one another although no lock says so: one reader at most, none of them alive while
\* the supervisor replaces the transport it reads without the mutex (line 247).
ReaderExclusive == Calm => ReadersAlone

\* The process never panics of itself. HTTPTransport.read (http_transport.go:57) is
\* reached, a nil transport used (line 356) or an empty answer indexed
\* (response.go:118) only after the server has advised a new handshake, left
\* long-polling out of its offer, or sent no message: whatever is lost, fails or does
\* not decode, whatever other advice comes, and however the goroutines interleave.
PanicIsProvoked == panicked => provoked # {}

\* A reader that gives up closes the connection it was reading and never one that
\* a later handshake dialled in the meantime (line 236 closes whatever
\* faye.transport holds by then), as long as no advice had it handshake.
OnlyOwnConnClosed ==
    [][\A r \in Reader :
        (Calm /\ reader[r] = "closing" /\ reader'[r] = "resetting")
            => open \ open' \subseteq {reading[r]}]_vars

\* While the supervisor sleeps on a session that looks up over a websocket, one of the
\* login's own readers lives: ConnectedIsListening as far as it does not depend on the
\* connection, which another login may change (Logins.tla).
SomebodyListens ==
    (sup = "idle" /\ state = "CONNECTED" /\ transport = "websocket")
        => \E r \in Reader : Alive(r)

-----------------------------------------------------------------------------
(* Liveness.                                                                  *)

\* The session is up: somebody listens on a connection that is open.
Up ==
    /\ sup = "idle" /\ state = "CONNECTED"
    /\ transport = "websocket"
         => wsConn \in open /\ \E r \in Reader : reader[r] \in {"ready", "reading"}

-----------------------------------------------------------------------------
(* What the repository says, and the code does not do.                        *)

\* "Server does not support any available transports" (faye_client.go:360) is the
\* error of a handshake that could choose no transport: the attempt fails, and
\* StayConnectedLoop may try again.
NoTransportIsAnError == [][HsNoWs \/ HsDialFail => ~panicked']_vars
=============================================================================
