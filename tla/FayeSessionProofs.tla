-------------------------- MODULE FayeSessionProofs --------------------------
(***************************************************************************)
(* Proofs about FayeSession, for any number of connections and readers, any *)
(* set of advice and of handshake answers, and any bounds.                  *)
(*                                                                          *)
(* SessionInv is the inductive invariant that holds whatever the server     *)
(* advises; CalmInv the one about the time before it has advised a handshake.*)
(* Each has a part, OwnInv and OwnCalmInv, that speaks of nothing the login *)
(* shares with another: it holds of each of two logins as well, although    *)
(* they have one websocket transport between them (Logins).                 *)
(***************************************************************************)
EXTENDS Logins, TLAPS

\* The steps of Next by the goroutine that takes them.
Supervisor == Supervise \/ HsReturn \/ \E o \in Offers : HsAnswer(o)
ReadPoll(r) == Read(r) \/ CloseConn(r)
Advising == HandleAdvice \/ Subscribe

\* The next-state relation again, by the goroutine that takes the step.
LEMMA NextByGoroutine ==
  Next <=> \/ Supervisor
           \/ \E r \in Reader : ReadPoll(r)
           \/ Advising
           \/ Environment
  BY DEF Next, Supervisor, ReadPoll, Advising

\* A round in progress has an attempt left to spend.
TriesLeft == sup \notin {"idle", "stopped"} => tries >= 1

\* handshake keeps the mutex from the answer to the chosen transport, and nobody
\* else's hold looks like the supervisor's.
MutexOwner == mutex = "sup" <=> sup \in {"selecting", "dialing"}

OwnInv == TypeOK /\ TriesLeft /\ MutexOwner /\ SomebodyListens

SessionInv == OwnInv /\ ConnectedIsListening

-----------------------------------------------------------------------------
\* The invariant holds when Setup begins.
LEMMA SessionInit == Init => SessionInv
<1> SUFFICES ASSUME Init PROVE SessionInv
  OBVIOUS
<1>1. /\ reader \in [Reader -> ReaderPc]
      /\ reading \in [Reader -> Conn \cup {NoConn}]
      /\ pending \in [AdviceKind -> 0..MaxPending]
  BY BoundAssumption DEF Init, ReaderPc
<1>2. /\ tries \in 0..Retries /\ holdoff \in 0..MaxHold
      /\ faults \in 0..MaxFaults
  BY BoundAssumption DEF Init
<1>3. TypeOK
  BY <1>1, <1>2 DEF Init, TypeOK, ClientState, SupPc
<1> QED
  BY <1>3
  DEF Init, SessionInv, OwnInv, TriesLeft, MutexOwner, SomebodyListens,
      ConnectedIsListening

\* A new handleAdvice goroutine keeps the count within its bound ...
LEMMA SpawnTyped ==
  ASSUME TypeOK, NEW a \in AnyAdvice, Spawn(a)
  PROVE  pending' \in [AdviceKind -> 0..MaxPending]
<1>1. CASE a = ""  BY <1>1 DEF Spawn, TypeOK
<1>2. CASE a # ""
  <2>1. a \in AdviceKind  BY <1>2, AdvicesAssumption DEF AnyAdvice
  <2>2. pending[a] \in 0..MaxPending  BY <2>1 DEF TypeOK
  <2>3. pending[a] < MaxPending  BY <1>2 DEF Spawn
  <2>4. pending[a] + 1 \in 0..MaxPending
    BY <2>2, <2>3, BoundAssumption
  <2> QED BY <1>2, <2>1, <2>4 DEF TypeOK, Spawn
<1> QED BY <1>1, <1>2

\* ... and so does one that gets to run.
LEMMA TakeTyped ==
  ASSUME TypeOK, NEW a \in AdviceKind, Take(a)
  PROVE  pending' \in [AdviceKind -> 0..MaxPending]
  BY BoundAssumption DEF TypeOK, Take

\* A dead process satisfies the invariant: nothing runs and nothing is held.
LEMMA DieKeeps ==
  ASSUME OwnInv, Die, faults' \in 0..MaxFaults, provoked' \subseteq Provocation
  PROVE  OwnInv' /\ ConnectedIsListening'
  BY BoundAssumption
     DEF OwnInv, TypeOK, TriesLeft, MutexOwner, SomebodyListens,
         ConnectedIsListening, Die, SupPc, ReaderPc

LEMMA NoMessageKeeps ==
  ASSUME OwnInv, NoMessage
  PROVE  OwnInv' /\ ConnectedIsListening'
<1>1. faults' \in 0..MaxFaults /\ provoked' \subseteq Provocation
  BY DEF NoMessage, OwnInv, TypeOK, Provocation
<1> QED BY <1>1, DieKeeps DEF NoMessage

\* The supervisor's steps keep the invariant: it has an attempt left while it makes
\* one, holds the mutex while it selects, and sleeps only with a reader started.
LEMMA SupervisorKeeps ==
  ASSUME OwnInv, Supervisor
  PROVE  OwnInv' /\ (ConnectedIsListening => ConnectedIsListening')
<1> USE BoundAssumption
    DEF OwnInv, TypeOK, TriesLeft, MutexOwner, SomebodyListens,
        ConnectedIsListening, Alive,
        ClientState, SupPc, TransportKind, netVars, supVars, readerVars, endVars
<1>1. CASE HsRefused  BY <1>1 DEF HsRefused, TryFailed
<1>2. CASE HsCheck    BY <1>2 DEF HsCheck
<1>3. CASE HsStart    BY <1>3 DEF HsStart
<1>4. CASE HsSendErr  BY <1>4 DEF HsSendErr
<1>5. CASE \E o \in Offers : HsAnswer(o)  BY <1>5 DEF HsAnswer, Provocation
<1>6. CASE HsCloseOld  BY <1>6 DEF HsCloseOld
<1>7. ASSUME FallBack, faults' \in 0..MaxFaults, sup \in {"selecting", "dialing"}
      PROVE  OwnInv' /\ (ConnectedIsListening => ConnectedIsListening')
  BY <1>7, DieKeeps DEF FallBack
<1>8. CASE HsNoWs  BY <1>7, <1>8 DEF HsNoWs
<1>9. CASE HsDialFail  BY <1>7, <1>9 DEF HsDialFail, Fault
<1>10. CASE \E c \in Conn : HsDialOk(c)  BY <1>10 DEF HsDialOk
<1>11. CASE HsReturn  BY <1>11 DEF HsReturn
<1>12. CASE \E r \in Reader : ConnectWsOk(r)
  <2> PICK r \in Reader : ConnectWsOk(r)  BY <1>12
  <2>1. reader' \in [Reader -> ReaderPc] /\ reader'[r] = "ready"
    BY DEF ConnectWsOk, ReaderPc
  <2> QED BY <2>1 DEF ConnectWsOk
<1>13. CASE ConnectWsErr  BY <1>13 DEF ConnectWsErr, TryFailed
<1>14. CASE \E a \in AnyAdvice : ConnectHttpOk(a)
  BY <1>14, SpawnTyped DEF ConnectHttpOk
<1>15. CASE \E a \in AnyAdvice : ConnectHttpRejected(a)
  BY <1>15, SpawnTyped DEF ConnectHttpRejected, TryFailed, Fault
<1>16. CASE ConnectHttpErr  BY <1>16 DEF ConnectHttpErr, TryFailed, Fault
<1>17. CASE SupWake  BY <1>17 DEF SupWake
<1>18. CASE HsNoMessage \/ ConnectNoMessage
  BY <1>18, NoMessageKeeps DEF HsNoMessage, ConnectNoMessage
<1> QED
  BY <1>1, <1>2, <1>3, <1>4, <1>5, <1>6, <1>8, <1>9, <1>10, <1>11, <1>12,
     <1>13, <1>14, <1>15, <1>16, <1>17, <1>18
  DEF Supervisor, Supervise

\* A reader that ends takes CONNECTED down with it (faye_client.go:241).
LEMMA ReadPollKeeps ==
  ASSUME OwnInv, NEW r \in Reader, ReadPoll(r)
  PROVE  OwnInv' /\ (ConnectedIsListening => ConnectedIsListening')
<1> USE BoundAssumption
    DEF OwnInv, TypeOK, TriesLeft, MutexOwner, SomebodyListens,
        ConnectedIsListening, Alive,
        ClientState, ReaderPc, netVars, supVars, readerVars, endVars
<1>1. CASE ReadCall(r)    BY <1>1 DEF ReadCall
<1>2. CASE ReadPanic(r)   BY <1>2, DieKeeps DEF ReadPanic
<1>3. CASE ReadErr(r)     BY <1>3 DEF ReadErr
<1>4. CASE BadFrame(r)    BY <1>4 DEF BadFrame, Fault
<1>5. CASE CloseConn(r)   BY <1>5 DEF CloseConn
<1>6. CASE ResetState(r)  BY <1>6 DEF ResetState
<1>7. CASE \E a \in AnyAdvice : Recv(r, a)
  BY <1>7, SpawnTyped DEF Recv
<1>8. CASE RecvNoMessage(r)  BY <1>8, NoMessageKeeps DEF RecvNoMessage
<1> QED BY <1>1, <1>2, <1>3, <1>4, <1>5, <1>6, <1>7, <1>8 DEF ReadPoll, Read

\* Advice leaves CONNECTED as it is or takes it back.
LEMMA AdvisingKeeps ==
  ASSUME OwnInv, Advising
  PROVE  OwnInv' /\ (ConnectedIsListening => ConnectedIsListening')
<1> USE BoundAssumption
    DEF OwnInv, TypeOK, TriesLeft, MutexOwner, SomebodyListens,
        ConnectedIsListening, Alive,
        ClientState, AdviceKind, netVars, supVars, readerVars, endVars
<1>1. CASE AdviceLock  BY <1>1, TakeTyped DEF AdviceLock, Take
<1>2. CASE AdviceConnectWs  BY <1>2 DEF AdviceConnectWs
<1>3. CASE AdviceNone  BY <1>3, TakeTyped DEF AdviceNone, Take
<1>4. CASE \E a \in AnyAdvice : AdviceConnectHttp(a)
  BY <1>4, SpawnTyped DEF AdviceConnectHttp
<1>5. CASE \E a \in AnyAdvice : SubscribeAnswered(a)
  BY <1>5, SpawnTyped DEF SubscribeAnswered
<1>6. CASE \E h \in 0..MaxHold : AdviceHandshake(h)
  BY <1>6, TakeTyped DEF AdviceHandshake, Take, Provocation
<1>7. CASE AdviceNoMessage \/ SubscribeNoMessage
  BY <1>7, NoMessageKeeps DEF AdviceNoMessage, SubscribeNoMessage
<1> QED
  BY <1>1, <1>2, <1>3, <1>4, <1>5, <1>6, <1>7 DEF Advising, HandleAdvice, Subscribe

\* So every step keeps both.
LEMMA OwnStep ==
  OwnInv /\ [Next]_vars
    => OwnInv' /\ (ConnectedIsListening => ConnectedIsListening')
<1> SUFFICES ASSUME OwnInv, [Next]_vars
             PROVE  OwnInv' /\ (ConnectedIsListening => ConnectedIsListening')
  OBVIOUS
<1>1. CASE Supervisor  BY <1>1, SupervisorKeeps
<1>2. CASE \E r \in Reader : ReadPoll(r)  BY <1>2, ReadPollKeeps
<1>3. CASE Advising  BY <1>3, AdvisingKeeps
<1>4. CASE Environment
  BY <1>4, BoundAssumption
  DEF Environment, Tick, Lose, Fault, OwnInv, TypeOK, TriesLeft, MutexOwner,
      SomebodyListens, ConnectedIsListening, Alive, netVars, supVars, readerVars, endVars
<1>5. CASE UNCHANGED vars
  BY <1>5
  DEF OwnInv, TypeOK, TriesLeft, MutexOwner, SomebodyListens,
      ConnectedIsListening, Alive, vars, netVars, supVars, readerVars, endVars
<1> QED BY <1>1, <1>2, <1>3, <1>4, <1>5, NextByGoroutine

\* The invariant of a lone login is inductive.
LEMMA SessionStep == SessionInv /\ [Next]_vars => SessionInv'
  BY OwnStep DEF SessionInv

\* The session's inductive invariant holds whatever the server advises and answers.
THEOREM SessionInvariant == Spec => []SessionInv
  BY SessionInit, SessionStep, PTL DEF Spec

\* The types hold in every reachable state.
THEOREM TypeCorrect == Spec => []TypeOK
<1>1. SessionInv => TypeOK  BY DEF SessionInv, OwnInv
<1> QED BY <1>1, SessionInvariant, PTL

\* A CONNECTED websocket session the supervisor has left alone always has a reader
\* that is on its connection or will reset the state.
THEOREM Listening == Spec => []ConnectedIsListening
<1>1. SessionInv => ConnectedIsListening  BY DEF SessionInv
<1> QED BY <1>1, SessionInvariant, PTL

-----------------------------------------------------------------------------
(* The transport under handleAdvice's connect().                              *)

\* The supervisor changes the transport only with the mutex free or its own.
LEMMA SupervisorKeepsTransport ==
  ASSUME SessionInv, Supervisor, mutex = "advice"
  PROVE  UNCHANGED <<transport, wsConn>>
<1>1. sup \notin {"selecting", "dialing"}
  BY DEF SessionInv, OwnInv, MutexOwner
<1> QED
  BY <1>1
  DEF Supervisor, Supervise, HsRefused, HsCheck, HsStart, HsSendErr, HsAnswer, HsCloseOld,
      HsNoWs, HsDialFail, HsDialOk, HsReturn, ConnectWsOk, ConnectWsErr,
      ConnectHttpOk, ConnectHttpRejected, ConnectHttpErr, SupWake, HsNoMessage,
      ConnectNoMessage, FallBack, NoMessage, Die, netVars

\* No step taken while handleAdvice is inside connect() moves the transport or the
\* connection behind it (lines 479-490 against 324-328 and 351-357).
THEOREM TransportStable == Spec => TransportStableUnderAdvice
<1>1. SessionInv /\ [Next]_vars
        => [mutex = "advice" => UNCHANGED <<transport, wsConn>>]_vars
  <2> SUFFICES ASSUME SessionInv, Next, mutex = "advice"
               PROVE  UNCHANGED <<transport, wsConn>>
    BY DEF vars
  <2>1. CASE Supervisor  BY <2>1, SupervisorKeepsTransport
  <2>2. CASE \E r \in Reader : ReadPoll(r)
    BY <2>2
    DEF ReadPoll, Read, ReadCall, ReadPanic, ReadErr, BadFrame, CloseConn, ResetState,
        Recv, RecvNoMessage, NoMessage, Die, netVars
  <2>3. CASE Advising
    BY <2>3
    DEF Advising, HandleAdvice, AdviceLock, AdviceConnectWs, AdviceConnectHttp,
        AdviceHandshake, AdviceNone, AdviceNoMessage, Subscribe, SubscribeAnswered,
        SubscribeNoMessage, NoMessage, Die, netVars
  <2>4. CASE Environment
    BY <2>4 DEF Environment, Tick, Lose, netVars
  <2> QED BY <2>1, <2>2, <2>3, <2>4, NextByGoroutine
<1> QED
  BY <1>1, SessionInvariant, PTL DEF Spec, TransportStableUnderAdvice

-----------------------------------------------------------------------------
(* What recovery rests on.                                                    *)

\* Whoever reads or calls FayeClient.transport finds one: it is nil until the first
\* handshake sets it (line 325), and nothing is read, connected or advised before.
TransportInUse ==
    \/ sup \in {"sending", "selecting", "dialing", "returning", "connecting", "idle"}
    \/ mutex = "advice"
    \/ \E r \in Reader : Alive(r)
    \/ \E a \in AdviceKind : pending[a] > 0

HasTransport == TransportInUse => transport # "nil"

\* The first handshake selects a transport before anything else can run.
LEMMA HasTransportStep ==
  ASSUME OwnInv, HasTransport, [Next]_vars
  PROVE  HasTransport'
<1> USE DEF HasTransport, TransportInUse, OwnInv, TypeOK, Alive, netVars, supVars,
            readerVars, endVars
<1>1. CASE transport # "nil"
  <2>1. transport' # "nil"
    <3>1. CASE Supervisor
      BY <1>1, <3>1
      DEF Supervisor, Supervise, HsRefused, HsCheck, HsStart, HsSendErr, HsAnswer,
          HsCloseOld, HsNoWs, HsDialFail, FallBack, Die, HsDialOk, HsReturn,
          ConnectWsOk, ConnectWsErr, ConnectHttpOk, ConnectHttpRejected,
          ConnectHttpErr, SupWake, HsNoMessage, ConnectNoMessage, NoMessage
    <3>2. CASE \E r \in Reader : ReadPoll(r)
      BY <1>1, <3>2
      DEF ReadPoll, Read, ReadCall, ReadPanic, ReadErr, BadFrame, CloseConn,
          ResetState, Recv, RecvNoMessage, NoMessage, Die
    <3>3. CASE Advising
      BY <1>1, <3>3
      DEF Advising, HandleAdvice, AdviceLock, AdviceConnectWs, AdviceConnectHttp,
          AdviceHandshake, AdviceNone, AdviceNoMessage, Subscribe,
          SubscribeAnswered, SubscribeNoMessage, NoMessage, Die
    <3>4. CASE Environment \/ UNCHANGED vars
      BY <1>1, <3>4 DEF Environment, Tick, Lose, vars
    <3> QED BY <3>1, <3>2, <3>3, <3>4, NextByGoroutine
  <2> QED BY <2>1
<1>2. CASE transport = "nil"
  <2>1. /\ sup \in {"begin", "entering", "stopped"} /\ mutex # "advice"
        /\ \A r \in Reader : reader[r] = "off"
        /\ \A a \in AdviceKind : ~(pending[a] > 0)
    BY <1>2 DEF SupPc
  <2>2. CASE Supervisor
    BY <2>1, <2>2
    DEF Supervisor, Supervise, HsRefused, HsCheck, HsStart, HsSendErr, HsAnswer,
        HsCloseOld, HsNoWs, HsDialFail, HsDialOk, HsReturn, ConnectWsOk,
        ConnectWsErr, ConnectHttpOk, ConnectHttpRejected, ConnectHttpErr, SupWake,
        TryFailed, HsNoMessage, ConnectNoMessage, NoMessage, Die
  <2>3. CASE \E r \in Reader : ReadPoll(r)
    BY <2>1, <2>3
    DEF ReadPoll, Read, ReadCall, ReadPanic, ReadErr, BadFrame, CloseConn,
        ResetState, Recv, RecvNoMessage
  <2>4. CASE Advising
    BY <1>2, <2>1, <2>4
    DEF Advising, HandleAdvice, AdviceLock, AdviceConnectWs, AdviceConnectHttp,
        AdviceHandshake, AdviceNone, AdviceNoMessage, Subscribe, SubscribeAnswered,
        SubscribeNoMessage, Take, AdviceKind
  <2>5. CASE Environment \/ UNCHANGED vars
    BY <2>1, <2>5 DEF Environment, Tick, Lose, vars
  <2> QED BY <2>2, <2>3, <2>4, <2>5, NextByGoroutine
<1> QED BY <1>1, <1>2

\* No goroutine of the session calls a transport that is not there yet.
THEOREM TransportIsSet == Spec => []HasTransport
<1>1. Init => HasTransport
  BY DEF Init, HasTransport, TransportInUse, Alive
<1>2. SessionInv /\ HasTransport /\ [Next]_vars => HasTransport'
  BY HasTransportStep DEF SessionInv
<1> QED BY <1>1, <1>2, SessionInvariant, PTL DEF Spec

\* A session that is not up while its supervisor sleeps has somebody with a step to
\* take: the supervisor, which wakes, or a reader on its way to the reset that wakes
\* it.
DownIsNoticed ==
    sup = "idle" /\ ~Up =>
        \/ state # "CONNECTED"
        \/ \E r \in Reader :
             \/ reader[r] = "ready" /\ transport = "websocket"
             \/ reader[r] = "reading" /\ reading[r] \notin open
             \/ reader[r] \in {"closing", "resetting"}

\* handleAdvice gives the mutex back: the transport its connect() goes through is one
\* of the two.
AdviceCanReturn == mutex = "advice" => transport \in TransportKind

\* The safety behind Recovers: no session is down for good with its supervisor asleep
\* (real_time.go:209), and no handshake waits on a mutex that nobody can release.
THEOREM RecoveryNeverStalls == Spec => [](DownIsNoticed /\ AdviceCanReturn)
<1>1. SessionInv => DownIsNoticed
  <2> SUFFICES ASSUME SessionInv, sup = "idle", ~Up, state = "CONNECTED"
               PROVE  \E r \in Reader :
                        \/ reader[r] = "ready" /\ transport = "websocket"
                        \/ reader[r] = "reading" /\ reading[r] \notin open
                        \/ reader[r] \in {"closing", "resetting"}
    BY DEF DownIsNoticed
  <2>1. transport = "websocket"  BY DEF Up
  <2>2. PICK r \in Reader : \/ reader[r] = "ready"
                            \/ Alive(r) /\ reading[r] = wsConn
    BY <2>1 DEF SessionInv, ConnectedIsListening
  <2>3. reader[r] \in ReaderPc  BY DEF SessionInv, OwnInv, TypeOK
  <2> QED BY <2>1, <2>2, <2>3 DEF Up, Alive, ReaderPc
<1>2. SessionInv /\ HasTransport => AdviceCanReturn
  BY DEF SessionInv, OwnInv, TypeOK, HasTransport, TransportInUse, AdviceCanReturn
<1> QED BY <1>1, <1>2, SessionInvariant, TransportIsSet, PTL

-----------------------------------------------------------------------------
(* Before the server has advised a handshake.                                 *)

\* The reader is the only goroutine that can send the supervisor back to begin
\* while it lives, and only DISCONNECTED does: the state keeps handshake out.
StateGuardsReader ==
    \A r \in Reader : Alive(r) =>
        /\ sup = "begin" => state = "DISCONNECTED"
        /\ sup = "idle" => state \in {"CONNECTED", "DISCONNECTED"}

\* A reader never holds a connection that is not the transport's.
ReadsCurrentConn ==
    \A r \in Reader :
        reading[r] = IF reader[r] \in {"off", "ready"} THEN NoConn ELSE wsConn

\* From the answer of a handshake to the end of connect the state is the answer's,
\* unless an advice says none.
StateAfterAnswer ==
    /\ sup \in {"selecting", "dialing"} => state = "CONNECTED"
    /\ sup \in {"returning", "connecting"}
         => state \in {"CONNECTED", "DISCONNECTED"}

OwnCalm == ReadersAlone /\ StateGuardsReader /\ StateAfterAnswer

OwnCalmInv == Calm => OwnCalm

CalmInv == Calm => OwnCalm /\ ReadsCurrentConn

\* There is no reader at the start.
LEMMA CalmInit == Init => CalmInv
  BY DEF Init, CalmInv, OwnCalm, ReadersAlone, StateGuardsReader, ReadsCurrentConn,
         StateAfterAnswer, Alive

\* A dead process has no readers.
LEMMA DieKeepsCalm ==
  ASSUME Die
  PROVE  OwnCalm' /\ ReadsCurrentConn'
  BY DEF Die, OwnCalm, ReadersAlone, StateGuardsReader, ReadsCurrentConn,
         StateAfterAnswer, Alive

\* The supervisor begins a handshake only once the only reader is gone, and starts a
\* reader only at its end.
LEMMA SupervisorKeepsCalm ==
  ASSUME Calm', OwnInv, OwnCalm, Supervisor
  PROVE  OwnCalm' /\ (ReadsCurrentConn => ReadsCurrentConn')
<1> USE DEF OwnInv, OwnCalm, ReadersAlone, StateGuardsReader,
            ReadsCurrentConn, StateAfterAnswer, MutexOwner, Alive,
            netVars, supVars, readerVars, endVars
<1>1. CASE HsRefused  BY <1>1 DEF HsRefused, TryFailed
<1>2. CASE HsCheck    BY <1>2 DEF HsCheck
<1>3. CASE HsStart    BY <1>3 DEF HsStart
<1>4. CASE HsSendErr  BY <1>4 DEF HsSendErr
<1>5. CASE \E o \in Offers : HsAnswer(o)  BY <1>5 DEF HsAnswer
<1>6. CASE HsCloseOld  BY <1>6 DEF HsCloseOld
<1>7. CASE HsNoWs  BY <1>7, DieKeepsCalm DEF HsNoWs, FallBack
<1>8. CASE HsDialFail  BY <1>8, DieKeepsCalm DEF HsDialFail, FallBack
<1>9. CASE \E c \in Conn : HsDialOk(c)  BY <1>9 DEF HsDialOk
<1>10. CASE HsReturn  BY <1>10 DEF HsReturn
<1>11. CASE \E r \in Reader : ConnectWsOk(r)
  <2> PICK r \in Reader : ConnectWsOk(r)  BY <1>11
  <2>1. reader' = [reader EXCEPT ![r] = "ready"]  BY DEF ConnectWsOk
  <2>2. \A q \in Reader : Alive(q)' => q = r
    BY <2>1 DEF ConnectWsOk, TypeOK
  <2>3. reader[r] = "off" /\ reader'[r] = "ready"
    BY <2>1 DEF ConnectWsOk, TypeOK
  <2> QED BY <2>1, <2>2, <2>3 DEF ConnectWsOk, TypeOK
<1>12. CASE ConnectWsErr  BY <1>12 DEF ConnectWsErr, TryFailed
<1>13. CASE \E a \in AnyAdvice : ConnectHttpOk(a)
  BY <1>13 DEF ConnectHttpOk
<1>14. CASE \E a \in AnyAdvice : ConnectHttpRejected(a)
  BY <1>14 DEF ConnectHttpRejected, TryFailed
<1>15. CASE ConnectHttpErr  BY <1>15 DEF ConnectHttpErr, TryFailed
<1>16. CASE SupWake  BY <1>16 DEF SupWake
<1>17. CASE HsNoMessage \/ ConnectNoMessage
  BY <1>17, DieKeepsCalm DEF HsNoMessage, ConnectNoMessage, NoMessage
<1> QED
  BY <1>1, <1>2, <1>3, <1>4, <1>5, <1>6, <1>7, <1>8, <1>9, <1>10, <1>11,
     <1>12, <1>13, <1>14, <1>15, <1>16, <1>17
  DEF Supervisor, Supervise

\* A reader resets the state in its last step, not before.
LEMMA ReadPollKeepsCalm ==
  ASSUME Calm', OwnInv, OwnCalm, NEW r \in Reader, ReadPoll(r)
  PROVE  OwnCalm' /\ (ReadsCurrentConn => ReadsCurrentConn')
<1> USE DEF OwnInv, TypeOK, OwnCalm, ReadersAlone,
            StateGuardsReader, ReadsCurrentConn, StateAfterAnswer, Alive, netVars, supVars,
            readerVars, endVars
<1>1. CASE ReadCall(r)    BY <1>1 DEF ReadCall
<1>2. CASE ReadPanic(r)   BY <1>2, DieKeepsCalm DEF ReadPanic
<1>3. CASE ReadErr(r)     BY <1>3 DEF ReadErr
<1>4. CASE BadFrame(r)    BY <1>4 DEF BadFrame
<1>5. CASE CloseConn(r)   BY <1>5 DEF CloseConn
<1>6. CASE ResetState(r)  BY <1>6 DEF ResetState
<1>7. CASE \E a \in AnyAdvice : Recv(r, a)
  BY <1>7 DEF Recv
<1>8. CASE RecvNoMessage(r)
  BY <1>8, DieKeepsCalm DEF RecvNoMessage, NoMessage
<1> QED BY <1>1, <1>2, <1>3, <1>4, <1>5, <1>6, <1>7, <1>8 DEF ReadPoll, Read

\* Advice to retry or to stop does not let a handshake begin under a reader.
LEMMA AdvisingKeepsCalm ==
  ASSUME Calm', OwnInv, OwnCalm, Advising
  PROVE  OwnCalm' /\ (ReadsCurrentConn => ReadsCurrentConn')
<1> USE DEF OwnInv, OwnCalm, ReadersAlone, StateGuardsReader,
            ReadsCurrentConn, StateAfterAnswer, MutexOwner, Alive, netVars,
            supVars, readerVars, endVars
<1>1. CASE AdviceLock
  BY <1>1 DEF AdviceLock, AdviceKind
<1>2. CASE AdviceConnectWs  BY <1>2 DEF AdviceConnectWs
<1>3. CASE AdviceNone
  <2>1. mutex = "free"  BY <1>3 DEF AdviceNone, Take
  <2> QED BY <1>3, <2>1 DEF AdviceNone, AdviceKind
<1>4. CASE \E a \in AnyAdvice : AdviceConnectHttp(a)
  BY <1>4 DEF AdviceConnectHttp
<1>5. CASE \E a \in AnyAdvice : SubscribeAnswered(a)
  BY <1>5 DEF SubscribeAnswered
<1>6. CASE \E h \in 0..MaxHold : AdviceHandshake(h)
  BY <1>6 DEF AdviceHandshake, Calm
<1>7. CASE AdviceNoMessage \/ SubscribeNoMessage
  BY <1>7, DieKeepsCalm DEF AdviceNoMessage, SubscribeNoMessage, NoMessage
<1> QED
  BY <1>1, <1>2, <1>3, <1>4, <1>5, <1>6, <1>7 DEF Advising, HandleAdvice, Subscribe

\* So every step keeps both.
LEMMA OwnCalmStep ==
  ASSUME OwnInv, OwnCalm, [Next]_vars, Calm'
  PROVE  OwnCalm' /\ (ReadsCurrentConn => ReadsCurrentConn')
<1>1. CASE Supervisor  BY <1>1, SupervisorKeepsCalm
<1>2. CASE \E r \in Reader : ReadPoll(r)  BY <1>2, ReadPollKeepsCalm
<1>3. CASE Advising  BY <1>3, AdvisingKeepsCalm
<1>4. CASE Environment
  BY <1>4
  DEF Environment, Tick, Lose, OwnCalm, ReadersAlone, StateGuardsReader,
      ReadsCurrentConn, StateAfterAnswer, Alive, netVars, supVars, readerVars, endVars
<1>5. CASE UNCHANGED vars
  BY <1>5
  DEF OwnCalm, ReadersAlone, StateGuardsReader, ReadsCurrentConn,
      StateAfterAnswer, Alive, vars, netVars, supVars, readerVars, endVars
<1> QED BY <1>1, <1>2, <1>3, <1>4, <1>5, NextByGoroutine

\* What the server has done stays done, until the next handshake's offer.
LEMMA ProvokedStays ==
  ASSUME [Next]_vars, ~\E o \in Offers : HsAnswer(o)
  PROVE  provoked \subseteq provoked'
<1> USE DEF endVars
<1>1. CASE Supervisor
  BY <1>1
  DEF Supervisor, Supervise, HsRefused, HsCheck, HsStart, HsSendErr, HsCloseOld,
      HsNoWs, HsDialFail, FallBack, HsDialOk, HsReturn, ConnectWsOk, ConnectWsErr,
      ConnectHttpOk, ConnectHttpRejected, ConnectHttpErr, SupWake, HsNoMessage,
      ConnectNoMessage, NoMessage
<1>2. CASE \E r \in Reader : ReadPoll(r)
  BY <1>2
  DEF ReadPoll, Read, ReadCall, ReadPanic, ReadErr, BadFrame, CloseConn, ResetState,
      Recv, RecvNoMessage, NoMessage
<1>3. CASE Advising
  BY <1>3
  DEF Advising, HandleAdvice, AdviceLock, AdviceConnectWs, AdviceConnectHttp,
      AdviceHandshake, AdviceNone, AdviceNoMessage, Subscribe, SubscribeAnswered,
      SubscribeNoMessage, NoMessage
<1>4. CASE Environment \/ UNCHANGED vars
  BY <1>4 DEF Environment, Tick, Lose, vars
<1> QED BY <1>1, <1>2, <1>3, <1>4, NextByGoroutine

LEMMA CalmBefore == [Next]_vars /\ Calm' => Calm
<1>1. ASSUME NEW o \in Offers, HsAnswer(o), Calm' PROVE Calm
  BY <1>1 DEF HsAnswer, Calm
<1> QED BY <1>1, ProvokedStays DEF Calm

\* Until the server has advised a handshake, a handshake and a reader exclude one
\* another place by place, although the reader takes no lock.
THEOREM CalmInvariant == Spec => []CalmInv
<1>1. SessionInv /\ CalmInv /\ [Next]_vars => CalmInv'
  BY OwnCalmStep, CalmBefore DEF SessionInv, CalmInv
<1> QED BY <1>1, CalmInit, SessionInvariant, PTL DEF Spec

\* Until the server has advised a handshake, the unlocked reads of the transport in
\* websocketReadPoll never meet a handshake, although no lock keeps them apart.
THEOREM ReadersExclude == Spec => []ReaderExclusive
<1>1. CalmInv => ReaderExclusive  BY DEF CalmInv, OwnCalm, ReaderExclusive
<1> QED BY <1>1, CalmInvariant, PTL

\* ... and a reader closes no connection but its own.
THEOREM ClosesItsOwn == Spec => OnlyOwnConnClosed
<1> DEFINE Closes ==
      \A r \in Reader : (Calm /\ reader[r] = "closing" /\ reader'[r] = "resetting")
                          => open \ open' \subseteq {reading[r]}
<1>1. SessionInv /\ CalmInv /\ [Next]_vars => [Closes]_vars
  <2> SUFFICES ASSUME SessionInv, CalmInv, Next, NEW r \in Reader, Calm,
                      reader[r] = "closing", reader'[r] = "resetting"
               PROVE  open \ open' \subseteq {reading[r]}
    OBVIOUS
  <2>1. reading[r] = wsConn  BY DEF CalmInv, ReadsCurrentConn
  <2>2. CASE \E q \in Reader : CloseConn(q)
    BY <2>1, <2>2 DEF CloseConn
  <2>3. CASE ~\E q \in Reader : CloseConn(q)
    <3>1. ~Supervisor
      BY DEF SessionInv, OwnInv, TypeOK, Supervisor, Supervise, HsRefused, HsCheck, HsStart,
             HsSendErr, HsAnswer, HsCloseOld, HsNoWs, HsDialFail, FallBack, Die,
             HsDialOk, HsReturn, ConnectWsOk, ConnectWsErr, ConnectHttpOk,
             ConnectHttpRejected, ConnectHttpErr, SupWake, HsNoMessage,
             ConnectNoMessage, NoMessage, readerVars
    <3>2. ~\E q \in Reader : ReadPoll(q)
      BY <2>3
      DEF SessionInv, OwnInv, TypeOK, ReadPoll, Read, ReadCall, ReadPanic, ReadErr,
          BadFrame, ResetState, Recv, RecvNoMessage, NoMessage, Die
    <3>3. ~Advising
      BY DEF Advising, HandleAdvice, AdviceLock, AdviceConnectWs, AdviceConnectHttp,
             AdviceHandshake, AdviceNone, AdviceNoMessage, Subscribe,
             SubscribeAnswered, SubscribeNoMessage, NoMessage, Die, readerVars
    <3>4. ~Environment
      BY DEF Environment, Tick, Lose, readerVars
    <3> QED BY <3>1, <3>2, <3>3, <3>4, NextByGoroutine
  <2> QED BY <2>2, <2>3
<1> QED
  BY <1>1, SessionInvariant, CalmInvariant, PTL DEF Spec, OnlyOwnConnClosed

-----------------------------------------------------------------------------
(* Panics.                                                                    *)

\* The handshake can fall back on HTTP, unless its own answer rules that out.
CanFallBack ==
    sup \in {"selecting", "dialing"} =>
        "long-polling" \in offer \/ "no long-polling" \in provoked

\* A step that panics is one the server has provoked.
LEMMA CanFallBackStep ==
  ASSUME OwnCalmInv, CanFallBack, [Next]_vars
  PROVE  CanFallBack' /\ (panicked' # panicked => provoked' # {})
<1> USE DEF CanFallBack, netVars, supVars, readerVars, endVars
<1>1. ASSUME NoMessage
      PROVE  CanFallBack' /\ provoked' # {}
  BY <1>1 DEF NoMessage, Die
<1>2. CASE \E o \in Offers : HsAnswer(o)
  BY <1>2 DEF HsAnswer
<1>3. CASE HsNoWs \/ HsDialFail
  BY <1>3 DEF HsNoWs, HsDialFail, FallBack, Die
<1>4. CASE HsNoMessage \/ ConnectNoMessage
  BY <1>1, <1>4 DEF HsNoMessage, ConnectNoMessage
<1>5. CASE /\ Supervisor /\ ~(\E o \in Offers : HsAnswer(o)) /\ ~HsNoWs
           /\ ~HsDialFail /\ ~HsNoMessage /\ ~ConnectNoMessage
  BY <1>5
  DEF Supervisor, Supervise, HsRefused, HsCheck, HsStart, HsSendErr, HsCloseOld, HsDialOk,
      HsReturn, ConnectWsOk, ConnectWsErr, ConnectHttpOk, ConnectHttpRejected,
      ConnectHttpErr, SupWake, TryFailed
<1>6. CASE \E r \in Reader : ReadPoll(r)
  <2> PICK r \in Reader : ReadPoll(r)  BY <1>6
  <2>1. CASE ReadPanic(r)
    <3>1. ~Calm
      BY <2>1 DEF OwnCalmInv, OwnCalm, ReadersAlone, Alive, ReadPanic
    <3> QED BY <2>1, <3>1 DEF ReadPanic, Die, Calm
  <2>2. CASE RecvNoMessage(r)  BY <1>1, <2>2 DEF RecvNoMessage
  <2>3. CASE ~ReadPanic(r) /\ ~RecvNoMessage(r)
    BY <2>3
    DEF ReadPoll, Read, ReadCall, ReadErr, BadFrame, CloseConn, ResetState, Recv
  <2> QED BY <2>1, <2>2, <2>3
<1>7. CASE AdviceNoMessage \/ SubscribeNoMessage
  BY <1>1, <1>7 DEF AdviceNoMessage, SubscribeNoMessage
<1>8. CASE Advising /\ ~AdviceNoMessage /\ ~SubscribeNoMessage
  BY <1>8
  DEF Advising, HandleAdvice, AdviceLock, AdviceConnectWs, AdviceConnectHttp,
      AdviceHandshake, AdviceNone, Subscribe, SubscribeAnswered
<1>9. CASE Environment \/ UNCHANGED vars
  BY <1>9 DEF Environment, Tick, Lose, vars
<1> QED BY <1>2, <1>3, <1>4, <1>5, <1>6, <1>7, <1>8, <1>9, NextByGoroutine

\* A panic leaves the supervisor no step to take.
Dead == panicked => sup = "stopped"

LEMMA DeadStep ==
  ASSUME Dead, [Next]_vars
  PROVE  Dead'
<1> USE DEF Dead, netVars, supVars, readerVars, endVars
<1>1. ASSUME Die PROVE sup' = "stopped"
  BY <1>1 DEF Die
<1>2. CASE Supervisor
  BY <1>1, <1>2
  DEF Supervisor, Supervise, HsRefused, HsCheck, HsStart, HsSendErr, HsAnswer, HsCloseOld,
      HsNoWs, HsDialFail, FallBack, HsDialOk, HsReturn, ConnectWsOk, ConnectWsErr,
      ConnectHttpOk, ConnectHttpRejected, ConnectHttpErr, SupWake, HsNoMessage,
      ConnectNoMessage, NoMessage
<1>3. CASE \E r \in Reader : ReadPoll(r)
  BY <1>1, <1>3
  DEF ReadPoll, Read, ReadCall, ReadPanic, ReadErr, BadFrame, CloseConn, ResetState,
      Recv, RecvNoMessage, NoMessage
<1>4. CASE Advising
  BY <1>1, <1>4
  DEF Advising, HandleAdvice, AdviceLock, AdviceConnectWs, AdviceConnectHttp,
      AdviceHandshake, AdviceNone, AdviceNoMessage, Subscribe, SubscribeAnswered,
      SubscribeNoMessage, NoMessage
<1>5. CASE Environment \/ UNCHANGED vars
  BY <1>5 DEF Environment, Tick, Lose, vars
<1> QED BY <1>2, <1>3, <1>4, <1>5, NextByGoroutine

\* No goroutine of the session panics unless the server has provoked it, whatever the
\* server offers and advises.
THEOREM PanicsOnlyProvoked == Spec => []PanicIsProvoked
<1> DEFINE Inv == CanFallBack /\ Dead /\ PanicIsProvoked
<1>1. Init => Inv
  BY DEF Init, CanFallBack, Dead, PanicIsProvoked
<1>2. CalmInv /\ Inv /\ [Next]_vars => Inv'
  <2> SUFFICES ASSUME CalmInv, Inv, [Next]_vars PROVE Inv'
    OBVIOUS
  <2>1. CanFallBack' /\ (panicked' # panicked => provoked' # {})
    BY CanFallBackStep DEF CalmInv, OwnCalmInv
  <2>2. Dead'  BY DeadStep
  <2>3. CASE panicked /\ panicked' = panicked
    <3>1. ~\E o \in Offers : HsAnswer(o)  BY <2>3 DEF Dead, HsAnswer
    <3>2. provoked \subseteq provoked'  BY <3>1, ProvokedStays
    <3> QED BY <2>1, <2>2, <2>3, <3>2 DEF PanicIsProvoked
  <2>4. CASE ~panicked \/ panicked' # panicked
    BY <2>1, <2>2, <2>4 DEF PanicIsProvoked
  <2> QED BY <2>3, <2>4
<1>3. Inv => PanicIsProvoked
  OBVIOUS
<1> HIDE DEF Inv
<1> QED
  BY <1>1, <1>2, <1>3, CalmInvariant, PTL DEF Spec

-----------------------------------------------------------------------------
(* Two logins. They are alike, and what is proved of the one whose variables  *)
(* are FayeSession's holds of the other.                                      *)

\* Nothing but a dial sets the shared connection, and to one of the pool.
LEMMA OtherLoginTyped ==
  ASSUME TypeOK, StepB
  PROVE  wsConn' \in Conn \cup {NoConn} /\ open' \subseteq Conn /\ panicked' \in BOOLEAN
<1> USE DEF TypeOK, B!netVars, B!endVars
<1>1. CASE B!Supervise \/ B!HsReturn \/ \E o \in Offers : B!HsAnswer(o)
  BY <1>1
  DEF B!Supervise, B!HsRefused, B!HsCheck, B!HsStart, B!HsSendErr, B!HsAnswer,
      B!HsCloseOld, B!HsNoWs, B!HsDialFail, B!FallBack, B!Die, B!HsDialOk,
      B!HsReturn, B!ConnectWsOk, B!ConnectWsErr, B!ConnectHttpOk,
      B!ConnectHttpRejected, B!ConnectHttpErr, B!SupWake, B!HsNoMessage,
      B!ConnectNoMessage, B!NoMessage
<1>2. CASE \E r \in Reader : B!Read(r) \/ B!CloseConn(r)
  BY <1>2
  DEF B!Read, B!ReadCall, B!ReadPanic, B!ReadErr, B!BadFrame, B!CloseConn,
      B!ResetState, B!Recv, B!RecvNoMessage, B!NoMessage, B!Die
<1>3. CASE B!HandleAdvice \/ B!Subscribe
  BY <1>3
  DEF B!HandleAdvice, B!AdviceLock, B!AdviceConnectWs, B!AdviceConnectHttp,
      B!AdviceHandshake, B!AdviceNone, B!AdviceNoMessage, B!Subscribe,
      B!SubscribeAnswered, B!SubscribeNoMessage, B!NoMessage, B!Die
<1>4. CASE B!Environment
  BY <1>4 DEF B!Environment, B!Tick, B!Lose
<1> QED BY <1>1, <1>2, <1>3, <1>4 DEF StepB, B!Next

\* A step of the other login leaves a login's own variables alone.
LEMMA LoginsStep ==
  ASSUME TypeOK, [LoginsNext]_loginsVars
  PROVE  [Next]_vars \/ (TypeOK' /\ UNCHANGED private)
<1>1. CASE StepB
  <2>1. UNCHANGED private  BY <1>1 DEF StepB
  <2> QED
    BY <1>1, <2>1, OtherLoginTyped DEF TypeOK, private, supVars, readerVars, endVars
<1>2. CASE UNCHANGED loginsVars
  BY <1>2 DEF loginsVars, private, vars, netVars, endVars
<1> QED BY <1>1, <1>2 DEF LoginsNext, Step

\* What a login owes itself it keeps beside another login: its types, its mutex, its
\* attempts, and a reader alive while it looks up; and, until its server advises a
\* handshake, its readers and its handshakes apart. What it says of its connection
\* (ConnectedIsListening, ReadsCurrentConn) it does not keep.
THEOREM EachLoginInvariant == LoginsSpec => [](OwnInv /\ OwnCalmInv)
<1> DEFINE Inv == OwnInv /\ OwnCalmInv
<1>1. LoginsInit => Inv
  BY SessionInit, CalmInit DEF LoginsInit, SessionInv, CalmInv, OwnCalmInv
<1>2. Inv /\ [LoginsNext]_loginsVars => Inv'
  <2> SUFFICES ASSUME Inv, [LoginsNext]_loginsVars PROVE Inv'
    OBVIOUS
  <2>1. CASE [Next]_vars
    BY <2>1, OwnStep, OwnCalmStep, CalmBefore DEF OwnCalmInv
  <2>2. CASE TypeOK' /\ UNCHANGED private
    BY <2>2
    DEF OwnInv, TriesLeft, MutexOwner, SomebodyListens, Alive, OwnCalmInv, Calm,
        OwnCalm, ReadersAlone, StateGuardsReader, StateAfterAnswer, private,
        supVars, readerVars, endVars
  <2> QED BY <2>1, <2>2, LoginsStep DEF OwnInv
<1> HIDE DEF Inv
<1>3. LoginsSpec => []Inv  BY <1>1, <1>2, PTL DEF LoginsSpec
<1> QED BY <1>3 DEF Inv

\* A login whose supervisor sleeps on a CONNECTED websocket has a reader of its own,
\* and no reader of its own is alive while its transport changes unless its server
\* advised a handshake, whatever the other login does to the connection they share.
THEOREM EachLoginKeeps == LoginsSpec => []KeepsItsOwn
<1>1. OwnInv /\ OwnCalmInv => KeepsItsOwn
  BY DEF OwnInv, OwnCalmInv, OwnCalm, ReaderExclusive, KeepsItsOwn
<1> QED BY <1>1, EachLoginInvariant, PTL

\* A panic takes both logins down, and a login's step panics only if that login's own
\* server has provoked it.
THEOREM LoginsPanicOnlyProvoked ==
  LoginsSpec => [][Step => (panicked' # panicked => provoked' # {})]_loginsVars
<1>1. LoginsInit => CanFallBack
  BY DEF LoginsInit, Init, CanFallBack
<1>2. OwnInv /\ OwnCalmInv /\ CanFallBack /\ [LoginsNext]_loginsVars => CanFallBack'
  <2> SUFFICES ASSUME OwnInv, OwnCalmInv, CanFallBack, [LoginsNext]_loginsVars
               PROVE  CanFallBack'
    OBVIOUS
  <2>1. CASE [Next]_vars  BY <2>1, CanFallBackStep
  <2>2. CASE UNCHANGED private
    BY <2>2 DEF CanFallBack, private, supVars
  <2> QED BY <2>1, <2>2, LoginsStep DEF OwnInv
<1>3. OwnCalmInv /\ CanFallBack
        => [Step => (panicked' # panicked => provoked' # {})]_loginsVars
  BY CanFallBackStep DEF Step
<1> QED
  BY <1>1, <1>2, <1>3, EachLoginInvariant, PTL DEF LoginsSpec
=============================================================================
