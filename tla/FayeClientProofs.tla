-------------------------- MODULE FayeClientProofs --------------------------
(***************************************************************************)
(* Proofs about FayeClient, for any number of subscriptions, pollers,       *)
(* connections and readers except where a theorem says otherwise.           *)
(*                                                                          *)
(* The client implements FayeSession, so what FayeSessionProofs proves of   *)
(* the session holds of the client; the rest is about subscriptions.        *)
(***************************************************************************)
EXTENDS FayeClient, FayeSessionProofs

-----------------------------------------------------------------------------
(* The client implements the session.                                         *)

\* A step of the client is a step of its session or leaves the session alone.
LEMMA ClientStepIsSessionStep == [ClientNext]_clientVars => [Next]_vars
<1> SUFFICES ASSUME [ClientNext]_clientVars PROVE [Next]_vars
  OBVIOUS
<1>1. CASE SessionMoves  BY <1>1 DEF SessionMoves, Next
<1>2. CASE \E o \in Offers : Answered(o)  BY <1>2 DEF Answered, Next
<1>3. CASE HandshakeDone \/ ResubscribeAll
  BY <1>3 DEF HandshakeDone, ResubscribeAll, Next
<1>4. CASE TakeExisting  BY <1>4 DEF TakeExisting
<1>5. CASE \E r \in Reader : StopReading(r)  BY <1>5 DEF StopReading, Next
<1>6. CASE \E s \in Sub : WaitSubscribe(s)  BY <1>6 DEF WaitSubscribe
<1>7. CASE \E s \in Sub : Request(s)
  <2> PICK s \in Sub : Request(s)  BY <1>7
  <2>1. CASE \E a \in Advices : PostAnswered(s, a)
    BY <2>1 DEF PostAnswered, AnyAdvice, Subscribe, Next
  <2>2. CASE ~\E a \in Advices : PostAnswered(s, a)
    BY <2>2
    DEF Request, Build, WriteOk, WriteErr, WriteCrash, PostEnded, PostNoMessage,
        Subscribe, Next, PutBack, AppendLoad, AppendStore
  <2> QED BY <2>1, <2>2
<1>8. CASE \E s \in Sub, i \in Slot : PingPoll(s, i)
  BY <1>8 DEF PingPoll, PollStart, PollCheck, Ping, PingCrash, PollEnd
<1>9. CASE UNCHANGED clientVars  BY <1>9 DEF clientVars
<1> QED
  BY <1>1, <1>2, <1>3, <1>4, <1>5, <1>6, <1>7, <1>8, <1>9 DEF ClientNext

\* Subscribing, resubscribing and pinging change nothing of the session except
\* through the session's own steps: every behaviour of the client is one of it.
THEOREM ImplementsSession == ClientSpec => Spec
<1>1. ClientInit => Init  BY DEF ClientInit
<1> QED BY <1>1, ClientStepIsSessionStep, PTL DEF ClientSpec, Spec

\* So the reader's unlocked reads of the transport are safe in the whole client, until
\* its server advises a handshake.
THEOREM ClientReadersExclude == ClientSpec => []ReaderExclusive
<1>1. Spec => []ReaderExclusive  BY ReadersExclude
<1> QED BY <1>1, ImplementsSession, PTL

\* And whatever subscribers and pollers do to the list and to their flags, a session
\* that is down is noticed, by whoever RecoveryNeverStalls names, and nobody of the
\* session calls a transport that is not there.
THEOREM ClientNeverStalls ==
  ClientSpec => [](ConnectedIsListening /\ DownIsNoticed /\ AdviceCanReturn /\ HasTransport)
<1>1. Spec => [](ConnectedIsListening /\ DownIsNoticed /\ AdviceCanReturn /\ HasTransport)
  BY Listening, RecoveryNeverStalls, TransportIsSet, PTL
<1> QED BY <1>1, ImplementsSession, PTL

-----------------------------------------------------------------------------
(* Types.                                                                     *)

SubTypeOK ==
    /\ listed \subseteq Sub /\ taken \subseteq Sub /\ asked \subseteq Sub
    /\ idChanged \in BOOLEAN /\ crashed \in BOOLEAN
    /\ req \in [Sub -> ReqPc]
    /\ again \in [Sub -> BOOLEAN]
    /\ current \in [Sub -> BOOLEAN] /\ valid \in [Sub -> BOOLEAN]
    /\ snapshot \in [Sub -> SUBSET Sub]
    /\ polling \in [Sub -> BOOLEAN] /\ stopPolling \in [Sub -> BOOLEAN]
    /\ poller \in [Sub -> [Slot -> PollerPc]]

\* The types of the subscription variables hold at the start ...
LEMMA SubTypeInit == ClientInit => SubTypeOK
  BY DEF ClientInit, SubTypeOK, None, ReqPc, PollerPc

\* ... a requester keeps them ...
LEMMA RequestTyped ==
  ASSUME SubTypeOK, NEW s \in Sub, Request(s)
  PROVE  SubTypeOK'
<1> USE DEF SubTypeOK, ReqPc, PollerPc, Accept, listVars, idVars, reqVars,
            pollVars, subVars
<1>1. CASE Build(s)  BY <1>1 DEF Build
<1>2. CASE WriteOk(s)
  <2>1. poller' \in [Sub -> [Slot -> PollerPc]]
    <3>1. CASE UNCHANGED poller  BY <3>1
    <3>2. ASSUME NEW i \in Slot,
                 poller' = [poller EXCEPT ![s][i] = "starting"]
          PROVE  poller' \in [Sub -> [Slot -> PollerPc]]
      BY <3>2
    <3> QED BY <1>2, <3>1, <3>2 DEF WriteOk
  <2> QED BY <1>2, <2>1 DEF WriteOk
<1>3. CASE WriteErr(s)  BY <1>3 DEF WriteErr
<1>4. CASE WriteCrash(s)  BY <1>4 DEF WriteCrash
<1>5. CASE PostEnded(s)  BY <1>5 DEF PostEnded
<1>6. CASE \E a \in Advices : PostAnswered(s, a)  BY <1>6 DEF PostAnswered
<1>7. CASE PutBack(s)  BY <1>7 DEF PutBack
<1>8. CASE AppendLoad(s)  BY <1>8 DEF AppendLoad
<1>9. CASE AppendStore(s)  BY <1>9 DEF AppendStore
<1>10. CASE PostNoMessage(s)  BY <1>10 DEF PostNoMessage
<1> QED
  BY <1>1, <1>2, <1>3, <1>4, <1>5, <1>6, <1>7, <1>8, <1>9, <1>10 DEF Request

\* ... and so does everybody else.
LEMMA SubTypeStep == SubTypeOK /\ [ClientNext]_clientVars => SubTypeOK'
<1> SUFFICES ASSUME SubTypeOK, [ClientNext]_clientVars PROVE SubTypeOK'
  OBVIOUS
<1> USE DEF SubTypeOK, ReqPc, PollerPc, subVars, listVars, idVars, reqVars,
            pollVars
<1>1. CASE SessionMoves  BY <1>1 DEF SessionMoves
<1>2. CASE \E o \in Offers : Answered(o)  BY <1>2 DEF Answered, None
<1>3. CASE HandshakeDone  BY <1>3 DEF HandshakeDone
<1>4. CASE TakeExisting  BY <1>4 DEF TakeExisting
<1>5. CASE ResubscribeAll  BY <1>5 DEF ResubscribeAll
<1>6. CASE \E r \in Reader : StopReading(r)  BY <1>6 DEF StopReading
<1>7. CASE \E s \in Sub : WaitSubscribe(s)  BY <1>7 DEF WaitSubscribe
<1>8. CASE \E s \in Sub : Request(s)  BY <1>8, RequestTyped
<1>9. CASE \E s \in Sub, i \in Slot : PingPoll(s, i)
  <2> PICK s \in Sub, i \in Slot : PingPoll(s, i)  BY <1>9
  <2>1. CASE PollStart(s, i)  BY <2>1 DEF PollStart
  <2>2. CASE PollCheck(s, i)  BY <2>2 DEF PollCheck
  <2>3. CASE Ping(s, i)  BY <2>3 DEF Ping
  <2>4. CASE PingCrash(s, i)  BY <2>4 DEF PingCrash
  <2>5. CASE PollEnd(s, i)  BY <2>5 DEF PollEnd
  <2> QED BY <2>1, <2>2, <2>3, <2>4, <2>5 DEF PingPoll
<1>10. CASE UNCHANGED clientVars  BY <1>10 DEF clientVars
<1> QED
  BY <1>1, <1>2, <1>3, <1>4, <1>5, <1>6, <1>7, <1>8, <1>9, <1>10
  DEF ClientNext

\* The subscription variables stay in their ranges (Subscription, faye.go:33-38).
THEOREM SubTypes == ClientSpec => []SubTypeOK
  BY SubTypeInit, SubTypeStep, PTL DEF ClientSpec

\* Session and subscriptions keep their types.
THEOREM ClientTypeCorrect == ClientSpec => []ClientTypeOK
<1>1. TypeOK /\ SubTypeOK => ClientTypeOK
  BY DEF ClientTypeOK, SubTypeOK
<1> QED BY <1>1, SubTypes, TypeCorrect, ImplementsSession, PTL

-----------------------------------------------------------------------------
(* The polling flag.                                                          *)

\* Whoever raises a polling flag is a poller, and ends by lowering it.
LEMMA PollFlagStep ==
  SubTypeOK /\ FlagHasItsPoller /\ [ClientNext]_clientVars => FlagHasItsPoller'
<1> SUFFICES ASSUME SubTypeOK, FlagHasItsPoller, [ClientNext]_clientVars
             PROVE  FlagHasItsPoller'
  OBVIOUS
<1> USE DEF FlagHasItsPoller, SubTypeOK
<1>1. CASE UNCHANGED <<polling, poller>>  BY <1>1
<1>2. CASE \E s \in Sub : WriteOk(s)
  <2> PICK s \in Sub : WriteOk(s)  BY <1>2
  <2>1. CASE UNCHANGED poller  BY <2>1 DEF WriteOk
  <2>2. ASSUME NEW i \in Slot, ~polling[s],
               poller' = [poller EXCEPT ![s][i] = "starting"]
        PROVE  FlagHasItsPoller'
    <3>1. UNCHANGED polling  BY DEF WriteOk
    <3>2. \A q \in Sub : polling'[q] => q # s /\ poller'[q] = poller[q]
      BY <2>2, <3>1
    <3> QED BY <3>1, <3>2
  <2> QED BY <2>1, <2>2 DEF WriteOk
<1>3. ASSUME NEW s \in Sub, NEW i \in Slot, PingPoll(s, i)
      PROVE  FlagHasItsPoller'
  <2>1. \A q \in Sub : q # s => poller'[q] = poller[q] /\ polling'[q] = polling[q]
    BY <1>3
    DEF PingPoll, PollStart, PollCheck, Ping, PingCrash, PollEnd, pollVars
  <2>2. CASE PollEnd(s, i)
    <3>1. ~polling'[s]  BY <2>2 DEF PollEnd
    <3> QED BY <2>1, <3>1
  <2>3. CASE PollStart(s, i)
    <3>1. poller'[s][i] = "checking"  BY <2>3 DEF PollStart
    <3> QED BY <2>1, <3>1
  <2>4. CASE PollCheck(s, i) \/ Ping(s, i)
    <3>1. poller'[s][i] \in {"checking", "pinging", "ending"}
      BY <2>4 DEF PollCheck, Ping
    <3> QED BY <2>1, <3>1
  <2>5. CASE PingCrash(s, i)  BY <2>5 DEF PingCrash, pollVars
  <2> QED BY <1>3, <2>2, <2>3, <2>4, <2>5 DEF PingPoll
<1>4. (\E s \in Sub : WriteOk(s)) \/ (\E s \in Sub, i \in Slot : PingPoll(s, i))
        \/ UNCHANGED <<polling, poller>>
  BY DEF ClientNext, SessionMoves, Answered, HandshakeDone, TakeExisting,
         ResubscribeAll, StopReading, WaitSubscribe, Request, Build, WriteErr,
         WriteCrash, PostEnded, PostAnswered, PostNoMessage, PutBack, AppendLoad,
         AppendStore, subVars, pollVars, clientVars
<1> QED BY <1>1, <1>2, <1>3, <1>4

\* The flag that keeps a request from starting a poller never outlives the pollers:
\* one of them has yet to take it down, for any number of subscriptions and pollers.
THEOREM FlagKept == ClientSpec => []FlagHasItsPoller
<1>1. ClientInit => FlagHasItsPoller
  BY DEF ClientInit, FlagHasItsPoller, None
<1> QED BY <1>1, PollFlagStep, SubTypes, PTL DEF ClientSpec

-----------------------------------------------------------------------------
(* Pollers that are told to stop.                                             *)

\* The steps a poller that is told to stop has to take at most before it ends.
StepsFrom(place) ==
    CASE place = "off"      -> 0
      [] place = "ending"   -> 1
      [] place = "checking" -> 2
      [] place = "pinging"  -> 3
      [] place = "starting" -> 4

\* While the order stands each step of the poller brings its end nearer or ends the
\* process, and nobody else's step puts it off: neither a request that starts another
\* poller, nor a handshake, nor a poller of the same subscription that ends first.
WindsDown(s, i) ==
    /\ PingPoll(s, i) =>
         crashed' \/ StepsFrom(poller'[s][i]) < StepsFrom(poller[s][i])
    /\ poller[s][i] # "off" =>
         StepsFrom(poller'[s][i]) <= StepsFrom(poller[s][i])

\* Whoever is not a poller itself starts one, in a place that was free, or touches none.
LEMMA OthersLeavePollers ==
  ASSUME SubTypeOK, [ClientNext]_clientVars,
         ~\E s \in Sub, i \in Slot : PingPoll(s, i),
         NEW s \in Sub, NEW i \in Slot, poller[s][i] # "off"
  PROVE  poller'[s][i] = poller[s][i]
<1>1. CASE \E q \in Sub : WriteOk(q)
  <2>1. PICK q \in Sub : WriteOk(q)  BY <1>1
  <2>2. CASE UNCHANGED poller  BY <2>2
  <2>3. ASSUME NEW j \in Slot, poller[q][j] = "off",
               poller' = [poller EXCEPT ![q][j] = "starting"]
        PROVE  poller'[s][i] = poller[s][i]
    BY <2>3 DEF SubTypeOK
  <2> QED BY <2>1, <2>2, <2>3 DEF WriteOk
<1>2. (\E q \in Sub : WriteOk(q)) \/ UNCHANGED poller
  BY DEF ClientNext, SessionMoves, Answered, HandshakeDone, TakeExisting,
         ResubscribeAll, StopReading, WaitSubscribe, Request, Build, WriteErr,
         WriteCrash, PostEnded, PostAnswered, PostNoMessage, PutBack, AppendLoad,
         AppendStore, subVars, pollVars, clientVars
<1> QED BY <1>1, <1>2

\* A poller's own step, with the order to stop given.
LEMMA PollerWindsDown ==
  ASSUME SubTypeOK, NEW s \in Sub, NEW i \in Slot, stopPolling[s], PingPoll(s, i)
  PROVE  \/ crashed' /\ poller' = poller
         \/ StepsFrom(poller'[s][i]) < StepsFrom(poller[s][i])
<1>1. CASE PollStart(s, i)
  <2>1. poller[s][i] = "starting" /\ poller'[s][i] = "checking"
    BY <1>1 DEF PollStart, SubTypeOK
  <2> QED BY <2>1 DEF StepsFrom
<1>2. CASE PollCheck(s, i)
  <2>1. poller[s][i] = "checking" /\ poller'[s][i] = "ending"
    BY <1>2 DEF PollCheck, SubTypeOK
  <2> QED BY <2>1 DEF StepsFrom
<1>3. CASE Ping(s, i)
  <2>1. poller[s][i] = "pinging" /\ poller'[s][i] \in {"checking", "ending"}
    BY <1>3 DEF Ping, SubTypeOK
  <2> QED BY <2>1 DEF StepsFrom
<1>4. CASE PingCrash(s, i)  BY <1>4 DEF PingCrash, pollVars
<1>5. CASE PollEnd(s, i)
  <2>1. poller[s][i] = "ending" /\ poller'[s][i] = "off"
    BY <1>5 DEF PollEnd, SubTypeOK
  <2> QED BY <2>1 DEF StepsFrom
<1> QED BY <1>1, <1>2, <1>3, <1>4, <1>5 DEF PingPoll

\* A step of one poller is none of another.
LEMMA OnePollerSteps ==
  ASSUME SubTypeOK, NEW s \in Sub, NEW i \in Slot, PingPoll(s, i),
         NEW q \in Sub, NEW j \in Slot, <<q, j>> # <<s, i>>
  PROVE  poller'[q][j] = poller[q][j]
BY DEF SubTypeOK, PingPoll, PollStart, PollCheck, Ping, PingCrash, PollEnd, pollVars

\* However many pollers a subscription has, each that was told to stop ends after at
\* most four more steps of its own (faye_client.go:270-296): the safety behind
\* PollersStop.
THEOREM PollersWindDown ==
  ClientSpec =>
    [][\A s \in Sub, i \in Slot : stopPolling[s] => WindsDown(s, i)]_clientVars
<1>1. ASSUME SubTypeOK, [ClientNext]_clientVars,
             NEW s \in Sub, NEW i \in Slot, stopPolling[s]
      PROVE  WindsDown(s, i)
  <2>1. StepsFrom(poller[s][i]) \in Nat
    <3>1. poller[s][i] \in PollerPc  BY <1>1 DEF SubTypeOK
    <3> QED BY <3>1 DEF StepsFrom, PollerPc
  <2>2. StepsFrom(poller'[s][i]) \in Nat
    <3>1. SubTypeOK'  BY <1>1, SubTypeStep
    <3>2. poller'[s][i] \in PollerPc  BY <3>1 DEF SubTypeOK
    <3> QED BY <3>2 DEF StepsFrom, PollerPc
  <2>3. CASE PingPoll(s, i)
    <3>1. \/ crashed' /\ poller' = poller
          \/ StepsFrom(poller'[s][i]) < StepsFrom(poller[s][i])
      BY <1>1, <2>3, PollerWindsDown
    <3> QED BY <2>1, <2>2, <3>1 DEF WindsDown
  <2>4. CASE ~PingPoll(s, i)
    <3>1. poller[s][i] # "off" => poller'[s][i] = poller[s][i]
      <4>1. CASE \E q \in Sub, j \in Slot : PingPoll(q, j)
        <5>1. PICK q \in Sub, j \in Slot : PingPoll(q, j)  BY <4>1
        <5>2. <<s, i>> # <<q, j>>  BY <2>4, <5>1
        <5> QED BY <1>1, <5>1, <5>2, OnePollerSteps
      <4>2. CASE ~\E q \in Sub, j \in Slot : PingPoll(q, j)
        BY <1>1, <4>2, OthersLeavePollers
      <4> QED BY <4>1, <4>2
    <3> QED BY <2>1, <2>2, <2>4, <3>1 DEF WindsDown
  <2> QED BY <2>3, <2>4
<1>2. SubTypeOK /\ [ClientNext]_clientVars =>
        [\A s \in Sub, i \in Slot : stopPolling[s] => WindsDown(s, i)]_clientVars
  BY <1>1
<1> QED BY <1>2, SubTypes, PTL DEF ClientSpec

-----------------------------------------------------------------------------
(* Requesters and pollers find a transport.                                   *)

\* Only what was asked for is listed, copied, loaded, requested or pinged, and nothing
\* is asked for before there is a transport.
AskedInv ==
    /\ listed \subseteq asked /\ taken \subseteq asked
    /\ \A s \in Sub :
         /\ snapshot[s] \subseteq asked
         /\ req[s] # "off" => s \in asked
         /\ \A i \in Slot : poller[s][i] # "off" => s \in asked
    /\ asked # {} => transport # "nil"

\* A handshake replaces the transport by another one, never by none.
LEMMA TransportStays ==
  ASSUME [Next]_vars, transport # "nil" PROVE transport' # "nil"
<1>1. CASE Supervise \/ HsReturn \/ \E o \in Offers : HsAnswer(o)
  BY <1>1
  DEF Supervise, HsRefused, HsCheck, HsStart, HsSendErr, HsAnswer, HsCloseOld, HsNoWs,
      HsDialFail, FallBack, Die, HsDialOk, HsReturn, ConnectWsOk, ConnectWsErr,
      ConnectHttpOk, ConnectHttpRejected, ConnectHttpErr, SupWake, HsNoMessage,
      ConnectNoMessage, NoMessage
<1>2. CASE \E r \in Reader : Read(r) \/ CloseConn(r)
  BY <1>2
  DEF Read, ReadCall, ReadPanic, ReadErr, BadFrame, CloseConn, ResetState, Recv,
      RecvNoMessage, NoMessage, Die
<1>3. CASE HandleAdvice \/ Subscribe
  BY <1>3
  DEF HandleAdvice, AdviceLock, AdviceConnectWs, AdviceConnectHttp, AdviceHandshake,
      AdviceNone, AdviceNoMessage, Subscribe, SubscribeAnswered, SubscribeNoMessage,
      NoMessage, Die
<1>4. CASE Environment \/ UNCHANGED vars
  BY <1>4 DEF Environment, Tick, Lose, vars
<1> QED BY <1>1, <1>2, <1>3, <1>4 DEF Next

\* A requester hands on what was asked for.
LEMMA RequestKeepsAsked ==
  ASSUME SubTypeOK, AskedInv, NEW s \in Sub, Request(s), asked # {} => transport' # "nil"
  PROVE  AskedInv'
<1> USE DEF SubTypeOK, AskedInv, Accept, listVars, idVars, reqVars, pollVars, subVars
<1>1. req[s] # "off" /\ s \in asked
  BY DEF Request, Build, WriteOk, WriteErr, WriteCrash, PostEnded, PostAnswered,
         PostNoMessage, PutBack, AppendLoad, AppendStore
<1>2. CASE Build(s) \/ WriteErr(s) \/ WriteCrash(s) \/ PostNoMessage(s)
  BY <1>1, <1>2 DEF Build, WriteErr, WriteCrash, PostNoMessage
<1>3. CASE WriteOk(s)
  <2>1. \A q \in Sub, i \in Slot : poller'[q][i] # "off" => q \in asked
    <3>1. CASE UNCHANGED poller  BY <3>1
    <3>2. ASSUME NEW j \in Slot, poller' = [poller EXCEPT ![s][j] = "starting"]
          PROVE  \A q \in Sub, i \in Slot : poller'[q][i] # "off" => q \in asked
      <4>1. \A q \in Sub : q # s => poller'[q] = poller[q]  BY <3>2
      <4> QED BY <1>1, <4>1
    <3> QED BY <1>3, <3>1, <3>2 DEF WriteOk
  <2> QED BY <1>1, <1>3, <2>1 DEF WriteOk
<1>4. CASE PostEnded(s) \/ \E a \in Advices : PostAnswered(s, a)
  BY <1>1, <1>4 DEF PostEnded, PostAnswered
<1>5. CASE PutBack(s) \/ AppendLoad(s) \/ AppendStore(s)
  BY <1>1, <1>5 DEF PutBack, AppendLoad, AppendStore
<1> QED BY <1>2, <1>3, <1>4, <1>5 DEF Request

LEMMA AskedStep ==
  SubTypeOK /\ HasTransport /\ AskedInv /\ [ClientNext]_clientVars => AskedInv'
<1> SUFFICES ASSUME SubTypeOK, HasTransport, AskedInv, [ClientNext]_clientVars
             PROVE  AskedInv'
  OBVIOUS
<1>1. transport # "nil" => transport' # "nil"
  BY TransportStays, ClientStepIsSessionStep
<1>2. CASE \E s \in Sub : Request(s)
  BY <1>1, <1>2, RequestKeepsAsked DEF AskedInv
<1> USE DEF SubTypeOK, AskedInv, subVars, listVars, reqVars, pollVars
<1>3. CASE UNCHANGED <<listed, taken, asked, snapshot, req, poller>>
  BY <1>1, <1>3
<1>4. CASE TakeExisting \/ ResubscribeAll
  BY <1>1, <1>4 DEF TakeExisting, ResubscribeAll
<1>5. CASE \E s \in Sub : WaitSubscribe(s)
  <2>1. PICK s \in Sub : WaitSubscribe(s)  BY <1>5
  <2>2. transport # "nil"
    BY <2>1 DEF WaitSubscribe, HasTransport, TransportInUse
  <2> QED BY <1>1, <2>1, <2>2 DEF WaitSubscribe
<1>6. CASE \E s \in Sub, i \in Slot : PingPoll(s, i)
  <2>1. PICK s \in Sub, i \in Slot : PingPoll(s, i)  BY <1>6
  <2>2. poller[s][i] # "off" /\ UNCHANGED <<listed, taken, asked, snapshot, req>>
    BY <2>1 DEF PingPoll, PollStart, PollCheck, Ping, PingCrash, PollEnd
  <2>3. \A q \in Sub : q # s => poller'[q] = poller[q]
    BY <2>1 DEF PingPoll, PollStart, PollCheck, Ping, PingCrash, PollEnd
  <2> QED BY <1>1, <2>2, <2>3
<1>7. TakeExisting \/ ResubscribeAll \/ (\E s \in Sub : WaitSubscribe(s))
        \/ (\E s \in Sub : Request(s)) \/ (\E s \in Sub, i \in Slot : PingPoll(s, i))
        \/ UNCHANGED <<listed, taken, asked, snapshot, req, poller>>
  BY DEF ClientNext, SessionMoves, Answered, HandshakeDone, StopReading, clientVars
<1> QED BY <1>2, <1>3, <1>4, <1>5, <1>6, <1>7

\* Who asks for a subscription or pings has one of the two transports to call
\* (faye_client.go:284, 391).
UsersFindTransport ==
    \A s \in Sub :
        (req[s] # "off" \/ \E i \in Slot : poller[s][i] # "off")
            => transport \in TransportKind

\* Neither a request nor a ping calls a transport that is not there yet, for any number
\* of subscriptions and whatever handshakes go on beside them.
THEOREM SubscribersFindTransport == ClientSpec => []UsersFindTransport
<1>1. ClientInit => AskedInv
  BY DEF ClientInit, AskedInv
<1>2. ClientSpec => [](TypeOK /\ HasTransport)
  BY TypeCorrect, TransportIsSet, ImplementsSession, PTL
<1>3. TypeOK /\ AskedInv => UsersFindTransport
  BY DEF TypeOK, AskedInv, UsersFindTransport, TransportKind
<1> QED BY <1>1, <1>2, <1>3, AskedStep, SubTypes, PTL DEF ClientSpec

-----------------------------------------------------------------------------
(* One subscription, as in the bridge (connector/client.go:74).               *)

OneSubscription == \A s, t \in Sub : s = t

\* What InOnePlace needs to be inductive: only what was asked for is on the list or
\* being requested, and ResubscribeAll's copy is the list.
PlaceInv ==
    /\ InOnePlace
    /\ listed \subseteq asked
    /\ \A s \in Sub : req[s] # "off" => s \in asked
    /\ taken # {} => taken = listed

\* A single subscription goes from its requester to the list and back, one at a time.
LEMMA PlaceStep ==
  ASSUME OneSubscription
  PROVE  SubTypeOK /\ PlaceInv /\ [ClientNext]_clientVars => PlaceInv'
<1> SUFFICES ASSUME SubTypeOK, PlaceInv, [ClientNext]_clientVars PROVE PlaceInv'
  OBVIOUS
<1> USE DEF SubTypeOK, PlaceInv, InOnePlace, subVars, listVars, reqVars
<1>1. CASE UNCHANGED <<listed, taken, asked, req>>  BY <1>1
<1>2. CASE TakeExisting  BY <1>2 DEF TakeExisting
<1>3. CASE ResubscribeAll
  <2>1. \A s \in asked : s \in taken
    BY <1>3 DEF ResubscribeAll, OneSubscription
  <2> QED BY <1>3, <2>1 DEF ResubscribeAll
<1>4. ASSUME NEW s \in Sub, WaitSubscribe(s) PROVE PlaceInv'
  <2>1. \A q \in Sub : q = s  BY DEF OneSubscription
  <2>2. asked = {} /\ listed = {} /\ taken = {}
    BY <1>4, <2>1 DEF WaitSubscribe
  <2> QED BY <1>4, <2>1, <2>2 DEF WaitSubscribe
<1>5. ASSUME NEW s \in Sub, Request(s) PROVE PlaceInv'
  <2>1. \A q \in Sub : q = s  BY DEF OneSubscription
  <2>2. req[s] # "off" /\ s \in asked /\ listed = {} /\ taken = {}
    BY <1>5, <2>1
    DEF Request, Build, WriteOk, WriteErr, WriteCrash, PostEnded, PostAnswered,
        PostNoMessage, PutBack, AppendLoad, AppendStore
  <2>3. CASE PutBack(s) \/ AppendStore(s)
    BY <2>1, <2>2, <2>3 DEF PutBack, AppendStore
  <2>4. CASE ~PutBack(s) /\ ~AppendStore(s)
    <3>1. UNCHANGED <<listed, taken, asked>> /\ req'[s] # "off"
      BY <1>5, <2>2, <2>4
      DEF Request, Build, WriteOk, WriteErr, WriteCrash, PostEnded, PostAnswered,
          PostNoMessage, Accept, AppendLoad
    <3> QED BY <2>1, <2>2, <3>1
  <2> QED BY <2>3, <2>4
<1>6. TakeExisting \/ ResubscribeAll \/ (\E s \in Sub : WaitSubscribe(s))
        \/ (\E s \in Sub : Request(s)) \/ UNCHANGED <<listed, taken, asked, req>>
  BY DEF ClientNext, SessionMoves, Answered, HandshakeDone, StopReading,
         PingPoll, PollStart, PollCheck, Ping, PingCrash, PollEnd, clientVars
<1> QED BY <1>1, <1>2, <1>3, <1>4, <1>5, <1>6

\* The bridge's one subscription survives every reconnect: it is on the list or
\* one goroutine has it, never both and never neither.
THEOREM SubscriptionInOnePlace ==
  ASSUME OneSubscription
  PROVE  ClientSpec => []InOnePlace
<1>1. ClientInit => PlaceInv
  BY DEF ClientInit, PlaceInv, InOnePlace
<1>2. SubTypeOK /\ PlaceInv /\ [ClientNext]_clientVars => PlaceInv'
  BY PlaceStep
<1>3. PlaceInv => InOnePlace  BY DEF PlaceInv
<1> QED BY <1>1, <1>2, <1>3, SubTypes, PTL DEF ClientSpec

\* With PlaceInv, what ListedIsCurrent needs: an accepted request that no handshake
\* has overtaken was accepted under the current client id.
CurrentInv ==
    /\ ListedIsCurrent
    /\ \A s \in Sub :
         req[s] \in {"appending", "storing"} /\ current[s] => valid[s]

\* The session's own steps do not leave a handshake behind its resubscriptions.
LEMMA SessionKeepsCurrent ==
  ASSUME CurrentInv, SessionMoves PROVE CurrentInv'
<1>1. UNCHANGED <<listed, req, current, valid, idChanged>>
  BY DEF SessionMoves, subVars, listVars, idVars, reqVars
<1>2. ~panicked  BY DEF SessionMoves, Running
<1>3. sup \in {"selecting", "dialing", "returning"}
        => panicked' \/ sup' \in {"selecting", "dialing", "returning"}
  <2> SUFFICES ASSUME sup \in {"selecting", "dialing", "returning"}
               PROVE  panicked' \/ sup' \in {"selecting", "dialing", "returning"}
    OBVIOUS
  <2>1. CASE Supervise
    BY <2>1
    DEF Supervise, HsRefused, HsCheck, HsStart, HsSendErr, HsCloseOld, HsNoWs,
        HsDialFail, FallBack, Die, HsDialOk, ConnectWsOk, ConnectWsErr,
        ConnectHttpOk, ConnectHttpRejected, ConnectHttpErr, SupWake, HsNoMessage,
        ConnectNoMessage, NoMessage
  <2>2. CASE HandleAdvice
    <3>1. sup' = sup \/ panicked'
      BY <2>2
      DEF HandleAdvice, AdviceLock, AdviceConnectWs, AdviceNone, AdviceConnectHttp,
          AdviceHandshake, AdviceNoMessage, NoMessage, Die, supVars
    <3> QED BY <3>1
  <2>3. CASE Environment
    BY <2>3 DEF Environment, Tick, Lose, supVars
  <2>4. CASE \E r \in Reader : Read(r)
    BY <2>4
    DEF Read, ReadCall, ReadPanic, ReadErr, BadFrame, ResetState, Recv, RecvNoMessage,
        NoMessage, Die, supVars
  <2> QED BY <2>1, <2>2, <2>3, <2>4 DEF SessionMoves
<1> QED BY <1>1, <1>2, <1>3 DEF CurrentInv, ListedIsCurrent

\* A request is put on the list as it was accepted.
LEMMA RequestKeepsCurrent ==
  ASSUME OneSubscription, SubTypeOK, PlaceInv, CurrentInv, NEW s \in Sub, Request(s)
  PROVE  CurrentInv'
<1> USE DEF SubTypeOK, PlaceInv, InOnePlace, CurrentInv, ListedIsCurrent, listVars,
            idVars, reqVars, subVars
<1>1. \A q \in Sub : q = s  BY DEF OneSubscription
<1>2. req[s] # "off" /\ s \in asked /\ listed = {}
  BY <1>1
  DEF Request, Build, WriteOk, WriteErr, WriteCrash, PostEnded, PostAnswered,
      PostNoMessage, PutBack, AppendLoad, AppendStore
<1>3. CASE Build(s)  BY <1>1, <1>2, <1>3 DEF Build
<1>4. CASE WriteOk(s) \/ PostEnded(s) \/ \E a \in Advices : PostAnswered(s, a)
  BY <1>1, <1>2, <1>4 DEF WriteOk, PostEnded, PostAnswered, Accept
<1>5. CASE WriteErr(s) \/ WriteCrash(s) \/ AppendLoad(s)
  BY <1>1, <1>2, <1>5 DEF WriteErr, WriteCrash, AppendLoad
<1>6. CASE PutBack(s) \/ AppendStore(s)
  <2>1. req[s] \in {"appending", "storing"} /\ req'[s] = "off"
        /\ UNCHANGED <<current, valid>>
    BY <1>6 DEF PutBack, AppendStore
  <2>2. valid[s] \/ ~current[s]  BY <2>1
  <2>3. valid'[s] \/ ~current'[s]  BY <2>1, <2>2
  <2>4. req'[s] \notin {"appending", "storing"}  BY <2>1
  <2>5. listed' \subseteq Sub  BY <1>6 DEF PutBack, AppendStore
  <2> QED BY <1>1, <2>3, <2>4, <2>5
<1>7. CASE PostNoMessage(s)
  <2>1. panicked'  BY <1>7 DEF PostNoMessage, SubscribeNoMessage, NoMessage, Die
  <2> QED BY <1>7, <2>1 DEF PostNoMessage
<1> QED BY <1>3, <1>4, <1>5, <1>6, <1>7 DEF Request

\* The list is settled before the handshake returns.
LEMMA CurrentStep ==
  ASSUME OneSubscription
  PROVE  SubTypeOK /\ PlaceInv /\ CurrentInv /\ [ClientNext]_clientVars => CurrentInv'
<1> SUFFICES ASSUME SubTypeOK, PlaceInv, CurrentInv, [ClientNext]_clientVars
             PROVE  CurrentInv'
  OBVIOUS
<1>1. CASE SessionMoves  BY <1>1, SessionKeepsCurrent
<1>2. CASE \E s \in Sub : Request(s)  BY <1>2, RequestKeepsCurrent
<1> USE DEF SubTypeOK, CurrentInv, ListedIsCurrent, listVars, idVars, reqVars
<1>3. CASE \E o \in Offers : Answered(o)
  <2>1. /\ sup = "sending" /\ sup' = "selecting" /\ ~panicked
        /\ UNCHANGED <<listed, req>>
    BY <1>3 DEF Answered, HsAnswer, Running
  <2>2. CASE idChanged' = TRUE /\ current' = [s \in Sub |-> current[s] /\ ~InFlight(s)]
    <3>1. \A s \in Sub : req[s] \in {"appending", "storing"} => ~current'[s]
      BY <2>2 DEF InFlight
    <3> QED BY <2>1, <2>2, <3>1
  <2>3. CASE UNCHANGED <<current, valid>>
    BY <2>1, <2>3
  <2> QED BY <1>3, <2>2, <2>3 DEF Answered
<1>4. CASE HandshakeDone
  <2>1. (~idChanged \/ listed = {}) /\ ~panicked
        /\ UNCHANGED <<listed, req, current, valid>>
    BY <1>4 DEF HandshakeDone, MustResubscribe, Running, subVars
  <2> QED BY <2>1
<1>5. CASE ResubscribeAll
  <2>1. \A s \in Sub : req'[s] \in {req[s], "building"}
    BY <1>5 DEF ResubscribeAll
  <2> QED BY <1>5, <2>1 DEF ResubscribeAll
<1>6. CASE \E s \in Sub : WaitSubscribe(s)
  <2>1. PICK s \in Sub : WaitSubscribe(s)  BY <1>6
  <2>2. /\ \A q \in Sub : req'[q] \in {req[q], "building"}
        /\ UNCHANGED <<listed, current, valid, idChanged, sup, panicked>>
    BY <2>1 DEF WaitSubscribe, vars, supVars, endVars
  <2> QED BY <2>2
<1>7. CASE TakeExisting
  BY <1>7 DEF TakeExisting, vars, supVars, endVars
<1>8. CASE (\E r \in Reader : StopReading(r))
           \/ (\E s \in Sub, i \in Slot : PingPoll(s, i)) \/ UNCHANGED clientVars
  <2>1. UNCHANGED <<listed, req, current, valid, idChanged, sup, panicked>>
    BY <1>8
    DEF StopReading, CloseConn, PingPoll, PollStart, PollCheck, Ping, PingCrash, PollEnd,
        clientVars, subVars, vars, supVars, endVars
  <2> QED BY <2>1
<1> QED BY <1>1, <1>2, <1>3, <1>4, <1>5, <1>6, <1>7, <1>8 DEF ClientNext

\* After a handshake that changed the client id, the bridge's subscription is asked for
\* again, unless its request was just then on its way.
THEOREM ListIsCurrent ==
  ASSUME OneSubscription
  PROVE  ClientSpec => []ListedIsCurrent
<1>1. ClientInit => PlaceInv /\ CurrentInv
  BY DEF ClientInit, PlaceInv, InOnePlace, CurrentInv, ListedIsCurrent
<1>2. SubTypeOK /\ PlaceInv /\ [ClientNext]_clientVars => PlaceInv'
  BY PlaceStep
<1>3. SubTypeOK /\ PlaceInv /\ CurrentInv /\ [ClientNext]_clientVars => CurrentInv'
  BY CurrentStep
<1>4. CurrentInv => ListedIsCurrent  BY DEF CurrentInv
<1> QED BY <1>1, <1>2, <1>3, <1>4, SubTypes, PTL DEF ClientSpec
=============================================================================
