----------------------------- MODULE FayeClient -----------------------------
(***************************************************************************)
(* The whole push client: FayeSession with its subscriptions                *)
(* (pkg/faye/faye_client.go). To the goroutines of the session it adds      *)
(*   - for a subscription being requested, the goroutine that requests it:  *)
(*     the caller of WaitSubscribe, or resubscribe (req);                   *)
(*   - its ping pollers, websocketPingPoll (poller).                        *)
(* None of them holds the mutex while it reads the transport, the client id *)
(* or the state; only resubscribe takes it to put its subscription back.    *)
(*                                                                          *)
(* The client id is not kept: what matters of it is whether it has changed  *)
(* since a message was built (current) or a request was accepted (valid).   *)
(***************************************************************************)
EXTENDS FayeSession

CONSTANTS
    Sub,         \* the subscriptions the bridge asks for
    Slot         \* ping pollers of one subscription that may live at once

ASSUME SlotAssumption == Slot # {}

VARIABLES
    listed,      \* FayeClient.subscriptions, as a set
    taken,       \* existingSubscriptions in ResubscribeAll, {} outside of it
    idChanged,   \* the last handshake answer changed clientID
    asked,       \* the subscriptions WaitSubscribe was called for
    req,         \* where the goroutine requesting a subscription is
    again,       \* that goroutine is resubscribe, not WaitSubscribe
    current,     \* no new client id has overtaken its request
    valid,       \* the last accepted request bore the current client id
    snapshot,    \* the list WaitSubscribe loaded before its append
    polling,     \* Subscription.polling
    stopPolling, \* Subscription.stopPolling
    poller,      \* where each websocketPingPoll goroutine is
    crashed      \* sendOnly reached HTTPTransport: panic("not implemented!")

idVars   == <<idChanged, current, valid>>
reqVars  == <<req, again, snapshot>>
pollVars == <<polling, stopPolling, poller>>
listVars == <<listed, taken, asked>>
subVars  == <<listVars, idVars, reqVars, pollVars, crashed>>
clientVars == <<vars, subVars>>

ReqPc == {"off", "building", "writing", "posting", "appending", "storing"}
PollerPc == {"off", "starting", "checking", "pinging", "ending"}

\* Every variable of session and subscriptions stays in its range.
ClientTypeOK ==
    /\ TypeOK
    /\ listed \subseteq Sub /\ taken \subseteq Sub /\ asked \subseteq Sub
    /\ idChanged \in BOOLEAN /\ crashed \in BOOLEAN
    /\ req \in [Sub -> ReqPc]
    /\ again \in [Sub -> BOOLEAN]
    /\ current \in [Sub -> BOOLEAN] /\ valid \in [Sub -> BOOLEAN]
    /\ snapshot \in [Sub -> SUBSET Sub]
    /\ polling \in [Sub -> BOOLEAN] /\ stopPolling \in [Sub -> BOOLEAN]
    /\ poller \in [Sub -> [Slot -> PollerPc]]

None == [s \in Sub |-> FALSE]

ClientInit ==
    /\ Init
    /\ listed = {} /\ taken = {} /\ asked = {}
    /\ idChanged = FALSE /\ crashed = FALSE
    /\ req = [s \in Sub |-> "off"] /\ again = None
    /\ current = None /\ valid = None
    /\ snapshot = [s \in Sub |-> {}]
    /\ polling = None /\ stopPolling = None
    /\ poller = [s \in Sub |-> [i \in Slot |-> "off"]]

Running == ~crashed /\ ~panicked

-----------------------------------------------------------------------------
(* The session's steps, with what they do to subscriptions.                   *)

SessionMoves ==
    /\ Running
    /\ Supervise \/ HandleAdvice \/ Environment \/ \E r \in Reader : Read(r)
    /\ UNCHANGED subVars

\* The request for a subscription has been built and is not yet forgotten.
InFlight(s) == req[s] \notin {"off", "building"}

\* A handshake answered. A new client id leaves messages already built, and
\* requests already accepted, with the old one.
Answered(o) ==
    /\ Running /\ HsAnswer(o)
    /\ \/ /\ idChanged' = TRUE
          /\ current' = [s \in Sub |-> current[s] /\ ~InFlight(s)]
          /\ valid' = None
       \/ /\ idChanged' = FALSE
          /\ UNCHANGED <<current, valid>>
    /\ UNCHANGED <<listVars, reqVars, pollVars, crashed>>

\* Mutant: the old id is read after the new one has been stored.
MustResubscribeNever == FALSE

\* if oldClientID != faye.clientID && len(faye.subscriptions) > 0
MustResubscribe == idChanged /\ listed # {}

HandshakeDone ==
    /\ Running /\ taken = {} /\ ~MustResubscribe
    /\ HsReturn
    /\ UNCHANGED subVars

\* ResubscribeAll copies the list ...
TakeExisting ==
    /\ Running /\ sup = "returning" /\ taken = {} /\ MustResubscribe
    /\ taken' = listed
    /\ UNCHANGED <<vars, listed, asked, idVars, reqVars, pollVars, crashed>>

\* Mutant: the list is not emptied.
ResubscribeAllKeepsList ==
    /\ Running /\ taken # {}
    /\ HsReturn
    /\ taken' = {}
    /\ stopPolling' = [s \in Sub |-> stopPolling[s] /\ s \notin taken]
    /\ req' = [s \in Sub |->
                 IF s \in taken /\ req[s] = "off" THEN "building" ELSE req[s]]
    /\ again' = [s \in Sub |-> again[s] \/ (s \in taken /\ req[s] = "off")]
    /\ UNCHANGED <<listed, asked, idVars, snapshot, polling, poller, crashed>>

\* ... empties it, and forks a resubscribe for each. No lock is taken.
ResubscribeAll ==
    /\ Running /\ taken # {}
    /\ HsReturn
    /\ listed' = {} /\ taken' = {}
    /\ stopPolling' = [s \in Sub |-> stopPolling[s] /\ s \notin taken]
    /\ req' = [s \in Sub |->
                 IF s \in taken /\ req[s] = "off" THEN "building" ELSE req[s]]
    /\ again' = [s \in Sub |-> again[s] \/ (s \in taken /\ req[s] = "off")]
    /\ UNCHANGED <<asked, idVars, snapshot, polling, poller, crashed>>

\* The reader closes the transport and tells the pollers of every listed
\* subscription to stop.
StopReading(r) ==
    /\ Running /\ CloseConn(r)
    /\ stopPolling' = [s \in Sub |-> stopPolling[s] \/ s \in listed]
    /\ UNCHANGED <<listVars, idVars, reqVars, polling, poller, crashed>>

-----------------------------------------------------------------------------
(* Requesting a subscription.                                                 *)

\* subscribeWithPrefix, once Setup has succeeded: concur admits one caller.
WaitSubscribe(s) ==
    /\ Running /\ s \notin asked
    /\ asked = {} => sup = "idle"
    /\ \A q \in asked : req[q] # "off" => again[q]
    /\ asked' = asked \cup {s}
    /\ req' = [req EXCEPT ![s] = "building"]
    /\ UNCHANGED <<vars, listed, taken, idVars, again, snapshot, pollVars, crashed>>

\* requestSubscription: the message takes the client id of now, and the type of the
\* transport of now decides how it is sent.
Build(s) ==
    /\ Running /\ req[s] = "building"
    /\ current' = [current EXCEPT ![s] = TRUE]
    /\ req' = [req EXCEPT ![s] =
                 IF transport = "websocket" THEN "writing" ELSE "posting"]
    /\ UNCHANGED <<vars, listVars, idChanged, valid, again, snapshot, pollVars,
                   crashed>>

\* The request is out (or accepted): it counts under the id its message bears.
Accept(s) ==
    /\ valid' = [valid EXCEPT ![s] = current[s]]
    /\ req' = [req EXCEPT ![s] = "appending"]

\* sendOnly wrote the message; nobody waits for the answer. A poller is started
\* unless the flag says there is one.
WriteOk(s) ==
    /\ Running /\ req[s] = "writing"
    /\ transport = "websocket" /\ wsConn \in open
    /\ Accept(s)
    /\ \/ polling[s] /\ UNCHANGED poller
       \/ /\ ~polling[s]
          /\ \E i \in Slot :
                /\ poller[s][i] = "off"
                /\ poller' = [poller EXCEPT ![s][i] = "starting"]
    /\ UNCHANGED <<vars, listVars, idChanged, current, again, snapshot, polling,
                   stopPolling, crashed>>

\* The write failed: again in a second, with a new message.
WriteErr(s) ==
    /\ Running /\ req[s] = "writing"
    /\ transport = "websocket" /\ wsConn \notin open
    /\ req' = [req EXCEPT ![s] = "building"]
    /\ UNCHANGED <<vars, listVars, idVars, again, snapshot, pollVars, crashed>>

\* By now a handshake has put an HTTPTransport there.
WriteCrash(s) ==
    /\ Running /\ req[s] = "writing" /\ transport = "long-polling"
    /\ crashed' = TRUE
    /\ UNCHANGED <<vars, listVars, idVars, reqVars, pollVars>>

\* Over HTTP the answer is awaited and its advice handled, accepted or not.
PostAnswered(s, a) ==
    /\ Running /\ req[s] = "posting"
    /\ SubscribeAnswered(a)
    /\ \/ Accept(s)
       \/ req' = [req EXCEPT ![s] = "building"] /\ UNCHANGED valid
    /\ UNCHANGED <<listVars, idChanged, current, again, snapshot, pollVars,
                   crashed>>

\* ... without advice, or not at all.
PostEnded(s) ==
    /\ Running /\ req[s] = "posting"
    /\ \/ Accept(s)
       \/ req' = [req EXCEPT ![s] = "building"] /\ UNCHANGED valid
    /\ UNCHANGED <<vars, listVars, idChanged, current, again, snapshot, pollVars,
                   crashed>>

\* ... with no message in it (response.go:118).
PostNoMessage(s) ==
    /\ Running /\ req[s] = "posting"
    /\ SubscribeNoMessage
    /\ UNCHANGED subVars

\* Mutant: resubscribe ends without putting its subscription back.
PutBackForgotten(s) ==
    /\ Running /\ req[s] = "appending" /\ again[s] /\ mutex = "free"
    /\ req' = [req EXCEPT ![s] = "off"]
    /\ again' = [again EXCEPT ![s] = FALSE]
    /\ UNCHANGED <<vars, listVars, idVars, snapshot, pollVars, crashed>>

\* resubscribe appends under the mutex and ends.
PutBack(s) ==
    /\ Running /\ req[s] = "appending" /\ again[s] /\ mutex = "free"
    /\ listed' = listed \cup {s}
    /\ req' = [req EXCEPT ![s] = "off"]
    /\ again' = [again EXCEPT ![s] = FALSE]
    /\ UNCHANGED <<vars, taken, asked, idVars, snapshot, pollVars, crashed>>

\* WaitSubscribe appends without it: it loads the list ...
AppendLoad(s) ==
    /\ Running /\ req[s] = "appending" /\ ~again[s]
    /\ snapshot' = [snapshot EXCEPT ![s] = listed]
    /\ req' = [req EXCEPT ![s] = "storing"]
    /\ UNCHANGED <<vars, listVars, idVars, again, pollVars, crashed>>

\* ... and stores the longer one, whatever has happened to it since.
AppendStore(s) ==
    /\ Running /\ req[s] = "storing"
    /\ listed' = snapshot[s] \cup {s}
    /\ snapshot' = [snapshot EXCEPT ![s] = {}]
    /\ req' = [req EXCEPT ![s] = "off"]
    /\ UNCHANGED <<vars, taken, asked, idVars, again, pollVars, crashed>>

-----------------------------------------------------------------------------
(* Pinging: websocketPingPoll.                                                *)

PollStart(s, i) ==
    /\ Running /\ poller[s][i] = "starting"
    /\ polling' = [polling EXCEPT ![s] = TRUE]
    /\ poller' = [poller EXCEPT ![s][i] = "checking"]
    /\ UNCHANGED <<vars, listVars, idVars, reqVars, stopPolling, crashed>>

\* Mutant: only the state is looked at.
PollCheckIgnoresStop(s, i) ==
    /\ Running /\ poller[s][i] = "checking"
    /\ poller' = [poller EXCEPT ![s][i] =
                    IF state = "CONNECTED" THEN "pinging" ELSE "ending"]
    /\ UNCHANGED <<vars, listVars, idVars, reqVars, polling, stopPolling, crashed>>

\* It wakes and looks at the state and at its flag.
PollCheck(s, i) ==
    /\ Running /\ poller[s][i] = "checking"
    /\ poller' = [poller EXCEPT ![s][i] =
                    IF state = "CONNECTED" /\ ~stopPolling[s]
                    THEN "pinging" ELSE "ending"]
    /\ UNCHANGED <<vars, listVars, idVars, reqVars, polling, stopPolling, crashed>>

\* Mutant: a failed ping resets the state itself.
PingResetsState(s, i) ==
    /\ Running /\ poller[s][i] = "pinging" /\ transport = "websocket"
    /\ poller' = [poller EXCEPT ![s][i] =
                    IF wsConn \in open THEN "checking" ELSE "ending"]
    /\ state' = IF wsConn \in open THEN state ELSE "UNCONNECTED"
    /\ UNCHANGED <<transport, netVars, mutex, supVars, readerVars, pending,
                   holdoff, faults, endVars, listVars, idVars, reqVars, polling,
                   stopPolling, crashed>>

\* The ping is written, and the poller sleeps; or the write fails, and it ends.
Ping(s, i) ==
    /\ Running /\ poller[s][i] = "pinging" /\ transport = "websocket"
    /\ poller' = [poller EXCEPT ![s][i] =
                    IF wsConn \in open THEN "checking" ELSE "ending"]
    /\ UNCHANGED <<vars, listVars, idVars, reqVars, polling, stopPolling, crashed>>

PingCrash(s, i) ==
    /\ Running /\ poller[s][i] = "pinging" /\ transport = "long-polling"
    /\ crashed' = TRUE
    /\ UNCHANGED <<vars, listVars, idVars, reqVars, pollVars>>

\* Mutant: the flag is left up.
PollEndKeepsFlag(s, i) ==
    /\ Running /\ poller[s][i] = "ending"
    /\ poller' = [poller EXCEPT ![s][i] = "off"]
    /\ UNCHANGED <<vars, listVars, idVars, reqVars, polling, stopPolling, crashed>>

PollEnd(s, i) ==
    /\ Running /\ poller[s][i] = "ending"
    /\ polling' = [polling EXCEPT ![s] = FALSE]
    /\ poller' = [poller EXCEPT ![s][i] = "off"]
    /\ UNCHANGED <<vars, listVars, idVars, reqVars, stopPolling, crashed>>

-----------------------------------------------------------------------------
Request(s) ==
    \/ Build(s) \/ WriteOk(s) \/ WriteErr(s) \/ WriteCrash(s) \/ PostEnded(s)
    \/ PostNoMessage(s)
    \/ \E a \in Advices : PostAnswered(s, a)
    \/ PutBack(s) \/ AppendLoad(s) \/ AppendStore(s)

PingPoll(s, i) ==
    \/ PollStart(s, i) \/ PollCheck(s, i) \/ Ping(s, i) \/ PingCrash(s, i)
    \/ PollEnd(s, i)

ClientNext ==
    \/ SessionMoves
    \/ \E o \in Offers : Answered(o)
    \/ HandshakeDone \/ TakeExisting \/ ResubscribeAll
    \/ \E r \in Reader : StopReading(r)
    \/ \E s \in Sub : WaitSubscribe(s) \/ Request(s)
    \/ \E s \in Sub, i \in Slot : PingPoll(s, i)

ClientSpec == ClientInit /\ [][ClientNext]_clientVars

\* A goroutine that can run does (WF); a Lock() whose mutex is free again and again
\* is granted (SF: sync.RWMutex queues its writers); a handshake asked again and
\* again is answered once, a request made again and again is written (or answered)
\* in the end. Nothing is assumed of frames, faults and bad answers: Recv, BadFrame,
\* Lose.
ClientFairness ==
    /\ SF_clientVars(Running /\ HsStart /\ UNCHANGED subVars)
    /\ SF_clientVars(\E o \in Offers : Answered(o))
    /\ WF_clientVars(Running /\ SupRuns /\ UNCHANGED subVars)
    /\ WF_clientVars(HandshakeDone \/ TakeExisting \/ ResubscribeAll)
    /\ WF_clientVars(Running /\ AdviceReturns /\ UNCHANGED subVars)
    /\ \A r \in Reader :
         /\ WF_clientVars(Running /\ ReadRuns(r) /\ UNCHANGED subVars)
         /\ WF_clientVars(StopReading(r))
    /\ \A s \in Sub :
         /\ WF_clientVars(WaitSubscribe(s))
         /\ WF_clientVars(Request(s))
         /\ SF_clientVars(WriteOk(s))
         /\ SF_clientVars(PostEnded(s) /\ req'[s] = "appending")
         /\ SF_clientVars(PutBack(s))
    /\ \A s \in Sub, i \in Slot : WF_clientVars(PingPoll(s, i))

FairClientSpec == ClientSpec /\ ClientFairness

-----------------------------------------------------------------------------
(* Safety.                                                                    *)

\* A raised polling flag has its poller: one that raised it and has yet to lower it,
\* possibly on its very last step, in which case a request made now starts none
\* (line 395). What cannot happen is that a reconnect, or a second poller of the same
\* subscription, leaves the flag up with all pollers gone: then no request would ever
\* start one again.
FlagHasItsPoller ==
    \A s \in Sub : polling[s] =>
        \E i \in Slot : poller[s][i] \in {"checking", "pinging", "ending"}

\* Through every reconnect a subscription is in exactly one place: on the list that
\* messages are matched against, or in the hands of one goroutine that asks for it
\* again and will put it back (lines 187-195, 199-208, 371-384).
InOnePlace ==
    \A s \in asked : (s \in listed) <=> (req[s] = "off")

\* A subscription on the list was accepted under the client id the server knows the
\* client by, or is about to be asked for again (line 365), with one exception: a
\* request that a handshake overtook is put on the list as it is (lines 195, 380).
ListedIsCurrent ==
    \A s \in listed :
        valid[s] \/ ~current[s] \/ panicked
            \/ (idChanged /\ sup \in {"selecting", "dialing", "returning"})

-----------------------------------------------------------------------------
(* Liveness.                                                                  *)

\* Readme.md: the real-time client attempts reconnection. Once Setup has succeeded,
\* and with fewer faults than StayConnectedLoop makes attempts, the session ends up
\* connected for good, whatever the faults hit and whatever requesters and pollers
\* do meanwhile, unless one of them ends the process.
Recovers == <>(sup = "idle") => <>[](Up \/ ~Running)

\* However the connection is lost and regained, with fewer faults than attempts a
\* subscription the bridge asked for ends up on the list for good.
SubscriptionKept ==
    <>(asked # {}) => <>[](asked \subseteq listed \/ ~Running)

\* Readme.md, "gracefully stop polling loops": a poller told to stop ends, unless
\* ResubscribeAll takes the order back first.
PollersStop ==
    \A s \in Sub : stopPolling[s] ~>
        (~stopPolling[s] \/ ~Running \/ \A i \in Slot : poller[s][i] = "off")

-----------------------------------------------------------------------------
(* What the repository says, and the code does not do.                        *)

\* "restart polling after successful reconnection" (Readme.md): in the end every
\* subscription of a client that is up over a websocket has a poller again.
PollingRestarts ==
    <>(asked # {}) => <>[](\/ ~Running \/ transport = "long-polling"
                           \/ \A s \in asked : \E i \in Slot : poller[s][i] # "off")
=============================================================================
