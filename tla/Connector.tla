------------------------------ MODULE Connector ------------------------------
(***************************************************************************)
(* Logging in, Connect and Disconnect: pkg/connector/login.go, connector.go *)
(* and client.go, with the PushSubscription each GroupmeClient owns         *)
(* (pkg/groupmerealtime/real_time.go).                                      *)
(*                                                                          *)
(* mautrix creates a GroupmeClient by LoadUserLogin or SubmitUserInput and  *)
(* calls Connect and Disconnect on the one it knows. Connect can run again, *)
(* and a new login can replace the GroupmeClient; neither stops what the    *)
(* earlier one started. A Connect that gets through leaves behind           *)
(*   - a handler in the list of the PushSubscription,                       *)
(*   - a FayeClient, here one link of FayeSession.tla and FayeClient.tla,   *)
(*   - a HandleMessageLoop and a StayConnectedLoop,                         *)
(*   - a subscription with its forwarder.                                   *)
(* One mutex of the process, concur, is held during a subscription request, *)
(* which is repeated until it is accepted.                                  *)
(***************************************************************************)
EXTENDS Naturals, FiniteSets

CONSTANTS
    Client,       \* GroupmeClient objects the process may create
    NoClient,
    Msg,          \* messages GroupMe pushes
    MaxConnects,  \* bound: calls of Connect on one GroupmeClient
    MaxLosses     \* bound: links lost

ASSUME NoClientAssumption == NoClient \notin Client
ASSUME BoundsAssumption == MaxConnects \in Nat \ {0} /\ MaxLosses \in Nat

Gen == 1..MaxConnects

VARIABLES
    client,     \* UserLogin.Client: the GroupmeClient mautrix knows
    token,      \* whether its AuthToken is there
    calls,      \* calls of Connect so far
    at,         \* where the latest one is
    rest,       \* whether Client, the REST client, is set
    knows,      \* whether userId is the account's
    handlers,   \* how often it is in the PushSubscription's handlers
    faye,       \* PushSubscription.fayeClient: the how manieth, 0 for nil
    link,       \* the session of each FayeClient
    listed,     \* the FayeClients that have the subscription
    loops,      \* HandleMessageLoop goroutines
    sups,       \* StayConnectedLoop goroutines
    concur,     \* who holds the mutex
    bad,        \* the bridge state last sent: StateBadCredentials or none
    orphaned,   \* a Setup failed after an earlier one had succeeded
    losses,
    copies,     \* copies of a message on their way to the loops
    to,         \* the GroupmeClient it was pushed to
    events,     \* events queued for it
    misjudged,  \* an event was queued without knowing the user
    crashed     \* a goroutine panicked: the process is gone

loginVars == <<client, token>>
callVars  == <<calls, at, rest, knows, bad>>
pushVars  == <<handlers, faye, listed, loops, sups, orphaned>>
linkVars  == <<link, losses>>
msgVars   == <<copies, to, events, misjudged>>
vars == <<loginVars, callVars, pushVars, linkVars, concur, msgVars, crashed>>

Place == {"idle", "user", "setup", "handshake", "locking", "requesting"}

\* Every variable stays in its range: no Connect adds more than one of anything.
TypeOK ==
    /\ client \in Client \cup {NoClient}
    /\ token \in [Client -> BOOLEAN]
    /\ calls \in [Client -> 0..MaxConnects]
    /\ at \in [Client -> Place]
    /\ rest \in [Client -> BOOLEAN] /\ knows \in [Client -> BOOLEAN]
    /\ bad \in [Client -> BOOLEAN] /\ orphaned \in [Client -> BOOLEAN]
    /\ handlers \in [Client -> 0..MaxConnects]
    /\ faye \in [Client -> 0..MaxConnects]
    /\ link \in [Client -> [Gen -> {"none", "up", "down"}]]
    /\ listed \in [Client -> SUBSET Gen]
    /\ loops \in [Client -> 0..MaxConnects]
    /\ sups \in [Client -> 0..MaxConnects]
    /\ concur \in Client \cup {NoClient}
    /\ losses \in 0..MaxLosses
    /\ copies \in [Msg -> 0..MaxConnects]
    /\ to \in [Msg -> Client \cup {NoClient}]
    /\ events \in [Msg -> Nat]
    /\ misjudged \in BOOLEAN /\ crashed \in BOOLEAN

Each(x) == [c \in Client |-> x]

Init ==
    /\ client = NoClient /\ token \in [Client -> BOOLEAN]
    /\ calls = Each(0) /\ at = Each("idle")
    /\ rest = Each(FALSE) /\ knows = Each(FALSE) /\ bad = Each(FALSE)
    /\ handlers = Each(0) /\ faye = Each(0) /\ orphaned = Each(FALSE)
    /\ link = Each([g \in Gen |-> "none"]) /\ listed = Each({})
    /\ loops = Each(0) /\ sups = Each(0)
    /\ concur = NoClient /\ losses = 0
    /\ copies = [m \in Msg |-> 0] /\ to = [m \in Msg |-> NoClient]
    /\ events = [m \in Msg |-> 0] /\ misjudged = FALSE
    /\ crashed = FALSE

-----------------------------------------------------------------------------
(* What mautrix does.                                                         *)

\* LoadUserLogin at the start, or SubmitUserInput. Every login gets the same empty
\* id (UserId is never set), so a new one replaces the GroupmeClient of the last.
Load(c) ==
    /\ ~crashed /\ client # c /\ calls[c] = 0
    /\ client' = c
    /\ UNCHANGED <<token, callVars, pushVars, linkVars, concur, msgVars, crashed>>

\* Disconnect, or LogoutRemote: the idle connections of the REST client are
\* closed. If there is none yet, a nil pointer is dereferenced.
Disconnect(c) ==
    /\ ~crashed /\ client = c
    /\ crashed' = ~rest[c]
    /\ UNCHANGED <<loginVars, callVars, pushVars, linkVars, concur, msgVars>>

-----------------------------------------------------------------------------
(* Connect.                                                                   *)

CallConnect(c) ==
    /\ ~crashed /\ client = c /\ at[c] = "idle" /\ calls[c] < MaxConnects
    /\ calls' = [calls EXCEPT ![c] = @ + 1]

Ends(c, isBad) ==
    /\ at' = [at EXCEPT ![c] = "idle"]
    /\ bad' = [bad EXCEPT ![c] = isBad]

NoToken(c) ==
    /\ CallConnect(c) /\ ~token[c]
    /\ Ends(c, TRUE)
    /\ UNCHANGED <<loginVars, rest, knows, pushVars, linkVars, concur, msgVars,
                   crashed>>

\* NewClient, and MyUser asks who the token belongs to.
AskUser(c) ==
    /\ CallConnect(c) /\ token[c]
    /\ rest' = [rest EXCEPT ![c] = TRUE]
    /\ at' = [at EXCEPT ![c] = "user"]
    /\ UNCHANGED <<loginVars, knows, bad, pushVars, linkVars, concur, msgVars,
                   crashed>>

\* Mutant: the user of the failed answer is kept.
NoUserKept(c) ==
    /\ ~crashed /\ at[c] = "user"
    /\ knows' = [knows EXCEPT ![c] = FALSE]
    /\ Ends(c, TRUE)
    /\ UNCHANGED <<loginVars, calls, rest, pushVars, linkVars, concur, msgVars,
                   crashed>>

NoUser(c) ==
    /\ ~crashed /\ at[c] = "user"
    /\ Ends(c, TRUE)
    /\ UNCHANGED <<loginVars, calls, rest, knows, pushVars, linkVars, concur,
                   msgVars, crashed>>

\* Mutant: a handler that is already there is not added again.
UserKnownOnce(c) ==
    /\ ~crashed /\ at[c] = "user"
    /\ knows' = [knows EXCEPT ![c] = TRUE]
    /\ handlers' = [handlers EXCEPT ![c] = 1]
    /\ at' = [at EXCEPT ![c] = "setup"]
    /\ UNCHANGED <<loginVars, calls, rest, bad, faye, listed, loops, sups,
                   orphaned, linkVars, concur, msgVars, crashed>>

\* Mutant: the handler is added by Connect and by Setup.
UserKnownTwice(c) ==
    /\ ~crashed /\ at[c] = "user"
    /\ knows' = [knows EXCEPT ![c] = TRUE]
    /\ handlers' = [handlers EXCEPT ![c] = @ + 2]
    /\ at' = [at EXCEPT ![c] = "setup"]
    /\ UNCHANGED <<loginVars, calls, rest, bad, faye, listed, loops, sups,
                   orphaned, linkVars, concur, msgVars, crashed>>

\* AddFullHandler: once more for every Connect that gets here.
UserKnown(c) ==
    /\ ~crashed /\ at[c] = "user"
    /\ knows' = [knows EXCEPT ![c] = TRUE]
    /\ handlers' = [handlers EXCEPT ![c] = @ + 1]
    /\ at' = [at EXCEPT ![c] = "setup"]
    /\ UNCHANGED <<loginVars, calls, rest, bad, faye, listed, loops, sups,
                   orphaned, linkVars, concur, msgVars, crashed>>

\* Setup replaces fayeClient before it knows whether the new one connects; what
\* supervisors an earlier Connect has left watch the new one from here on, and mend it
\* (Reconnect) or give up on it while Setup's own handshake is under way.
NewFaye(c) ==
    /\ ~crashed /\ at[c] = "setup"
    /\ faye' = [faye EXCEPT ![c] = @ + 1]
    /\ link' = [link EXCEPT ![c][faye[c] + 1] = "down"]
    /\ at' = [at EXCEPT ![c] = "handshake"]
    /\ UNCHANGED <<loginVars, calls, rest, knows, bad, handlers, listed, loops, sups,
                   orphaned, losses, concur, msgVars, crashed>>

\* Mutant: Connect goes on after a failed Setup.
SetupFailsIgnored(c) ==
    /\ ~crashed /\ at[c] = "handshake"
    /\ orphaned' = [orphaned EXCEPT ![c] = listed[c] # {}]
    /\ at' = [at EXCEPT ![c] = "locking"]
    /\ UNCHANGED <<loginVars, calls, rest, knows, bad, handlers, faye, listed, loops,
                   sups, linkVars, concur, msgVars, crashed>>

\* The link stays as it is: a supervisor may have mended it meanwhile.
SetupFails(c) ==
    /\ ~crashed /\ at[c] = "handshake"
    /\ orphaned' = [orphaned EXCEPT ![c] = listed[c] # {}]
    /\ Ends(c, TRUE)
    /\ UNCHANGED <<loginVars, calls, rest, knows, handlers, faye, listed, loops, sups,
                   linkVars, concur, msgVars, crashed>>

\* The link is up: go HandleMessageLoop(), go StayConnectedLoop().
Setup(c) ==
    /\ ~crashed /\ at[c] = "handshake"
    /\ link' = [link EXCEPT ![c][faye[c]] = "up"]
    /\ orphaned' = [orphaned EXCEPT ![c] = FALSE]
    /\ loops' = [loops EXCEPT ![c] = @ + 1]
    /\ sups' = [sups EXCEPT ![c] = @ + 1]
    /\ at' = [at EXCEPT ![c] = "locking"]
    /\ UNCHANGED <<loginVars, calls, rest, knows, bad, handlers, faye, listed, losses,
                   concur, msgVars, crashed>>

\* subscribeWithPrefix. fayeClient is set by now: ErrListenerNotStarted, and with
\* it Connect's last error branch, is never reached.
Lock(c) ==
    /\ ~crashed /\ at[c] = "locking" /\ concur = NoClient
    /\ concur' = c
    /\ at' = [at EXCEPT ![c] = "requesting"]
    /\ UNCHANGED <<loginVars, calls, rest, knows, bad, pushVars, linkVars, msgVars,
                   crashed>>

\* Mutant: the mutex is not released (a return ahead of the defer).
SubscribedKeepsLock(c) ==
    /\ ~crashed /\ at[c] = "requesting"
    /\ listed' = [listed EXCEPT ![c] = @ \cup {faye[c]}]
    /\ Ends(c, FALSE)
    /\ UNCHANGED <<loginVars, calls, rest, knows, handlers, faye, loops, sups,
                   orphaned, linkVars, concur, msgVars, crashed>>

\* Mutant: a client that has a subscription does not ask again.
SubscribedOnce(c) ==
    /\ ~crashed /\ at[c] = "requesting"
    /\ listed' = [listed EXCEPT ![c] = IF @ = {} THEN {faye[c]} ELSE @]
    /\ concur' = NoClient
    /\ Ends(c, FALSE)
    /\ UNCHANGED <<loginVars, calls, rest, knows, handlers, faye, loops, sups,
                   orphaned, linkVars, msgVars, crashed>>

\* WaitSubscribe's request was accepted; the forwarder starts. No bridge state is
\* sent: the last one stands, but for mautrix a Connect has ended well.
Subscribed(c) ==
    /\ ~crashed /\ at[c] = "requesting"
    /\ listed' = [listed EXCEPT ![c] = @ \cup {faye[c]}]
    /\ concur' = NoClient
    /\ Ends(c, FALSE)
    /\ UNCHANGED <<loginVars, calls, rest, knows, handlers, faye, loops, sups,
                   orphaned, linkVars, msgVars, crashed>>

-----------------------------------------------------------------------------
(* The links, and the supervisors that watch r.fayeClient, whichever it is.   *)

LinkLost(c, g) ==
    /\ ~crashed /\ link[c][g] = "up" /\ losses < MaxLosses
    /\ link' = [link EXCEPT ![c][g] = "down"]
    /\ losses' = losses + 1
    /\ UNCHANGED <<loginVars, callVars, pushVars, concur, msgVars, crashed>>

WatchedDown(c) == sups[c] > 0 /\ link[c][faye[c]] = "down"

Reconnect(c) ==
    /\ ~crashed /\ WatchedDown(c)
    /\ link' = [link EXCEPT ![c][faye[c]] = "up"]
    /\ UNCHANGED <<loginVars, callVars, pushVars, losses, concur, msgVars, crashed>>

\* Its attempts spent, a supervisor ends.
GiveUp(c) ==
    /\ ~crashed /\ WatchedDown(c)
    /\ sups' = [sups EXCEPT ![c] = @ - 1]
    /\ UNCHANGED <<loginVars, callVars, handlers, faye, listed, loops, orphaned,
                   linkVars, concur, msgVars, crashed>>

-----------------------------------------------------------------------------
(* Messages.                                                                  *)

Hearing(c) == {g \in listed[c] : link[c][g] = "up"}

\* A message to the account comes over every link that has the subscription.
Receive(c, m) ==
    /\ ~crashed /\ to[m] = NoClient /\ Hearing(c) # {}
    /\ to' = [to EXCEPT ![m] = c]
    /\ copies' = [copies EXCEPT ![m] = Cardinality(Hearing(c))]
    /\ UNCHANGED <<loginVars, callVars, pushVars, linkVars, concur, events,
                   misjudged, crashed>>

\* A loop calls every handler for a copy; HandleTextMessage compares the sender
\* with userId.
HandleMessage(c, m) ==
    /\ ~crashed /\ to[m] = c /\ copies[m] > 0 /\ loops[c] > 0
    /\ copies' = [copies EXCEPT ![m] = @ - 1]
    /\ events' = [events EXCEPT ![m] = @ + handlers[c]]
    /\ misjudged' = (misjudged \/ ~knows[c])
    /\ UNCHANGED <<loginVars, callVars, pushVars, linkVars, concur, to, crashed>>

-----------------------------------------------------------------------------
Connect(c) ==
    \/ NoToken(c) \/ AskUser(c) \/ NoUser(c) \/ UserKnown(c)
    \/ NewFaye(c) \/ SetupFails(c) \/ Setup(c) \/ Lock(c) \/ Subscribed(c)

Next ==
    \E c \in Client :
        \/ Load(c) \/ Disconnect(c) \/ Connect(c)
        \/ \E g \in Gen : LinkLost(c, g)
        \/ Reconnect(c) \/ GiveUp(c)
        \/ \E m \in Msg : Receive(c, m) \/ HandleMessage(c, m)

Spec == Init /\ [][Next]_vars

\* Connect runs: requests to GroupMe are answered or fail, a mutex that keeps
\* becoming free is granted (SF), and a subscription asked for again and again over
\* a link that keeps being up is accepted (SF). A supervisor reconnects or ends.
\* The loops handle what has arrived.
Fairness ==
    \A c \in Client :
        /\ WF_vars(NoUser(c) \/ UserKnown(c))
        /\ WF_vars(NewFaye(c) \/ SetupFails(c) \/ Setup(c))
        /\ SF_vars(Lock(c))
        /\ SF_vars(Subscribed(c) /\ link[c][faye[c]] = "up")
        /\ WF_vars(Reconnect(c) \/ GiveUp(c))
        /\ \A m \in Msg : WF_vars(HandleMessage(c, m))

FairSpec == Spec /\ Fairness

-----------------------------------------------------------------------------
\* As long as Connect has come as far as AddFullHandler (client.go:57) once, a message
\* makes one event at most: one handler means one FayeClient that was ever
\* subscribed and so one copy.
OneEventEach ==
    \A m \in Msg :
        to[m] # NoClient /\ handlers[to[m]] = 1 => copies[m] + events[m] <= 1

\* Who sent a message is judged only by a client that knows its own user
\* (handler.go:231), also while a later Connect fails to learn it again.
SenderKnown == ~misjudged

\* A subscription never outruns its loop: with no HandleMessageLoop on the
\* unbuffered channel every forwarder would block on its first message
\* (real_time.go:153, 245).
ForwardersServed == \A c \in Client : listed[c] # {} => loops[c] > 0

\* The FayeClient that supervisors keep connected is one that has the
\* subscription, however often Connect runs, except after a repeated Connect has
\* failed in Setup: that one replaces the watched FayeClient (real_time.go:180) by
\* one that nothing is subscribed to.
WatchedIsSubscribed ==
    \A c \in Client :
        at[c] = "idle" /\ listed[c] # {} /\ ~orphaned[c] => faye[c] \in listed[c]

\* A subscription is being asked for over a link that nobody will mend.
Stuck(c) ==
    at[c] = "requesting" /\ link[c][faye[c]] = "down" /\ sups[c] = 0

\* Every Connect ends, unless one of the process is stuck: its supervisors have
\* given up while it asks for its subscription, with concur held (real_time.go:234),
\* and every other login's Connect waits behind it.
ConnectEnds ==
    <>(crashed \/ \E c \in Client : Stuck(c))
        \/ \A c \in Client : at[c] # "idle" ~> at[c] = "idle"
=============================================================================
