------------------------------- MODULE Portal -------------------------------
(***************************************************************************)
(* A chat in both directions: HandleMatrixMessage and CreateMessage send to *)
(* GroupMe, HandleTextMessage queues what GroupMe pushes (pkg/connector,    *)
(* pkg/groupmeclient).                                                      *)
(*                                                                          *)
(* mautrix handles the events of a portal one after the other and skips a   *)
(* remote message whose id is in its database. GroupMe pushes to a user     *)
(* also what the user wrote, so every message sent comes back; it may come  *)
(* back several times (Connector.tla). What keeps it from being shown again *)
(* is the id HandleMatrixMessage returns, and nothing else: the request has *)
(* a new source_guid each time, and no timeout.                             *)
(***************************************************************************)
EXTENDS Naturals, Sequences

CONSTANTS
    Msg,        \* messages of the chat
    Mine,       \* those written in Matrix: each is sent once, by its user
    MaxCopies,  \* bound: how often one is pushed
    MaxCrashes  \* bound: restarts of the bridge

ASSUME MineAssumption == Mine \subseteq Msg
ASSUME BoundsAssumption == MaxCopies \in Nat /\ MaxCrashes \in Nat

VARIABLES
    queue,    \* the portal's events
    at,       \* where its goroutine is
    written,  \* sent in Matrix
    wire,     \* POST requests GroupMe has yet to act on
    posts,    \* how many messages of GroupMe's each became
    pushed,   \* how often each was pushed
    known,    \* message ids in the bridge's database
    shown,    \* how often the bridge wrote it to the room
    reply,    \* what HandleMatrixMessage returned for it
    crashes

netVars == <<wire, posts>>
vars == <<queue, at, written, netVars, pushed, known, shown, reply, crashes>>

Event == [kind : {"matrix", "remote"}, msg : Msg]

Replies == {"none", "ok", "error", "panic"}

\* Every variable stays in its range; the goroutine waits for an answer only
\* with the message it sent at the head of the queue.
TypeOK ==
    /\ queue \in Seq(Event)
    /\ at \in {"idle", "posting"}
    /\ at = "posting" => queue # <<>> /\ Head(queue).kind = "matrix"
    /\ written \subseteq Mine /\ wire \subseteq Mine
    /\ posts \in [Msg -> Nat]
    /\ pushed \in [Msg -> 0..MaxCopies]
    /\ known \subseteq Msg
    /\ shown \in [Msg -> Nat]
    /\ reply \in [Mine -> Replies]
    /\ crashes \in 0..MaxCrashes

Init ==
    /\ queue = <<>> /\ at = "idle" /\ written = {} /\ wire = {}
    /\ posts = [m \in Msg |-> 0] /\ pushed = [m \in Msg |-> 0]
    /\ known = {} /\ shown = [m \in Msg |-> 0]
    /\ reply = [m \in Mine |-> "none"] /\ crashes = 0

-----------------------------------------------------------------------------
(* The two sides.                                                             *)

\* A user writes in Matrix: mautrix queues it for the portal.
Write(m) ==
    /\ m \in Mine \ written
    /\ written' = written \cup {m}
    /\ queue' = Append(queue, [kind |-> "matrix", msg |-> m])
    /\ UNCHANGED <<at, netVars, pushed, known, shown, reply, crashes>>

\* Somebody writes in GroupMe.
WriteThere(m) ==
    /\ m \in Msg \ Mine /\ posts[m] = 0
    /\ posts' = [posts EXCEPT ![m] = 1]
    /\ UNCHANGED <<queue, at, written, wire, pushed, known, shown, reply, crashes>>

\* GroupMe acts on a request, at the latest when it gets there.
Accept(m) ==
    /\ m \in wire
    /\ wire' = wire \ {m}
    /\ posts' = [posts EXCEPT ![m] = @ + 1]
    /\ UNCHANGED <<queue, at, written, pushed, known, shown, reply, crashes>>

\* A push of it reaches a handler: HandleTextMessage queues a remote event.
HandleTextMessage(m) ==
    /\ posts[m] > 0 /\ pushed[m] < MaxCopies
    /\ pushed' = [pushed EXCEPT ![m] = @ + 1]
    /\ queue' = Append(queue, [kind |-> "remote", msg |-> m])
    /\ UNCHANGED <<at, written, netVars, known, shown, reply, crashes>>

-----------------------------------------------------------------------------
(* The portal's goroutine.                                                    *)

Upcoming(kind) == at = "idle" /\ queue # <<>> /\ Head(queue).kind = kind

Sending == Head(queue).msg

\* Mutant: the request is made in the background.
HandleMatrixMessageForks ==
    /\ Upcoming("matrix")
    /\ at' = "posting" /\ queue' = Tail(queue)
    /\ wire' = wire \cup {Sending}
    /\ UNCHANGED <<written, posts, pushed, known, shown, reply, crashes>>

\* HandleMatrixMessage: CreateMessage sends its POST.
HandleMatrixMessage ==
    /\ Upcoming("matrix")
    /\ at' = "posting"
    /\ wire' = wire \cup {Sending}
    /\ UNCHANGED <<queue, written, posts, pushed, known, shown, reply, crashes>>

Returns(r) ==
    /\ reply' = [reply EXCEPT ![Sending] = r]
    /\ at' = "idle" /\ queue' = Tail(queue)
    /\ UNCHANGED <<written, pushed, shown, crashes>>

\* Mutant: the database gets an id of the bridge's own, not the message's.
AnsweredOtherId ==
    /\ at = "posting" /\ posts[Sending] > 0
    /\ Returns("ok")
    /\ UNCHANGED <<known, netVars>>

\* The answer bears the message, and its id goes into the database.
Answered ==
    /\ at = "posting" /\ posts[Sending] > 0
    /\ Returns("ok")
    /\ known' = known \cup {Sending}
    /\ UNCHANGED netVars

\* Mutant: a failed request is made again.
FailsRetries ==
    /\ at = "posting"
    /\ at' = "idle"
    /\ UNCHANGED <<queue, written, netVars, pushed, known, shown, reply, crashes>>

\* Mutant: a failed message is queued once more.
FailsRequeues ==
    /\ at = "posting"
    /\ at' = "idle" /\ queue' = Append(Tail(queue), Head(queue))
    /\ UNCHANGED <<written, netVars, pushed, known, shown, reply, crashes>>

\* Mutant: what failed is not told.
FailsSilently ==
    /\ at = "posting"
    /\ at' = "idle" /\ queue' = Tail(queue)
    /\ UNCHANGED <<written, netVars, pushed, known, shown, reply, crashes>>

\* The request was refused, or lost before or after GroupMe acted on it, or its
\* answer does not decode: an error, and no second attempt.
Fails ==
    /\ at = "posting"
    /\ Returns("error")
    /\ UNCHANGED <<known, netVars>>

\* An answer without a message: the nil message is read. mautrix recovers.
Panics ==
    /\ at = "posting" /\ posts[Sending] > 0
    /\ Returns("panic")
    /\ UNCHANGED <<known, netVars>>

\* convertMessage, and its parts go into the room (Conversion.tla).
Show ==
    /\ Upcoming("remote") /\ Head(queue).msg \notin known
    /\ shown' = [shown EXCEPT ![Head(queue).msg] = @ + 1]
    /\ known' = known \cup {Head(queue).msg}
    /\ queue' = Tail(queue)
    /\ UNCHANGED <<at, written, netVars, pushed, reply, crashes>>

SkipKnown ==
    /\ Upcoming("remote") /\ Head(queue).msg \in known
    /\ queue' = Tail(queue)
    /\ UNCHANGED <<at, written, netVars, pushed, known, shown, reply, crashes>>

\* The bridge restarts: its queues are gone, its database is not.
Crash ==
    /\ crashes < MaxCrashes
    /\ crashes' = crashes + 1
    /\ queue' = <<>> /\ at' = "idle"
    /\ UNCHANGED <<written, netVars, pushed, known, shown, reply>>

-----------------------------------------------------------------------------
Work ==
    \/ HandleMatrixMessage \/ Answered \/ Fails \/ Panics
    \/ Show \/ SkipKnown

Next ==
    \/ \E m \in Msg : Write(m) \/ WriteThere(m) \/ Accept(m)
                      \/ HandleTextMessage(m)
    \/ Work \/ Crash

Spec == Init /\ [][Next]_vars

\* The goroutine runs. The HTTP client has no timeout: it is assumed that a
\* request is answered or fails.
FairSpec == Spec /\ WF_vars(Work)

-----------------------------------------------------------------------------
\* A message written in Matrix becomes at most one in GroupMe, however its request
\* fails, whenever GroupMe acts on it, and although the bridge may restart in
\* between (client.go:191, messages_api.go:131: a second attempt would bear another
\* source_guid, and be another message).
PostedAtMostOnce == \A m \in Mine : posts[m] <= 1

\* Each message appears in the room once: as the Matrix message it was made from,
\* if HandleMatrixMessage returned its id, or as the bridge's, however often and
\* however early it is pushed, while its answer is still on the way included.
appears ==
    [m \in Msg |->
        IF m \in Mine /\ reply[m] = "ok" THEN "confirmed"
        ELSE IF shown[m] > 0 THEN "shown" ELSE "not"]

Room == INSTANCE Timeline

OnceInTheRoom == Room!Spec

\* No message is shown twice, and none that its sender was told had been sent.
ShownOnce ==
    \A m \in Msg :
        /\ shown[m] <= 1
        /\ m \in Mine /\ reply[m] = "ok" => shown[m] = 0

\* HandleMatrixMessage comes to an end for every message written, and what is pushed
\* gets into the room, unless the bridge restarts meanwhile: no event, and no failed
\* request before it, blocks the portal for good.
EverythingEnds ==
    /\ \A m \in Mine : (m \in written) ~> (crashes > 0 \/ reply[m] # "none")
    /\ \A m \in Msg : (pushed[m] > 0) ~> (crashes > 0 \/ m \in known)
=============================================================================
