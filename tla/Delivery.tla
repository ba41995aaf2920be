------------------------------ MODULE Delivery ------------------------------
(***************************************************************************)
(* The way of an incoming message from a decoded frame to the bridge's      *)
(* handlers: handleMessages in pkg/faye/faye_client.go, the channels and    *)
(* the HandleMessageLoop of pkg/groupmerealtime/real_time.go, the handlers  *)
(* of real_time_handlers.go and connector/handler.go.                       *)
(*                                                                          *)
(* Goroutines: one handleMessages per frame at work (frames), one sender    *)
(* per matched message blocked on its subscription's unbuffered channel     *)
(* (senders), one forwarder per subscription (forwarder), one message loop  *)
(* (loop). The list of subscriptions is FayeClient's; here it only changes. *)
(***************************************************************************)
EXTENDS Naturals, Sequences

CONSTANTS
    Msg, NoMsg,
    Sub,        \* the subscriptions that have been asked for
    Matches,    \* <<m, s>> such that m's channel matches s's pattern
    Kind,       \* what HandleMessageLoop makes of a message, see Kinds
    MaxFrame    \* bound: messages in one frame

\* "event": a handler queues one event for it. "removed": so does HandleMembers,
\* once GroupMe has told it the group. "skipped": no type, a ping, no subject, or a
\* handler that queues nothing. "unhandled": a type no handler is registered for.
Kinds == {"event", "removed", "skipped", "unhandled"}

ASSUME KindAssumption == Kind \in [Msg -> Kinds]
ASSUME NoMsgAssumption == NoMsg \notin Msg
ASSUME MatchesAssumption == Matches \subseteq Msg \X Sub
ASSUME MaxFrameAssumption == MaxFrame \in Nat \ {0}

VARIABLES
    sent,       \* messages the server has put into a frame
    frames,     \* what each running handleMessages has left of its frame
    listed,     \* FayeClient.subscriptions
    senders,    \* <<m, s>>: a goroutine in subscription.msgChan <- message
    forwarder,  \* the message a subscription's forwarder holds
    loop,       \* the message HandleMessageLoop is at
    accepted,   \* messages matched, history
    handled,    \* messages HandleMessageLoop is through with, history
    events,     \* events queued to the bridge for each message
    crashed     \* a nil handler called, a nil group or an empty frame read

vars == <<sent, frames, listed, senders, forwarder, loop, accepted, handled,
          events, crashed>>

\* The frames that carry messages; see ReceiveNothing for the others.
Frame == {f \in UNION {[1..n -> Msg] : n \in 1..MaxFrame} :
             \A i, j \in DOMAIN f : f[i] = f[j] => i = j}

\* Every variable stays in its range.
TypeOK ==
    /\ sent \subseteq Msg /\ listed \subseteq Sub
    /\ frames \subseteq Frame
    /\ senders \subseteq Msg \X Sub
    /\ forwarder \in [Sub -> Msg \cup {NoMsg}]
    /\ loop \in Msg \cup {NoMsg}
    /\ accepted \subseteq Msg /\ handled \subseteq Msg
    /\ events \in [Msg -> Nat]
    /\ crashed \in BOOLEAN

Init ==
    /\ sent = {} /\ frames = {} /\ listed = Sub /\ senders = {}
    /\ forwarder = [s \in Sub |-> NoMsg] /\ loop = NoMsg
    /\ accepted = {} /\ handled = {}
    /\ events = [m \in Msg |-> 0]
    /\ crashed = FALSE

-----------------------------------------------------------------------------
(* The environment: the server, and the resubscribe goroutines.               *)

Receive(f) ==
    /\ ~crashed
    /\ \A i \in DOMAIN f : f[i] \notin sent
    /\ sent' = sent \cup {f[i] : i \in DOMAIN f}
    /\ frames' = frames \cup {f}
    /\ UNCHANGED <<listed, senders, forwarder, loop, accepted, handled, events,
                   crashed>>

\* A panic: the process ends with everything where it is.
Crash ==
    /\ crashed' = TRUE
    /\ UNCHANGED <<sent, frames, listed, senders, forwarder, loop, accepted,
                   handled, events>>

\* A frame [] or null, whose first message decodeResponse returns all the same, or one
\* with null where a message should be, which the first to read that message meets.
ReceiveNothing == ~crashed /\ Crash

\* ResubscribeAll takes the subscriptions off the list, resubscribe puts one back.
Unlist ==
    /\ ~crashed /\ listed # {} /\ listed' = {}
    /\ UNCHANGED <<sent, frames, senders, forwarder, loop, accepted, handled,
                   events, crashed>>

Relist(s) ==
    /\ ~crashed /\ s \notin listed /\ listed' = listed \cup {s}
    /\ UNCHANGED <<sent, frames, senders, forwarder, loop, accepted, handled,
                   events, crashed>>

-----------------------------------------------------------------------------
(* handleMessages                                                             *)

\* Mutant: the loop over the frame runs one message too far.
RestTooFar(f) == {Tail(f)}

Rest(f) == IF Len(f) = 1 THEN {} ELSE {Tail(f)}

Receivers(m) == {s \in listed : <<m, s>> \in Matches}

\* The next message of a frame has no subscription on the list: a warning.
Unmatched(f) ==
    /\ ~crashed /\ f \in frames
    /\ Receivers(Head(f)) = {}
    /\ frames' = (frames \ {f}) \cup Rest(f)
    /\ UNCHANGED <<sent, listed, senders, forwarder, loop, accepted, handled,
                   events, crashed>>

\* Mutant: a message nobody waits for is dropped (select with default).
DispatchIfFree(f, s) ==
    /\ ~crashed /\ f \in frames
    /\ s \in Receivers(Head(f))
    /\ senders' = IF forwarder[s] = NoMsg
                  THEN senders \cup {<<Head(f), s>>} ELSE senders
    /\ accepted' = accepted \cup {Head(f)}
    /\ frames' = frames \ {f}
    /\ UNCHANGED <<sent, listed, forwarder, loop, handled, events, crashed>>

\* Mutant: every matching subscription gets the message.
DispatchToAll(f, s) ==
    /\ ~crashed /\ f \in frames
    /\ s \in Receivers(Head(f))
    /\ senders' = senders \cup {<<Head(f), q>> : q \in Receivers(Head(f))}
    /\ accepted' = accepted \cup {Head(f)}
    /\ frames' = frames \ {f}
    /\ UNCHANGED <<sent, listed, forwarder, loop, handled, events, crashed>>

\* It has: the first one gets the message, from a goroutine of its own, and the
\* function returns with the rest of the frame unseen.
Dispatch(f, s) ==
    /\ ~crashed /\ f \in frames
    /\ s \in Receivers(Head(f))
    /\ senders' = senders \cup {<<Head(f), s>>}
    /\ accepted' = accepted \cup {Head(f)}
    /\ frames' = frames \ {f}
    /\ UNCHANGED <<sent, listed, forwarder, loop, handled, events, crashed>>

-----------------------------------------------------------------------------
(* The channels: unbuffered, so a message moves when both ends are there.     *)

\* Mutant: the forwarder takes a message while it still holds one.
ForwardOver(m, s) ==
    /\ ~crashed /\ <<m, s>> \in senders
    /\ senders' = senders \ {<<m, s>>}
    /\ forwarder' = [forwarder EXCEPT ![s] = m]
    /\ UNCHANGED <<sent, frames, listed, loop, accepted, handled, events, crashed>>

Forward(m, s) ==
    /\ ~crashed /\ <<m, s>> \in senders /\ forwarder[s] = NoMsg
    /\ senders' = senders \ {<<m, s>>}
    /\ forwarder' = [forwarder EXCEPT ![s] = m]
    /\ UNCHANGED <<sent, frames, listed, loop, accepted, handled, events, crashed>>

LoopTake(s) ==
    /\ ~crashed /\ loop = NoMsg /\ forwarder[s] # NoMsg
    /\ loop' = forwarder[s]
    /\ forwarder' = [forwarder EXCEPT ![s] = NoMsg]
    /\ UNCHANGED <<sent, frames, listed, senders, accepted, handled, events,
                   crashed>>

-----------------------------------------------------------------------------
(* HandleMessageLoop                                                          *)

At(k) == ~crashed /\ loop # NoMsg /\ Kind[loop] = k

LoopDone ==
    /\ handled' = handled \cup {loop}
    /\ loop' = NoMsg
    /\ UNCHANGED <<sent, frames, listed, senders, forwarder, accepted, crashed>>

QueueEvent == events' = [events EXCEPT ![loop] = @ + 1]

Skip == At("skipped") /\ LoopDone /\ UNCHANGED events

HandleEvent == At("event") /\ QueueEvent /\ LoopDone

\* HandleMembers for a removed member asks GroupMe for the group ...
HandleRemoved == At("removed") /\ QueueEvent /\ LoopDone

\* ... and when that fails reads the id of the nil group it got.
RemovedFails == At("removed") /\ Crash

\* A type no handler is registered for is logged, and the nil handler called.
HandleUnknown == At("unhandled") /\ Crash

-----------------------------------------------------------------------------
Carry ==
    \/ \E f \in frames : Unmatched(f) \/ \E s \in Sub : Dispatch(f, s)
    \/ \E m \in Msg, s \in Sub : Forward(m, s)
    \/ \E s \in Sub : LoopTake(s)

Handle ==
    Skip \/ HandleEvent \/ HandleRemoved \/ RemovedFails \/ HandleUnknown

Next ==
    \/ (\E f \in Frame : Receive(f)) \/ ReceiveNothing
    \/ Unlist \/ \E s \in Sub : Relist(s)
    \/ Carry \/ Handle

\* Every goroutine that can run does, and among the senders of one channel and the
\* forwarders the loop receives from none waits for ever: a Go channel serves its
\* waiting goroutines first come, first served.
Fairness ==
    /\ \A p \in Matches : SF_vars(Forward(p[1], p[2]))
    /\ \A s \in Sub : SF_vars(LoopTake(s))
    /\ WF_vars(Handle)

Spec == Init /\ [][Next]_vars /\ Fairness

-----------------------------------------------------------------------------
\* An accepted message is in one place on its way, and a handled one in none: no
\* goroutine or channel between handleMessages (line 470) and HandleMessageLoop
\* (line 153) loses or doubles it, however they interleave.
Places(m) ==
    ({"sender"} \X {s \in Sub : <<m, s>> \in senders})
    \cup ({"forwarder"} \X {s \in Sub : forwarder[s] = m})
    \cup (IF loop = m THEN {<<"loop", NoMsg>>} ELSE {})

OnItsWay ==
    \A m \in accepted :
        IF m \in handled THEN Places(m) = {}
        ELSE \E p \in Places(m) : Places(m) = {p}

\* The bridge gets at most one event for a message, and none for one it has not
\* accepted.
AtMostOneEvent ==
    \A m \in Msg :
        events[m] = (IF m \in handled /\ Kind[m] # "skipped" THEN 1 ELSE 0)

\* The chain of goroutines does what Mailbox promises.
Box == INSTANCE Mailbox WITH up <- ~crashed
Promise == Box!Spec
=============================================================================
