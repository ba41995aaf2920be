------------------------------- MODULE Members -------------------------------
(***************************************************************************)
(* Who is in a chat: HandleMembers and GetChatInfo (pkg/connector)           *)
(*                                                                          *)
(* GroupMe pushes a system message when members are added and another when  *)
(* one is removed. HandleMembers takes an addition as it is told, a list of *)
(* the added; for a removal it asks GroupMe for the group and lists         *)
(* everyone (IsFull). Either way it queues a change for the portal, whose   *)
(* goroutine (mautrix) applies one after the other to the Matrix room, and  *)
(* calls GetChatInfo to create the room when there is none.                 *)
(*                                                                          *)
(* Pushes need not be handled in the order they were sent: handleMessages   *)
(* hands each to a goroutine of its own (Delivery.tla).                     *)
(***************************************************************************)
EXTENDS Naturals, Sequences

CONSTANTS
    Member,      \* the users
    Loop,        \* HandleMessageLoop goroutines of the subscription
    NamesUser,   \* whether the member a push lists may bear a user_id, or may not
    MaxChanges,  \* bound: changes GroupMe makes to the group
    MaxLost,     \* bound: pushes lost
    MaxOther     \* bound: other events for the portal

ASSUME NamesUserAssumption == NamesUser \subseteq BOOLEAN /\ NamesUser # {}
ASSUME BoundsAssumption ==
    MaxChanges \in Nat /\ MaxLost \in Nat /\ MaxOther \in Nat

VARIABLES
    group,      \* GroupMe's members of the group ...
    kicked,     \* ... and which of them have autokicked set
    flight,     \* pushes sent and not yet taken by a loop
    changes,    \* how many changes GroupMe has made
    missed,     \* whose pushes were lost since the group was last asked for
    unnamed,    \* who was last added by a push without a user_id since then
    overtaken,  \* whose removal was taken, or lost, ahead of an older addition
    lost, others,
    at,         \* where each loop is
    held,       \* the push it handles
    list,       \* the members ShowGroup answered it
    queue,      \* the portal's events
    portal,     \* whether the room exists
    info,       \* the members GetChatInfo got
    room,       \* the joined members of the Matrix room
    crashed     \* a goroutine panicked: the process is gone

groupVars  == <<group, kicked, changes>>
pushVars   == <<flight, missed, unnamed, overtaken, lost>>
loopVars   == <<at, held, list>>
portalVars == <<portal, info, room>>
vars == <<groupVars, pushVars, loopVars, queue, others, portalVars, crashed>>

Push == [n : 1..MaxChanges, kind : {"added", "removed"}, who : Member]
NoPush == [n |-> 0, kind |-> "none"]

\* A change queued for the portal: ChatMemberList's IsFull and MemberMap.
Change == [full : BOOLEAN, members : SUBSET Member]

\* Every variable stays in its range.
TypeOK ==
    /\ group \subseteq Member /\ kicked \subseteq group
    /\ flight \subseteq Push /\ changes \in 0..MaxChanges
    /\ missed \subseteq Member /\ unnamed \subseteq Member /\ overtaken \subseteq Member
    /\ lost \in 0..MaxLost /\ others \in 0..MaxOther
    /\ at \in [Loop -> {"idle", "took", "fetched"}]
    /\ held \in [Loop -> Push \cup {NoPush}]
    /\ \A l \in Loop : held[l] = NoPush <=> at[l] = "idle"
    /\ list \in [Loop -> SUBSET Member]
    /\ queue \in Seq(Change)
    /\ portal \in {"none", "creating", "up"}
    /\ info \subseteq Member /\ room \subseteq Member
    /\ crashed \in BOOLEAN

Init ==
    /\ group \in SUBSET Member /\ kicked = {} /\ changes = 0
    /\ flight = {} /\ missed = {} /\ unnamed = {} /\ overtaken = {}
    /\ lost = 0 /\ others = 0
    /\ at = [l \in Loop |-> "idle"] /\ held = [l \in Loop |-> NoPush]
    /\ list = [l \in Loop |-> {}]
    /\ queue = <<>> /\ portal = "none" /\ info = {} /\ room = {}
    /\ crashed = FALSE

-----------------------------------------------------------------------------
(* GroupMe.                                                                   *)

Changed(kind, m) ==
    /\ changes < MaxChanges
    /\ changes' = changes + 1
    /\ flight' = flight \cup {[n |-> changes + 1, kind |-> kind, who |-> m]}
    /\ UNCHANGED <<missed, unnamed, overtaken, lost, loopVars, queue, others,
                   portalVars, crashed>>

Add(m) ==
    /\ m \notin group \/ m \in kicked
    /\ group' = group \cup {m} /\ kicked' = kicked \ {m}
    /\ Changed("added", m)

Remove(m) ==
    /\ m \in group
    /\ group' = group \ {m} /\ kicked' = kicked \ {m}
    /\ Changed("removed", m)

AutoKick(m) ==
    /\ m \in group \ kicked /\ changes < MaxChanges
    /\ kicked' = kicked \cup {m} /\ changes' = changes + 1
    /\ UNCHANGED <<group, pushVars, loopVars, queue, others, portalVars, crashed>>

\* p leaves the way to the loops; a removal that does so ahead of an older addition
\* of the same member will be undone by it.
Gone(p) ==
    /\ flight' = flight \ {p}
    /\ overtaken' =
         IF p.kind = "removed"
            /\ \E q \in flight : q.who = p.who /\ q.kind = "added" /\ q.n < p.n
         THEN overtaken \cup {p.who} ELSE overtaken

\* The session was down, or its subscription off the list.
Lose(p) ==
    /\ p \in flight /\ lost < MaxLost
    /\ lost' = lost + 1
    /\ Gone(p) /\ missed' = missed \cup {p.who}
    /\ UNCHANGED <<groupVars, unnamed, loopVars, queue, others, portalVars, crashed>>

-----------------------------------------------------------------------------
(* HandleMessageLoop and HandleMembers.                                       *)

Take(l, p) ==
    /\ ~crashed /\ at[l] = "idle" /\ p \in flight
    /\ Gone(p)
    /\ at' = [at EXCEPT ![l] = "took"]
    /\ held' = [held EXCEPT ![l] = p]
    /\ UNCHANGED <<groupVars, missed, unnamed, lost, list, queue, others, portalVars,
                   crashed>>

Idle(l) ==
    /\ at' = [at EXCEPT ![l] = "idle"]
    /\ held' = [held EXCEPT ![l] = NoPush]
    /\ list' = [list EXCEPT ![l] = {}]

\* Mutant: a member is listed under the id of the membership.
ListedById(p, names) == {p.n}

\* The members of the pushed message, under the user_id each bears: without one, a
\* member is listed under the empty id.
Listed(p, names) == IF names THEN {p.who} ELSE {}

Told(who, names) ==
    unnamed' = IF names THEN unnamed \ {who} ELSE unnamed \cup {who}

\* Mutant: an addition is queued as if it listed everyone.
HandleAddedAsFull(l) ==
    /\ ~crashed /\ at[l] = "took" /\ held[l].kind = "added"
    /\ \E names \in NamesUser :
         /\ queue' = Append(queue, [full |-> TRUE, members |-> Listed(held[l], names)])
         /\ Told(held[l].who, names)
    /\ Idle(l)
    /\ UNCHANGED <<groupVars, flight, missed, overtaken, lost, others, portalVars,
                   crashed>>

\* Mutant: the loop goes on without queueing an addition.
HandleAddedDropped(l) ==
    /\ ~crashed /\ at[l] = "took" /\ held[l].kind = "added"
    /\ Idle(l)
    /\ UNCHANGED <<groupVars, pushVars, queue, others, portalVars, crashed>>

\* added: the members told, whatever else is known.
HandleAdded(l) ==
    /\ ~crashed /\ at[l] = "took" /\ held[l].kind = "added"
    /\ \E names \in NamesUser :
         /\ queue' = Append(queue, [full |-> FALSE, members |-> Listed(held[l], names)])
         /\ Told(held[l].who, names)
    /\ Idle(l)
    /\ UNCHANGED <<groupVars, flight, missed, overtaken, lost, others, portalVars,
                   crashed>>

\* removed: ShowGroup answers with the group as it is by then, the autokicked
\* among the rest ...
HandleRemoved(l) ==
    /\ ~crashed /\ at[l] = "took" /\ held[l].kind = "removed"
    /\ at' = [at EXCEPT ![l] = "fetched"]
    /\ list' = [list EXCEPT ![l] = group]
    /\ missed' = {} /\ unnamed' = {}
    /\ UNCHANGED <<groupVars, flight, overtaken, lost, held, queue, others,
                   portalVars, crashed>>

\* ... or fails, and the id of the nil group is read for the log.
HandleRemovedFails(l) ==
    /\ ~crashed /\ at[l] = "took" /\ held[l].kind = "removed"
    /\ crashed' = TRUE
    /\ UNCHANGED <<groupVars, pushVars, loopVars, queue, others, portalVars>>

\* Mutant: IsFull is not set.
QueueRemovedPartial(l) ==
    /\ ~crashed /\ at[l] = "fetched"
    /\ queue' = Append(queue, [full |-> FALSE, members |-> list[l]])
    /\ Idle(l)
    /\ UNCHANGED <<groupVars, pushVars, others, portalVars, crashed>>

\* Everyone in the answer, and nobody else.
QueueRemoved(l) ==
    /\ ~crashed /\ at[l] = "fetched"
    /\ queue' = Append(queue, [full |-> TRUE, members |-> list[l]])
    /\ Idle(l)
    /\ UNCHANGED <<groupVars, pushVars, others, portalVars, crashed>>

\* Any other event for the portal: HandleJoin, a message, a new name.
OtherEvent ==
    /\ ~crashed /\ others < MaxOther
    /\ others' = others + 1
    /\ queue' = Append(queue, [full |-> FALSE, members |-> {}])
    /\ UNCHANGED <<groupVars, pushVars, loopVars, portalVars, crashed>>

-----------------------------------------------------------------------------
(* The portal's goroutine. Every event has CreatePortal set.                  *)

\* GetChatInfo: who is autokicked is listed as banned.
GetChatInfo ==
    /\ ~crashed /\ portal = "none" /\ queue # <<>>
    /\ portal' = "creating" /\ info' = group \ kicked
    /\ UNCHANGED <<groupVars, pushVars, loopVars, queue, others, room, crashed>>

\* It failed: no room, and the event that asked for it is dropped.
GetChatInfoFails ==
    /\ ~crashed /\ portal = "none" /\ queue # <<>>
    /\ queue' = Tail(queue)
    /\ UNCHANGED <<groupVars, pushVars, loopVars, others, portalVars, crashed>>

CreateRoom ==
    /\ ~crashed /\ portal = "creating"
    /\ portal' = "up" /\ room' = info /\ info' = {}
    /\ UNCHANGED <<groupVars, pushVars, loopVars, queue, others, crashed>>

Apply(c) == IF c.full THEN c.members ELSE room \cup c.members

HandleChange ==
    /\ ~crashed /\ portal = "up" /\ queue # <<>>
    /\ room' = Apply(Head(queue))
    /\ queue' = Tail(queue)
    /\ UNCHANGED <<groupVars, pushVars, loopVars, others, portal, info, crashed>>

-----------------------------------------------------------------------------
Handle(l) ==
    \/ HandleAdded(l) \/ HandleRemoved(l) \/ HandleRemovedFails(l)
    \/ QueueRemoved(l)

Portal == GetChatInfo \/ GetChatInfoFails \/ CreateRoom \/ HandleChange

Next ==
    \/ \E m \in Member : Add(m) \/ Remove(m) \/ AutoKick(m)
    \/ \E p \in flight : Lose(p) \/ \E l \in Loop : Take(l, p)
    \/ \E l \in Loop : Handle(l)
    \/ OtherEvent \/ Portal

Spec == Init /\ [][Next]_vars

\* Goroutines run: a push is taken in the end, and ShowGroup answers or fails.
Fairness ==
    /\ \A l \in Loop : WF_vars(Handle(l))
                       /\ WF_vars(\E p \in flight : Take(l, p))
    /\ WF_vars(Portal)

FairSpec == Spec /\ Fairness

-----------------------------------------------------------------------------
\* Nothing is on its way: what the room shows is what the bridge believes.
Quiet ==
    /\ ~crashed /\ portal = "up" /\ queue = <<>> /\ flight = {}
    /\ \A l \in Loop : at[l] = "idle"

\* Whoever is in the group is in the room once the bridge has caught up, unless the
\* last the bridge was told of them was lost or bore no user_id: partial additions and
\* full lists asked for at another time (handler.go:148-161) never cancel one another,
\* in whatever order pushes are handled and whatever GetChatInfo saw.
NobodyMissing == Quiet => group \ (kicked \cup missed \cup unnamed) \subseteq room

\* As HandleNewMembers is documented (real_time.go:96), a push tells who was added:
\* whoever is in the group and was not lost to a missed push is in the room.
AddedAreIn == Quiet => group \ (kicked \cup missed) \subseteq room

\* Whoever has left is not in the room once the bridge has caught up, unless a
\* push about them was lost or their removal was handled before an older addition,
\* which puts them back for good.
NobodyExtra == Quiet => room \subseteq group \cup missed \cup overtaken

\* Somebody who stays in the group, and was named, gets into its room: no sequence of additions,
\* removals, failed GetChatInfo calls and other events keeps them out for ever.
GetsIn ==
    \A m \in Member :
        (<>[](/\ m \in group \ (kicked \cup missed \cup unnamed)
             /\ portal = "up" /\ ~crashed))
            => <>[](m \in room)
=============================================================================
