# matrix-groupme-bridge: TLA+ models and proofs

The bridge connects GroupMe to Matrix. Requests go over a REST API; everything
GroupMe has to tell comes through a Bayeux ("faye") push client, written for this
bridge, that several goroutines share with little locking. That client, the
supervisor around it, the way of a message through it, and what the connector does
on both sides (logging in, members, messages in and out) carry the program's own
logic, and they are what is modelled here. Paths below are relative to `src/`.

## Inventory

| Part | State | Operations | What is hard | What makes it correct |
|---|---|---|---|---|
| **Faye session** `pkg/faye/faye_client.go`, `*_transport.go`, `transport.go`; `StayConnectedLoop` in `pkg/groupmerealtime/real_time.go` | `state`, `transport`, `clientID`, `nextHandshake`, `mutex`; `WebsocketTransport.connection` | `HandshakeAndConnect`, `websocketReadPoll`, `handleAdvice`, `Setup`, `StayConnectedLoop` | supervisor, reader and advice goroutines, of which two take the mutex and not always; the transport is swapped under all of them; connections end at any moment; answers that hold nothing; finitely many retries | somebody always listens while the state says connected; reader and handshake exclude one another; a lost session is regained; no panic without a cause in what the server sent |
| **Subscriptions and pollers** `faye_client.go`, `faye.go` | `subscriptions`, `Subscription.polling`, `.stopPolling` | `WaitSubscribe`, `ResubscribeAll`, `resubscribe`, `requestSubscription`, `websocketPingPoll` | the list is copied, emptied and refilled without a lock while the connection comes and goes; flags written by several goroutines | a subscription survives every reconnect, is in one place, does not keep its polling flag when its pollers are gone; pollers told to stop do |
| **Delivery** `handleMessages`, `subscribeWithPrefix`, `HandleMessageLoop`, the handler tables | goroutines blocked on unbuffered channels | receive, match, forward, handle | three stages of goroutines; overlapping patterns; handlers that fail | a matched message is handed over exactly once |
| **Membership** `HandleMembers`, `GetChatInfo` in `pkg/connector` | the list being put together; mautrix' queue and room | partial list of the added, full list after a removal, full list for a new room | lists of different moments queued in any order; lost pushes, and pushes that do not say whom; a room created in between | once caught up, the room has the members the bridge was told of and nobody who left |
| **Messages out and in** `HandleMatrixMessage`, `CreateMessage`, `HandleTextMessage` | none but the ids in mautrix' database | one POST; one event per push | lost answers, the echo ahead of the answer, restarts | each message once on either side |
| **Conversion** `convertMessage`, `pkg/util/media.go` | the parts so far | text, reply, download, upload, notice | transfers fail anywhere in the list | one part each, in order, losses told |
| **Other events** `pkg/connector/handler.go`, `real_time_handlers.go` | none | a handler per message type | unknown types | one event for one message |
| **Connector** `pkg/connector/client.go`, `login.go`, `connector.go` | `GroupmeClient`, its `PushSubscription`; `concur` | login, `Connect`, `Disconnect` | repeated `Connect`, a login that replaces another, failures at each stage, a mutex held during a network request | what is subscribed is watched, heard and handled once |
| **Relations paging** `pkg/groupmeclient/relations_api.go` | query cursor | `IndexAllRelations` | pages by a one-second timestamp, over a list that changes | every contact once, and an end |
| **REST client** `pkg/groupmeclient` | none | a request per call | errors of transport, status and decoding | |
| **Transport registry** `faye.go:14` | one list for the process | `selectTransport` | two logins share one `WebsocketTransport`, and each closes the other's connection | a login notices the end of its connection, and its reader and handshake stay apart |
| extensions, logging, `main`, `test/` | none | | I/O | |

How they interact: `Connect` builds a `FayeClient`, hands it to
`PushSubscription.Setup` (one handshake and connect) and subscribes to the user's
channel. `Setup` starts `StayConnectedLoop`, which polls `Connected()` and
reconnects. A connect over a websocket starts a reader; the reader decodes frames,
starts a goroutine for the advice in each, and matches messages to subscriptions.
A matched message goes by a goroutine of its own into the subscription's channel,
from there by a forwarder into the channel of the `PushSubscription`, and its
`HandleMessageLoop` calls the handlers, which queue events to mautrix. mautrix handles
the events of one portal one after the other, and calls back: `GetChatInfo` to create
a room, `convertMessage` to show a message, `HandleMatrixMessage` to send one.

## Modules

Written and checked:

| Module | What it is |
|---|---|
| `FayeSession` | the session: supervisor, readers, advice, the two transports |
| `FayeClient` | `FayeSession` with subscriptions, their requesters and pollers; each session step that touches a subscription is joined with what it does to it |
| `Mailbox` | abstract: an accepted message is handed over exactly once |
| `Delivery` | `handleMessages` to the handlers, shown to implement `Mailbox` |
| `Relations` | `GetUserInfo` and `IndexAllRelations` against a contact list that changes |
| `Logins` | two `FayeSession`s over the one registered `WebsocketTransport` |
| `Connector` | logins, `Connect`, `Disconnect`: how many handlers, loops, supervisors, FayeClients and subscriptions there are, and the mutex `concur` |
| `Members` | a group's members, the pushes about them, `HandleMembers`, `GetChatInfo`, and the portal they feed |
| `Timeline` | abstract: a message appears in its room at most once and stays |
| `Portal` | a chat in both directions, shown to implement `Timeline` |
| `Conversion` | `convertMessage` with the transfer of attachments |
| `FayeSessionProofs`, `FayeClientProofs`, `DeliveryProofs`, `RelationsProofs`, `ConnectorProofs`, `MembersProofs`, `PortalProofs`, `ConversionProofs` | theorems |
| `MCFayeSession`, `MCDelivery` | instances for TLC |

`FayeSession` is itself the abstract specification of `FayeClient`: the run
`client` has `Spec`, and `ImplementsSession` proves, that subscriptions and pollers
add nothing to the session's behaviour, so the session's safety carries over.

How the modules divide the bridge: `FayeSession` and `FayeClient` are one link to
GroupMe, `Connector` counts links and what hangs on them, `Delivery` is the way of a
message from a link to the handlers, `Members`, `Portal` and `Conversion` are what
comes of it. Each later module takes from the earlier ones what it needs as a step of
its environment: in `Connector` a link is up or down; in `Members` and `Portal` a push
may be lost, late, out of order (`Members`) or repeated (`Portal`).

Left of the plan:

1. `Delivery` and `FayeClient` in one: which messages a list that is being refilled
   misses, for a chain that starts at the frame.
2. The safety behind `SubscriptionKept`: a requester always has a step to take, unless it
   waits for a mutex whose holder has one.
3. Portal ids and the contents of the simple events, as operators.

## Correspondence with the code

**Goroutines.** `sup` is the supervisor's place in `HandshakeAndConnect`; `reader`
one `websocketReadPoll` each; `pending` counts `go handleAdvice(...)` goroutines
that have not taken the mutex; `req` is the caller of `WaitSubscribe` or
`resubscribe`; `poller` one `websocketPingPoll` each; in `Delivery`, `frames` holds
what each running `handleMessages` has left, `senders` the goroutines in
`subscription.msgChan <- message`, `forwarder` and `loop` the message each of those
goroutines holds.

**Grain.** A step ends where another goroutine can tell: at a lock or unlock, at a
read or write of a shared field another goroutine writes, at a send, read or dial.
`handshake` is `HsRefused`/`HsCheck` (line 304), `HsStart` (324-328), `HsSendErr`
or `HsAnswer` (332-354), `HsCloseOld`, `HsDialOk`/`HsDialFail`/`HsNoWs` (the
selection of line 355, the mutex held), `HsReturn` or `TakeExisting` and
`ResubscribeAll` (363-366). A reader's pass is `ReadCall`, then `Recv`, `ReadErr`
or `BadFrame`; its end `CloseConn`, then `ResetState`. Failed attempts are
`TryFailed`: `StayConnectedLoop` tries `Retries` times, `Setup` once.

**Races.** The reader's read of the interface-valued `transport` races with the
handshake's write. What a torn read could give is the type of one transport with
the data of the other; the outcomes the model keeps are those of the two untorn
values, a read of the websocket or the panic of `HTTPTransport`.
`ReaderExclusive` says there is no such race until advice to handshake has been
followed. After that the untorn values already panic (`ReadPanic`).

**Empty answers.** `decodeResponse` takes the first of the messages it decoded without
asking whether there is one (`response.go:118`), so `[]` and `null` decode and then
panic; `[null]` passes there and panics one call later, in whoever reads the message
first. `NoMessage` is all of these. It is a step of each place that decodes: the handshake
(`HsNoMessage`), a connect of the supervisor or of advice (`ConnectNoMessage`,
`AdviceNoMessage`), a frame (`RecvNoMessage`, in `Delivery` `ReceiveNothing`), a
subscription request (`SubscribeNoMessage`, `PostNoMessage`). An answer that is not JSON is
another matter: `HsSendErr`, `ConnectHttpErr`, `BadFrame`, `PostEnded`. A panic closes
everything (`Die`). `provoked` is history: what the server has done that the client cannot
take, which is advice to handshake, an offer without long-polling, or no message.

**Data.** Messages, connections and subscriptions are model values. A client id is
kept only as "changed since": `current` says that a request bears the id the client has
now, `valid` that a subscription was accepted under the id the server knows. The subscription list is a set:
its order decides only which of several matching patterns wins, and `Dispatch`
leaves that open. `Lock(); append; Unlock()` is one step. In `Delivery` a message
has a `Kind`, which stands for the two handler tables and `connector/handler.go`:
it queues an event, needs the group first, is skipped, or has no handler.
Advice without a `reconnect` field changes nothing and its goroutine is left out. A
connection nobody refers to any more goes back into the pool `Conn`.

**Environment.** `Lose` is a peer's close, a broken network or the 3-minute deadline
of a read (the websocket library closes the connection then). `Receive`, `Recv`,
`HsAnswer(o)` and the `Connect...` steps choose whatever the server may say.
`Unlist` and `Relist` stand in `Delivery` for what `FayeClient` does to the list.

**Paging.** `Relations` takes from the query that GroupMe answers with the first
`PageSize` entries whose `updated_at` is `since` or later, oldest first; which of
several entries of one second come first is open. The code sends the last entry's
own second again, which makes sense only if `since` includes it; were it exclusive,
entries of that second would be missed, and `FindsEveryone` with them (mutant
`NextPageAfter`). A timestamp is whole seconds in GroupMe's JSON already
(`data_types.go:26`), so formatting it loses nothing. `found` is who is in `resp`: of an
entry only the contact matters, since `GetUserInfo` takes the first it finds. All a call
keeps is local to it, so there is one at a time. `stayed` is history.

**Two logins.** `Logins` is `FayeSession` and a second instance of it, `B`, with
`wsConn`, `open` (the transport's connection and the sockets) and `panicked` in common and all else (`private`, `privateB`) apart. The
mutex is each client's own, so nothing keeps the two handshakes apart. A dial of either
returns a connection neither uses (`Unused`). The other modules but `Connector` have one
login.

**Logging in.** Every login gets the same empty id (`gl.UserId` is never set,
`login.go:66`), so `Load` makes a new `GroupmeClient` the one mautrix knows; what the
old one started goes on. `Connector` starts from mautrix calling `Connect` on one
`GroupmeClient` one call at a time, calls on different ones overlapping. A `Connect` is
`NoToken` or `AskUser`, `NoUser` or `UserKnown`, `NewFaye`, `SetupFails` or `Setup`, `Lock`,
`Subscribed`; the places between are its network requests and the mutex. `NewFaye` is
line 180 of `real_time.go` by itself: from there on supervisors an earlier `Connect` has
left work on the new FayeClient while `Setup` is still connecting it. `faye` numbers
the FayeClients, of which `listed` are subscribed and the last is the one supervisors
see (`r.fayeClient`); that a FayeClient is replaced while in use is the code's.
`misjudged` and `orphaned` are history.

**Members.** A push is an addition or a removal of one member; which of them are taken
first is open, since `handleMessages` gives each a goroutine. `HandleAdded` queues a
partial list. `HandleRemoved` and `QueueRemoved` are `ShowGroup` and what is made of
its answer, with time between them. `OtherEvent` is any other handler: it can create
the room too. `missed` are the members whose push was lost since the group was last
asked for, `overtaken` those whose removal was taken ahead of an older addition: the
addition then puts them back, and nothing corrects it before the next removal. These
two are history variables, for the properties. `Members` has one loop in its runs; a
repeated `Connect` starts a second (`Connector`), whose lists can be queued in the
opposite order they were asked for, and the theorems say so (`OneLoop`). `HandleMembers`
keys its map by `user_id`, and the comment in `real_time.go:96` says that a pushed member
has only an id and a nickname; what GroupMe sends is not part of `src/`. So `NamesUser` is
the set of what may happen, `{TRUE, FALSE}` in the run `members`: each addition names its
member, or leaves them under the empty id. `unnamed`, history as well, are those the
bridge was last told of in that way, and whom it therefore cannot know; the theorems hold
for every `NamesUser`. `members_added` takes the comment's word, `{FALSE}`, and asks for
what the comment promises.

**Messages.** `HandleMatrixMessage` is the POST of `CreateMessage` (`wire`), then
`Answered`, `Fails` or `Panics`. `Accept` is GroupMe acting on the request, which it
may do long after the bridge gave up on it. `known` is mautrix' table of message ids;
`Answered` and the row it leads to are one step, and a crash before it is a crash
before `Answered`. `appears` is derived for the refinement of `Timeline`.

**Assumed of mautrix** (it is not part of `src/`): one goroutine per portal handles
its events in order, Matrix and remote ones alike; a remote message whose id is in the
database is skipped; an event that finds no room creates one from `GetChatInfo` and is
then handled, or is dropped when that fails; a full member list removes who is not in
it; a handler called by it that panics fails that event only, whereas a panic in one
of the bridge's own goroutines ends the process.

**Conversion.** A message is whether it has a text and the types of its attachments:
image, reply, or any other, which has no case. A `DownloadImage` that gets any answer
succeeds, whatever its status, as in the code.

## Runs

| Run | Shows | Instance |
|---|---|---|
| `session` | `ConnectedIsListening`, `TransportStableUnderAdvice`, `PanicIsProvoked` with every advice, every offer of transports and empty answers; `ReaderExclusive` and `OnlyOwnConnClosed` until advice to handshake is followed | 4 connections, 2 readers, 2 retries, 3 faults: a failed round and one more |
| `client` | `InOnePlace`, `ListedIsCurrent`, `FlagHasItsPoller`, `SubscriptionKept`, `PollersStop`, `Recovers`, and `Spec`: the client implements the session | 1 subscription, as in the bridge; 2 pollers may overlap; 1 reader, which `ReaderExclusive` shows is all there is; websocket and long-polling; 2 faults against 3 attempts |
| `delivery` | `OnItsWay`, `AtMostOneEvent`, `Promise` (implements `Mailbox`, liveness included) | 4 messages, one of each kind, 2 subscriptions that overlap, frames of 2 |
| `relations` | `FindsEveryone`, `Ends` | 4 contacts, pages of 2, 3 seconds, 2 changes |
| `members` | `NobodyMissing`, `NobodyExtra`, `GetsIn`: the room has the members it was told of, and nobody who left, once the bridge has caught up | 2 members, 4 changes, pushes that name their member or not, 1 lost push, 1 other event |
| `connector` | `OneEventEach`, `SenderKnown`, `ForwardersServed`, `WatchedIsSubscribed`, `ConnectEnds` | 2 `GroupmeClient`s, 2 `Connect`s each, 1 lost link, 1 message |
| `portal` | `PostedAtMostOnce`, `ShownOnce`, `OnceInTheRoom` (implements `Timeline`), `EverythingEnds` | 3 messages, 2 of them written in Matrix, each pushed twice, 1 restart |
| `conversion` | `OnePartEach`, `NoticeWhereLost` | every message of up to 4 attachments |
| `logins` | `KeepsItsOwn`: what a login keeps when the other one takes its connection | 2 logins, 1 reader each, 4 connections, 1 fault each, 2 retries |
| `no_transport` | a handshake that can choose no transport ends the process (finding, `faye_client.go:356`) | only websocket on offer, 1 fault: the dial |
| `client_polling` | a reconnect can leave a subscription without pings (finding, `faye_client.go:363`) | |
| `members_added` | an added member who is told by id and nickname is missing from the room (finding, `handler.go:168`) | `NamesUser = {FALSE}` |

The last three are expected violations: each checks one thing the
repository says of itself, quoted in `PROJECT.json`.

Seen while modelling, kept in the models as the code has them, and without a run,
because nothing in the repository promises otherwise or a run would show a single
assignment:

- the reader's last statement and a handshake already under way overwrite DISCONNECTED,
  so a client told not to reconnect does (`faye_client.go:241` and 327; `ResetState`,
  `HsAnswer`);
- advice "handshake" leaves the reader alive; it then reads from the HTTP transport
  the next handshake installed, which panics (line 492; `ReadPanic`, allowed for by
  `PanicIsProvoked`);
- an empty answer or frame is indexed all the same, which panics (`response.go:118`;
  `NoMessage`, allowed for as well);
- the handshake of one login closes the connection another one reads from, and puts its
  own in its place, for the other's pings to be written to (`websocket_transport.go:25`;
  `Logins`);
- a poller on its last step still has its flag up, so that a request made just then starts
  none (line 395; the second way to the finding of `client_polling`);
- a contact that changes while the list is read is in it twice, and the older entry is
  taken (`client.go:166`; `Append`);
- a request or a ping that found a websocket writes to the HTTP transport of a
  handshake in between, which panics (lines 391, 284; `WriteCrash`, `PingCrash`);
- a request for a subscription that a handshake with a new client id overtakes is put on
  the list as if it bore the new one, and not asked for again (`faye_client.go:195`, 380,
  388; the exception `~current` in `ListedIsCurrent`);
- a message type without a handler calls a nil function (`real_time.go:175`;
  `HandleUnknown`), and a failed `ShowGroup` reads a nil group (`handler.go:155`;
  `HandleRemovedFails`): either ends the process;
- the wait before a handshake is computed with its operands swapped and never happens
  (`faye_client.go:310`, `HsCheck`);
- the rest of a frame is dropped after the first message that matches
  (`faye_client.go:471`, `Dispatch`);
- a second `Connect` doubles every event, and `Disconnect` stops neither the push client
  nor its loops, but dereferences a nil client when no `Connect` has had a token
  (`client.go:57`, 98; `UserKnown`, `Disconnect`);
- a supervisor that gives up while `Connect` asks for its subscription leaves `concur`
  locked for every login (`real_time.go:234`; `Stuck` in `ConnectEnds`).

Bounds, and why they are enough. `MaxFaults` caps losses and failures: the races
here need one loss during a reconnect that another loss started, so two; `session`
allows a whole failed round and one more. `MaxPending` caps waiting `handleAdvice`
goroutines of a kind: two of one kind differ in nothing. `MaxHold` caps the advised
wait; its length does not matter, only whether it is over. `Reader` has one more
than the code should ever need, so that a second reader would show; with advice to
handshake it does. `Conn` has enough that a dial always finds a fresh one.
`Retries` is 3 in the code, and in `client`; `session` uses 2 to afford every advice, and
an attempt in the middle of a round differs from the last one in nothing but that it
is followed by another. In `logins` connections are taken away by one fault each and by
the other login's dials; what advice to handshake adds is left to the theorem
`EachLoginKeeps`, which has no bounds. `MaxFrame = 2` is the least that has a rest to drop. In `relations` a page of 2 among
4 contacts gives calls of one to three pages, pages filled by a single second among
them, and 2 changes are enough for one contact to move past the cursor while another
is added or moves too; `MaxTime` and `MaxChanges` cap what would never end. In `members` 4 changes are what
an addition and a removal of each member need, or two rounds of one of them; `MaxLost`
and `MaxOther` of 1 put a loss and a foreign event at every point; a second member is
there for what a full list of one removal does to another's addition. In `connector`
two `Connect`s of one client are the least that repeats, and a second client shares
`concur` with it. In `portal` two copies give one ahead of the answer and one behind
it, and one restart can fall anywhere. Deadlock is not checked: a
supervisor that has given up, a panic, and a bridge with nothing more to receive
all stop rightly.

Each property has a mutant, a definition marked "Mutant" ahead of the one it
changes, that breaks it; `PROJECT.json` pairs them.

## Fairness

`client` assumes that a goroutine that can run does (WF);
that a `Lock()` whose mutex keeps becoming free is granted, and that a handshake
asked again every 10 seconds is answered in the end (SF). The same for a request
repeated every second and a subscription being put back. `sync.RWMutex` does queue
its writers. Nothing is assumed of frames arriving, of losses or of bad answers.
`connector` assumes the same of `Connect` (WF for its requests, SF for `concur` and for a
subscription asked for again and again over a link that keeps being up), of
supervisors, which reconnect or end, and of loops. Nobody has to call `Connect`.
`members` assumes WF for the loop, for `ShowGroup` (an answer or an error) and for the
portal; that nothing is lost is no assumption, the property is about who was not.
`portal` assumes WF for the portal's goroutine, whose request is answered or fails. The
HTTP client has no timeout, so that much depends on the network. GroupMe is not
assumed to act on anything.
`relations` assumes WF for a request: what does not fail is answered. `Ends` is stated
under `[]Spread`: no page is filled by the entries of one second. Without it the
loop of `IndexAllRelations` asks for the same page for ever (200 contacts changed in
one second); within the bounds the run shows no other way.
`delivery` assumes WF for the message loop and SF for each sender and forwarder: a
Go channel serves waiting goroutines first come, first served, so none waits for
ever on one that is received from again and again. It assumes that a handler
returns; the REST client has no timeout, so that much depends on the network.

## Proofs

All proofs are checked by TLAPS; no assumption is made beyond the named ones on
constants, and for some theorems one of

- `OneSubscription`: the bridge subscribes once;
- `OneLoop`: one `HandleMessageLoop` handles a group's pushes.

These are what `ConnectedOnce` proves in `Connector` of a client connected once. Nothing
is assumed of what the server sends: where a property depends on it, the property says so,
in terms of what the server has done so far (`Calm`, `provoked`, `unnamed`).

Every safety property and action property of the passing runs is proved. Behind each
liveness property that follows from goroutines working something off there is a theorem
of its safety: that no step undoes or repeats work (a number that goes down with each),
or that somebody always has a step to take. With them only fairness is left to TLC.

| Liveness, checked by TLC | Its safety, proved |
|---|---|
| `Recovers` | `RecoveryNeverStalls`, and for the client `ClientNeverStalls` |
| `PollersStop` | `PollersWindDown` |
| `Promise` (its liveness part) | `NeverStandsStill`, `OnlyGoesForward` |
| `ConnectEnds` | `OneAsksAtATime`, `ConnectsNeverDeadlock` |
| `GetsIn` | `BridgeCatchesUp` |
| `EverythingEnds` | `PortalWorksOff` |
| `Ends` of `Relations` | `CursorAdvances` |

*Session, any advice.* `ConnectedIsListening` is inductive together with `TypeOK`,
`TriesLeft` (a round in progress has an attempt left) and `MutexOwner` (the mutex
is the supervisor's exactly while it selects a transport); that is `SessionInv`.
The step that matters is `ResetState`: a reader that ends takes CONNECTED down with
it. `TransportStable` follows from `MutexOwner`: whoever changes the transport
needs the mutex. `ConnectedIsListening` is `SomebodyListens`, that a reader is alive, and
that it reads from a connection. `TransportIsSet` needs `SessionInv` for "nobody runs
before the first handshake"; and `RecoveryNeverStalls` reads off it who will notice that a
session is down.

*Session, calm.* `Calm` says that no advice to handshake has been followed so far. Nothing
in the code locks readers out, so why do they then exclude the handshake? Because the
state leaves CONNECTED only in the reader's last step (or for DISCONNECTED, which the next handshake refuses), a new handshake can begin only
once the only reader is gone. `CalmInv` says so place by place, for as long as `Calm`
holds; since nothing makes it hold again (`CalmBefore`), the step into a state is
covered by the state before. `ReadersExclude` and `ClosesItsOwn` follow.
`PanicsOnlyProvoked` goes through the three ways to a panic: a reader meets the HTTP
transport, which `CalmInv` excludes; `FallBack` finds no transport, and `CanFallBack` keeps
track of the offer it was made from; an answer holds no message.

*Two logins.* `SessionInv` is split into what a login owes itself (`OwnInv`: types,
attempts, the mutex, `SomebodyListens`) and what it says of the connection, and `CalmInv`
likewise (`OwnCalmInv`, without `ReadsCurrentConn`). The first parts are inductive on
their own, and a step of the other login leaves every variable they speak of alone
(`LoginsStep`) but the connection, which stays in its range. So they hold of two logins that
share a transport: `EachLoginKeeps`, `LoginsPanicOnlyProvoked`. The second parts do not: what
is open, and what `wsConn` is, a login does not decide alone. The theorems are about the
login whose variables are `FayeSession`'s; the two are alike in everything.

*Client.* `ImplementsSession` takes the steps one by one: those of requesters and
pollers leave the session alone or are its `Subscribe`. `FlagKept`
holds for any number of overlapping pollers: the one that raises the flag is there
to lower it, and whichever ends first lowers it for all. `SubscriptionInOnePlace`
needs `OneSubscription`: with two, `WaitSubscribe`'s append without the mutex can
overwrite what a resubscription has just put back. `ListIsCurrent` rests on `CurrentInv`:
a handshake that changed the id has the subscription taken off the list before its
supervisor goes on, so whatever is put back later was built under the new id, unless it
was in flight (`InFlight`) when the answer came. `PollersWindDown` gives a poller that was
told to stop four steps; `SubscribersFindTransport` rests on `AskedInv`: nothing is asked
for, hence requested or pinged, before `Setup` has left a transport there.

*Delivery.* `DeliveryInv` adds to what is checked that no message is in two frames
or both in a frame and accepted, and that what is on its way has been accepted.
Each step moves one message from one place to the next (`OneMoves`).
`ImplementsMailbox` is the safety part of `Promise`. `NeverStandsStill` finds, place by
place, the goroutine at the other end of whatever channel a message waits at;
`OnlyGoesForward` counts the places ahead of each message (`Ahead`), which a step lowers
for one and leaves for the others.

*Members.* The invariant says where each member's next word is. `Present(m)`, for who
is in the group: every queued full list without `m`, and a room without `m`, has
behind it a list with `m` or an addition still on its way (`Coming`). `Absent(m)` is the
reverse. The two together survive that partial and full lists are of different moments
because a list in the loop's hand was asked for after everything queued before it:
this needs `OneLoop`. `Followed` (an addition in flight of somebody who has left has a
newer removal behind it) is what makes `overtaken` the only exception. `Present` leaves
`unnamed` out besides `missed`: either way the bridge's last word about a member did not
reach it. Types (`MembersTyped`) hold for any number of loops. `BridgeCatchesUp` counts what
is left for the loop and the portal to do (`ToDo`): a step lowers it though it may queue
something, and only GroupMe and foreign events raise it.

*Connector.* The counts are bounded by one another (`Counts`: a `Connect` that has made
a FayeClient has added a handler before, loops and supervisors are at most as many as
FayeClients). A client whose handler was added once has at most one FayeClient, hence
one subscription, one copy, one event. `Served` and `Watched` carry the other two
properties through the stages of a `Connect`. It holds for any number of clients,
calls and messages. `ConnectedOnce` is `Counts` for a client with one call.
`ConnectsNeverDeadlock` follows from `ConcurOwner`, whoever has `concur` is the one that
asks, and `FayeIsLinked`: what it waits for is the link of its own FayeClient, which is up,
has a supervisor, or is the `Stuck` of the code.

*Portal.* The key is `Fresh`: a message that waits in the queue has left no trace, so
that a request is made once. `Awaited`: while an answer is awaited nothing of that
message has been shown, because the portal's goroutine is the one waiting. `Recorded`:
all that was shown or confirmed is known. `ImplementsTimeline` follows. `PortalWorksOff`
gives each queued event two steps.

*Conversion.* `Placed`, `Ordered` and `Told` are the two properties for the attachments
before the loop's; `AddPartKeeps` is the step common to every part. `ConversionEnds` gives
each attachment three steps.

*Relations.* `Cursor` is the invariant that carries `FindsEveryone`: whoever has been
in the list since the call began has been seen or is not behind the cursor. A change
can only move a contact ahead; a page that is followed by another is full of the
oldest entries, so nobody falls behind it. `CursorAdvances` is the variant of the
loop: with fairness, and a list that is not refilled as fast as it is read, `Ends`
follows. Assumed: the contacts are a
finite set.

Only model-checked: every liveness property (`Recovers`, `SubscriptionKept`,
`PollersStop`, `Ends`, `GetsIn`, `ConnectEnds`, `EverythingEnds`, the liveness part of
`Promise`), since TLAPS does not treat fairness; and the expected violations, which are
counterexamples. That the goroutine's step is enabled where the theorems above say that
somebody has one is said in terms of its guard, not of ENABLED. That a page of `Relations`
exists for every list (`Pages` is not empty) would take induction over the length of a
list; no theorem needs it, and the run does not stop for want of one.

## Not modelled

- The contents of the simple events (names, topics, avatars, nicknames, likes): fields
  copied into a structure, with no state and no choice; nicknames and avatars of members
  for the same reason. `MakeGroupmePortalId` and `ParsePortalId`: formatting.
- The REST endpoints nothing in the bridge calls: most of `groups_api.go`,
  `messages_api.go`, `direct_messages_api.go`, `chats_api.go`, `users_api.go`, and with
  them most of `json.go`. Each builds a request and decodes an answer.
- Media beyond success and failure: types, sizes, names; the avatars, fetched by mautrix
  through `DownloadMedia`.
- Logging and authentication: they add a field to a message or write a line.
- `Publish` and `requestUnsubscribe`, which nothing calls; `send` over a websocket, which the
  client never does; `message_id`, which is incremented without a lock but by which nothing
  is ever looked up.
- Torn reads of the racing variables beyond what is said under Races.
- `main.go` and the manual program in `test/`.
