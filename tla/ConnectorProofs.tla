-------------------------- MODULE ConnectorProofs --------------------------
(***************************************************************************)
(* What Connector.tla checks of two GroupmeClients and two Connects, for any *)
(* number of them.                                                           *)
(***************************************************************************)
EXTENDS Connector, FiniteSetTheorems, TLAPS

\* Each Connect adds one handler, then one FayeClient, then one loop and one
\* supervisor, in this order; what is subscribed is one of these FayeClients.
Counts(c) ==
    /\ handlers[c] + (IF at[c] = "user" THEN 1 ELSE 0) <= calls[c]
    /\ faye[c] + (IF at[c] = "setup" THEN 1 ELSE 0) <= handlers[c]
    /\ sups[c] <= loops[c] /\ loops[c] <= faye[c]
    /\ at[c] = "handshake" => loops[c] + 1 <= faye[c]
    /\ listed[c] \subseteq 1..faye[c]

Known(c) == handlers[c] > 0 => knows[c]

\* A Connect that asks for a subscription has been through Setup.
Served(c) ==
    /\ at[c] \in {"locking", "requesting"} => ~orphaned[c] /\ loops[c] > 0
    /\ listed[c] # {} => loops[c] > 0

Watched(c) ==
    at[c] \in {"idle", "user", "setup"} /\ listed[c] # {} /\ ~orphaned[c]
        => faye[c] \in listed[c]

ClientInv(c) == Counts(c) /\ Known(c) /\ Served(c) /\ Watched(c)

\* A message that was received was received by a client with a subscription.
Routed(m) ==
    /\ to[m] = NoClient => copies[m] = 0 /\ events[m] = 0
    /\ to[m] # NoClient => listed[to[m]] # {}

Inv ==
    /\ TypeOK /\ (\A c \in Client : ClientInv(c)) /\ (\A m \in Msg : Routed(m))
    /\ SenderKnown /\ OneEventEach

-----------------------------------------------------------------------------
\* Nothing is connected at the start.
LEMMA ConnectorInit == Init => Inv
<1> SUFFICES ASSUME Init PROVE Inv  OBVIOUS
<1>1. TypeOK
  <2>1. 0 \in 0..MaxConnects /\ 0 \in 0..MaxLosses  BY BoundsAssumption
  <2> QED BY <2>1 DEF Init, Each, TypeOK, Place
<1>2. ASSUME NEW c \in Client PROVE ClientInv(c)
  BY DEF Init, Each, ClientInv, Counts, Known, Served, Watched
<1>3. (\A m \in Msg : Routed(m)) /\ SenderKnown /\ OneEventEach
  BY DEF Init, Routed, SenderKnown, OneEventEach
<1> QED BY <1>1, <1>2, <1>3 DEF Inv

\* What a step of client c must leave alone for the other clients' sake.
OnlyOf(c) ==
    \A d \in Client \ {c} :
        /\ handlers'[d] = handlers[d] /\ at'[d] = at[d] /\ calls'[d] = calls[d]
        /\ faye'[d] = faye[d] /\ sups'[d] = sups[d] /\ loops'[d] = loops[d]
        /\ listed'[d] = listed[d] /\ knows'[d] = knows[d]
        /\ orphaned'[d] = orphaned[d]

\* A step of one client that moves no message keeps the invariant if it keeps that
\* client's part of it, and does not make it the first time a handler is added
\* after messages were received.
LEMMA StepOfOne ==
  ASSUME Inv, NEW c \in Client, TypeOK', OnlyOf(c), ClientInv(c)',
         listed[c] # {} => listed'[c] # {} /\ handlers[c] <= handlers'[c],
         UNCHANGED msgVars
  PROVE  Inv'
<1> USE DEF Inv
<1>1. ASSUME NEW d \in Client PROVE ClientInv(d)'
  <2>1. CASE d = c  BY <2>1
  <2>2. CASE d # c
    <3>1. ClientInv(d)  OBVIOUS
    <3> QED BY <2>2, <3>1 DEF OnlyOf, ClientInv, Counts, Known, Served, Watched
  <2> QED BY <2>1, <2>2
<1>2. ASSUME NEW m \in Msg PROVE Routed(m)'
  <2>1. Routed(m) /\ to[m] \in Client \cup {NoClient}  BY DEF TypeOK
  <2>2. \A d \in Client : listed[d] # {} => listed'[d] # {}  BY DEF OnlyOf
  <2> QED BY <2>1, <2>2 DEF Routed, msgVars
<1>3. OneEventEach'
  <2> SUFFICES ASSUME NEW m \in Msg, to[m] # NoClient, handlers'[to[m]] = 1
      PROVE copies[m] + events[m] <= 1
    BY DEF OneEventEach, msgVars
  <2>1. to[m] \in Client /\ listed[to[m]] # {}  BY DEF TypeOK, Routed
  <2>2. handlers[to[m]] > 0 /\ handlers[to[m]] \in Nat
    <3>1. /\ handlers[to[m]] \in Nat /\ faye[to[m]] \in Nat /\ loops[to[m]] \in Nat
      BY <2>1 DEF TypeOK
    <3>2. faye[to[m]] <= handlers[to[m]]
      BY <2>1, <3>1 DEF ClientInv, Counts
    <3>3. loops[to[m]] > 0 /\ loops[to[m]] <= faye[to[m]]
      BY <2>1 DEF ClientInv, Counts, Served
    <3> QED BY <3>1, <3>2, <3>3
  <2>3. handlers[to[m]] <= handlers'[to[m]]
    BY <2>1, <2>2 DEF OnlyOf
  <2> QED BY <2>2, <2>3 DEF OneEventEach
<1> QED BY <1>1, <1>2, <1>3 DEF SenderKnown, msgVars

-----------------------------------------------------------------------------
(* Connect, step by step.                                                     *)

\* A Connect that has no token, or does not learn its user, adds nothing.
LEMMA EarlyStepsKeep ==
  ASSUME Inv, NEW c \in Client, NoToken(c) \/ AskUser(c) \/ NoUser(c)
  PROVE  Inv'
<1> USE DEF Inv, CallConnect, Ends, loginVars, pushVars, linkVars
<1>1. TypeOK'
  <2>1. CASE NoToken(c) \/ AskUser(c)
    <3>1. calls[c] \in 0..MaxConnects /\ calls[c] < MaxConnects
          /\ calls' = [calls EXCEPT ![c] = @ + 1]
      BY <2>1 DEF NoToken, AskUser, TypeOK
    <3>2. calls' \in [Client -> 0..MaxConnects]
      BY <3>1, BoundsAssumption DEF TypeOK
    <3>3. /\ at' \in [Client -> Place] /\ bad' \in [Client -> BOOLEAN]
          /\ rest' \in [Client -> BOOLEAN]
      BY <2>1 DEF NoToken, AskUser, TypeOK, Place
    <3> QED BY <2>1, <3>2, <3>3 DEF NoToken, AskUser, TypeOK, msgVars
  <2>2. CASE NoUser(c)
    BY <2>2 DEF NoUser, TypeOK, Place, msgVars
  <2> QED BY <2>1, <2>2
<1>2. /\ OnlyOf(c) /\ UNCHANGED msgVars /\ listed' = listed /\ handlers' = handlers
  BY DEF NoToken, AskUser, NoUser, OnlyOf, TypeOK
<1>3. ClientInv(c)'
  <2> USE DEF ClientInv, Known, Served, Watched, Counts
  <2>1. CASE NoToken(c)
    <3>1. at[c] = "idle" /\ at'[c] = "idle" /\ calls'[c] = calls[c] + 1
          /\ calls[c] \in Nat /\ handlers[c] \in Nat
      BY <2>1 DEF NoToken, TypeOK
    <3>2. ClientInv(c)  OBVIOUS
    <3> QED BY <2>1, <3>1, <3>2 DEF NoToken
  <2>2. CASE AskUser(c)
    <3>1. at[c] = "idle" /\ at'[c] = "user" /\ calls'[c] = calls[c] + 1
          /\ calls[c] \in Nat /\ handlers[c] \in Nat
      BY <2>2 DEF AskUser, TypeOK
    <3>2. ClientInv(c)  OBVIOUS
    <3> QED BY <2>2, <3>1, <3>2 DEF AskUser
  <2>3. CASE NoUser(c)  BY <2>3 DEF NoUser, TypeOK
  <2> QED BY <2>1, <2>2, <2>3
<1>4. handlers[c] <= handlers'[c]  BY <1>2 DEF TypeOK
<1> QED BY <1>1, <1>2, <1>3, <1>4, StepOfOne

\* AddFullHandler.
LEMMA UserKnownKeeps ==
  ASSUME Inv, NEW c \in Client, UserKnown(c) PROVE Inv'
<1> USE DEF Inv
<1>1. /\ at[c] = "user" /\ at' = [at EXCEPT ![c] = "setup"]
      /\ knows' = [knows EXCEPT ![c] = TRUE]
      /\ handlers' = [handlers EXCEPT ![c] = @ + 1]
      /\ UNCHANGED <<client, token, calls, rest, bad, faye, listed, loops, sups,
                     orphaned, link, losses, concur, msgVars, crashed>>
  BY DEF UserKnown, loginVars, linkVars
<1>2. ClientInv(c)  OBVIOUS
<1>3. handlers[c] \in Nat /\ handlers[c] + 1 <= calls[c] /\ calls[c] \in 0..MaxConnects
  BY <1>1, <1>2 DEF ClientInv, Counts, TypeOK
<1>4. TypeOK'
  BY <1>1, <1>3, BoundsAssumption DEF TypeOK, Place, msgVars
<1>5. OnlyOf(c) /\ handlers'[c] = handlers[c] + 1
  BY <1>1 DEF OnlyOf, TypeOK
<1>6. ClientInv(c)'
  BY <1>1, <1>2, <1>3 DEF ClientInv, Counts, Known, Served, Watched, TypeOK
<1> QED BY <1>1, <1>3, <1>4, <1>5, <1>6, StepOfOne

\* Setup puts one more FayeClient in the place of the last.
LEMMA NewFayeKeeps ==
  ASSUME Inv, NEW c \in Client, NewFaye(c) PROVE Inv'
<1> USE DEF Inv
<1>1. /\ at[c] = "setup" /\ at' = [at EXCEPT ![c] = "handshake"]
      /\ faye' = [faye EXCEPT ![c] = @ + 1]
      /\ link' = [link EXCEPT ![c][faye[c] + 1] = "down"]
      /\ UNCHANGED <<client, token, calls, rest, knows, bad, handlers, listed, loops,
                     sups, orphaned, losses, concur, msgVars, crashed>>
  BY DEF NewFaye, loginVars
<1>2. ClientInv(c)  OBVIOUS
<1>3. /\ faye[c] \in Nat /\ loops[c] \in Nat /\ handlers[c] \in Nat
      /\ faye[c] + 1 <= MaxConnects /\ faye[c] + 1 <= handlers[c]
      /\ calls[c] \in 0..MaxConnects /\ MaxConnects \in Nat
  BY <1>1, <1>2, BoundsAssumption DEF ClientInv, Counts, TypeOK
<1>4. TypeOK'
  <2>1. link' \in [Client -> [Gen -> {"none", "up", "down"}]]
    <3>1. faye[c] + 1 \in Gen  BY <1>3 DEF Gen
    <3>2. [link[c] EXCEPT ![faye[c] + 1] = "down"] \in [Gen -> {"none", "up", "down"}]
      BY <3>1 DEF TypeOK
    <3>3. link' = [link EXCEPT ![c] = [link[c] EXCEPT ![faye[c] + 1] = "down"]]
      BY <1>1
    <3> QED BY <3>2, <3>3 DEF TypeOK
  <2>2. faye' \in [Client -> 0..MaxConnects] /\ at' \in [Client -> Place]
    BY <1>1, <1>3 DEF TypeOK, Place
  <2> QED BY <1>1, <2>1, <2>2 DEF TypeOK, msgVars
<1>5. OnlyOf(c)
  BY <1>1 DEF OnlyOf, TypeOK
<1>6. ClientInv(c)'
  <2>1. faye'[c] = faye[c] + 1 /\ at'[c] = "handshake"  BY <1>1 DEF TypeOK
  <2>2. Counts(c)'
    <3>1. listed[c] \subseteq 1..faye[c]  BY <1>2 DEF ClientInv, Counts
    <3> QED BY <1>1, <1>2, <1>3, <2>1, <3>1 DEF ClientInv, Counts
  <2>3. Known(c)' /\ Served(c)' /\ Watched(c)'
    BY <1>1, <1>2, <2>1 DEF ClientInv, Known, Served, Watched
  <2> QED BY <2>2, <2>3 DEF ClientInv
<1>7. handlers[c] <= handlers'[c]  BY <1>1, <1>3
<1> QED BY <1>1, <1>4, <1>5, <1>6, <1>7, StepOfOne

\* Its handshake, whether it connects or not.
LEMMA SetupKeeps ==
  ASSUME Inv, NEW c \in Client, Setup(c) \/ SetupFails(c) PROVE Inv'
<1> USE DEF Inv
<1>1. /\ at[c] = "handshake"
      /\ UNCHANGED <<client, token, calls, rest, knows, handlers, faye, listed, losses,
                     concur, msgVars, crashed>>
      /\ link' = link \/ link' = [link EXCEPT ![c][faye[c]] = "up"]
      /\ \/ /\ orphaned' = [orphaned EXCEPT ![c] = listed[c] # {}]
            /\ at' = [at EXCEPT ![c] = "idle"] /\ UNCHANGED <<loops, sups>>
            /\ bad' = [bad EXCEPT ![c] = TRUE]
         \/ /\ orphaned' = [orphaned EXCEPT ![c] = FALSE]
            /\ loops' = [loops EXCEPT ![c] = @ + 1]
            /\ sups' = [sups EXCEPT ![c] = @ + 1]
            /\ at' = [at EXCEPT ![c] = "locking"] /\ bad' = bad
  BY DEF Setup, SetupFails, Ends, loginVars, linkVars
<1>2. ClientInv(c)  OBVIOUS
<1>3. /\ faye[c] \in 0..MaxConnects /\ loops[c] \in Nat /\ sups[c] \in Nat
      /\ handlers[c] \in Nat /\ MaxConnects \in Nat
      /\ loops[c] + 1 <= faye[c] /\ sups[c] <= loops[c] /\ faye[c] <= handlers[c]
  BY <1>1, <1>2, BoundsAssumption DEF ClientInv, Counts, TypeOK
<1>4. TypeOK'
  <2>1. link' \in [Client -> [Gen -> {"none", "up", "down"}]]
    <3>1. faye[c] \in Gen  BY <1>3 DEF Gen
    <3>2. [link[c] EXCEPT ![faye[c]] = "up"] \in [Gen -> {"none", "up", "down"}]
      BY <3>1 DEF TypeOK
    <3>3. link' = link \/ link' = [link EXCEPT ![c] = [link[c] EXCEPT ![faye[c]] = "up"]]
      BY <1>1
    <3> QED BY <3>2, <3>3 DEF TypeOK
  <2>2. loops' \in [Client -> 0..MaxConnects] /\ sups' \in [Client -> 0..MaxConnects]
    <3>1. loops[c] + 1 \in 0..MaxConnects /\ sups[c] + 1 \in 0..MaxConnects
      BY <1>3
    <3>2. CASE UNCHANGED <<loops, sups>>  BY <3>2 DEF TypeOK
    <3>3. CASE /\ loops' = [loops EXCEPT ![c] = @ + 1]
               /\ sups' = [sups EXCEPT ![c] = @ + 1]
      BY <3>1, <3>3 DEF TypeOK
    <3> QED BY <1>1, <3>2, <3>3
  <2>3. /\ at' \in [Client -> Place] /\ bad' \in [Client -> BOOLEAN]
        /\ orphaned' \in [Client -> BOOLEAN]
    BY <1>1 DEF TypeOK, Place
  <2> QED BY <1>1, <2>1, <2>2, <2>3 DEF TypeOK, msgVars
<1>5. OnlyOf(c)
  BY <1>1 DEF OnlyOf, TypeOK
<1>6. ClientInv(c)'
  <2>1. \/ loops'[c] = loops[c] /\ sups'[c] = sups[c] /\ at'[c] = "idle"
           /\ (orphaned'[c] <=> listed[c] # {})
        \/ loops'[c] = loops[c] + 1 /\ sups'[c] = sups[c] + 1
           /\ at'[c] = "locking" /\ ~orphaned'[c]
    BY <1>1 DEF TypeOK
  <2>2. Counts(c)'
    <3>1. listed[c] \subseteq 1..faye[c] /\ handlers[c] <= calls[c] /\ calls[c] \in Nat
      BY <1>1, <1>2, <1>3 DEF ClientInv, Counts, TypeOK
    <3> QED BY <1>1, <1>3, <2>1, <3>1 DEF Counts
  <2>3. Known(c)' /\ Served(c)' /\ Watched(c)'
    BY <1>1, <1>2, <1>3, <2>1 DEF ClientInv, Known, Served, Watched
  <2> QED BY <2>2, <2>3 DEF ClientInv
<1>7. handlers[c] <= handlers'[c]  BY <1>1, <1>3
<1> QED BY <1>1, <1>4, <1>5, <1>6, <1>7, StepOfOne

\* subscribeWithPrefix waits for concur and asks for the subscription.
LEMMA SubscribeKeeps ==
  ASSUME Inv, NEW c \in Client, Lock(c) \/ Subscribed(c) PROVE Inv'
<1> USE DEF Inv
<1>1. /\ UNCHANGED <<client, token, calls, rest, knows, handlers, faye, loops, sups,
                     orphaned, link, losses, msgVars, crashed>>
      /\ concur' \in Client \cup {NoClient}
      /\ \/ /\ at[c] = "locking" /\ at' = [at EXCEPT ![c] = "requesting"]
            /\ UNCHANGED <<listed, bad>>
         \/ /\ at[c] = "requesting" /\ at' = [at EXCEPT ![c] = "idle"]
            /\ bad' = [bad EXCEPT ![c] = FALSE]
            /\ listed' = [listed EXCEPT ![c] = @ \cup {faye[c]}]
  BY DEF Lock, Subscribed, Ends, loginVars, linkVars, pushVars
<1>2. ClientInv(c)  OBVIOUS
<1>3. faye[c] \in 1..MaxConnects /\ handlers[c] \in Nat /\ MaxConnects \in Nat
  BY <1>1, <1>2, BoundsAssumption DEF ClientInv, Counts, Served, TypeOK
<1>4. TypeOK'
  <2>1. at' \in [Client -> Place] /\ bad' \in [Client -> BOOLEAN]
    BY <1>1 DEF TypeOK, Place
  <2>2. listed' \in [Client -> SUBSET Gen]
    <3>1. faye[c] \in Gen  BY <1>3 DEF Gen
    <3> QED BY <1>1, <3>1 DEF TypeOK
  <2> QED BY <1>1, <2>1, <2>2 DEF TypeOK, msgVars
<1>5. OnlyOf(c)
  BY <1>1 DEF OnlyOf, TypeOK
<1>6. ClientInv(c)'
  <2>1. \/ at[c] = "locking" /\ at'[c] = "requesting" /\ listed'[c] = listed[c]
        \/ at[c] = "requesting" /\ at'[c] = "idle"
           /\ listed'[c] = listed[c] \cup {faye[c]}
    BY <1>1 DEF TypeOK
  <2>2. Counts(c)'
    BY <1>1, <1>2, <1>3, <2>1 DEF ClientInv, Counts
  <2>3. Known(c)' /\ Served(c)' /\ Watched(c)'
    BY <1>1, <1>2, <1>3, <2>1 DEF ClientInv, Known, Served, Watched
  <2> QED BY <2>2, <2>3 DEF ClientInv
<1>7. listed[c] # {} => listed'[c] # {} /\ handlers[c] <= handlers'[c]
  BY <1>1, <1>3 DEF TypeOK
<1> QED BY <1>1, <1>4, <1>5, <1>6, <1>7, StepOfOne

-----------------------------------------------------------------------------
(* What runs beside Connect.                                                  *)

\* mautrix's other calls, lost links and supervisors.
LEMMA OthersKeep ==
  ASSUME Inv, NEW c \in Client,
         Load(c) \/ Disconnect(c) \/ (\E g \in Gen : LinkLost(c, g)) \/ Reconnect(c)
         \/ GiveUp(c)
  PROVE  Inv'
<1> USE DEF Inv, loginVars, callVars, pushVars, linkVars
<1>1. CASE Load(c) \/ Disconnect(c)
  <2>1. /\ client' \in {client, c} /\ crashed' \in BOOLEAN
        /\ UNCHANGED <<token, calls, at, rest, knows, bad, handlers, faye, listed,
                       loops, sups, orphaned, link, losses, concur, msgVars>>
    BY <1>1 DEF Load, Disconnect, TypeOK
  <2>2. TypeOK'  BY <2>1 DEF TypeOK, msgVars
  <2>3. OnlyOf(c)  BY <2>1 DEF OnlyOf
  <2>4. ClientInv(c)'
    BY <2>1 DEF ClientInv, Counts, Known, Served, Watched
  <2>5. handlers[c] <= handlers'[c] /\ listed' = listed  BY <2>1 DEF TypeOK
  <2> QED BY <2>1, <2>2, <2>3, <2>4, <2>5, StepOfOne
<1>2. CASE (\E g \in Gen : LinkLost(c, g)) \/ Reconnect(c)
  <2>1. /\ UNCHANGED <<client, token, calls, at, rest, knows, bad, handlers, faye,
                       listed, loops, sups, orphaned, concur, msgVars, crashed>>
        /\ losses' \in 0..MaxLosses
        /\ \/ /\ sups[c] > 0 /\ link' = [link EXCEPT ![c][faye[c]] = "up"]
           \/ \E g \in Gen : link' = [link EXCEPT ![c][g] = "down"]
    <3>1. CASE Reconnect(c)
      BY <3>1 DEF Reconnect, WatchedDown, TypeOK
    <3>2. ASSUME NEW g \in Gen, LinkLost(c, g)
          PROVE  /\ losses' \in 0..MaxLosses
                 /\ link' = [link EXCEPT ![c][g] = "down"]
                 /\ UNCHANGED <<client, token, calls, at, rest, knows, bad, handlers,
                                faye, listed, loops, sups, orphaned, concur, msgVars,
                                crashed>>
      BY <3>2, BoundsAssumption DEF LinkLost, TypeOK
    <3> QED BY <1>2, <3>1, <3>2
  <2>2. link' \in [Client -> [Gen -> {"none", "up", "down"}]]
    <3>1. ClientInv(c) /\ faye[c] \in 0..MaxConnects /\ loops[c] \in Nat /\ sups[c] \in Nat
      BY DEF TypeOK
    <3>2. sups[c] > 0 => faye[c] \in Gen
      BY <3>1, BoundsAssumption DEF ClientInv, Counts, Gen
    <3>3. PICK g \in Gen, l \in {"up", "down"} : link' = [link EXCEPT ![c][g] = l]
      BY <2>1, <3>2
    <3>4. [link[c] EXCEPT ![g] = l] \in [Gen -> {"none", "up", "down"}]
      BY <3>3 DEF TypeOK
    <3>5. link' = [link EXCEPT ![c] = [link[c] EXCEPT ![g] = l]]
      BY <3>3
    <3> QED BY <3>4, <3>5 DEF TypeOK
  <2>3. TypeOK'  BY <2>1, <2>2 DEF TypeOK, msgVars
  <2>4. OnlyOf(c)  BY <2>1 DEF OnlyOf
  <2>5. ClientInv(c)'
    BY <2>1 DEF ClientInv, Counts, Known, Served, Watched
  <2>6. handlers[c] <= handlers'[c] /\ listed' = listed  BY <2>1 DEF TypeOK
  <2> QED BY <2>1, <2>3, <2>4, <2>5, <2>6, StepOfOne
<1>3. CASE GiveUp(c)
  <2>1. /\ UNCHANGED <<client, token, calls, at, rest, knows, bad, handlers, faye, link,
                       listed, loops, losses, orphaned, concur, msgVars, crashed>>
        /\ sups[c] > 0 /\ sups' = [sups EXCEPT ![c] = @ - 1]
    BY <1>3 DEF GiveUp, WatchedDown
  <2>2. sups[c] - 1 \in 0..MaxConnects /\ sups[c] \in Nat /\ loops[c] \in Nat
    BY <2>1, BoundsAssumption DEF TypeOK
  <2>3. TypeOK'  BY <2>1, <2>2 DEF TypeOK, msgVars
  <2>4. OnlyOf(c)  BY <2>1 DEF OnlyOf, TypeOK
  <2>5. ClientInv(c)'
    <3>1. ClientInv(c)  OBVIOUS
    <3>2. sups'[c] <= sups[c] /\ sups'[c] \in Nat  BY <2>1, <2>2 DEF TypeOK
    <3>3. sups'[c] <= loops[c]
      BY <2>2, <3>1, <3>2 DEF ClientInv, Counts
    <3> QED BY <2>1, <3>1, <3>3 DEF ClientInv, Counts, Known, Served, Watched
  <2>6. handlers[c] <= handlers'[c] /\ listed' = listed  BY <2>1 DEF TypeOK
  <2> QED BY <2>1, <2>3, <2>4, <2>5, <2>6, StepOfOne
<1> QED BY <1>1, <1>2, <1>3

\* No more copies come than there are FayeClients with the subscription.
LEMMA CopiesBounded ==
  ASSUME Inv, NEW c \in Client
  PROVE  /\ Cardinality(Hearing(c)) \in 0..MaxConnects
         /\ Cardinality(Hearing(c)) <= faye[c]
<1>1. ClientInv(c) /\ faye[c] \in 0..MaxConnects /\ MaxConnects \in Nat
  BY BoundsAssumption DEF Inv, TypeOK
<1>2. Hearing(c) \subseteq 1..faye[c]
  BY <1>1 DEF Hearing, ClientInv, Counts
<1>3. IsFiniteSet(1..faye[c]) /\ Cardinality(1..faye[c]) = faye[c]
  <2>1. faye[c] \in Int /\ 1 \in Int  BY <1>1
  <2>2. /\ IsFiniteSet(1..faye[c])
        /\ Cardinality(1..faye[c]) = IF 1 > faye[c] THEN 0 ELSE faye[c] - 1 + 1
    BY <2>1, FS_Interval
  <2> QED BY <1>1, <2>2
<1>4. /\ IsFiniteSet(Hearing(c))
      /\ Cardinality(Hearing(c)) <= Cardinality(1..faye[c])
  BY <1>2, <1>3, FS_Subset
<1>5. Cardinality(Hearing(c)) \in Nat
  BY <1>4, FS_CardinalityType
<1> QED BY <1>1, <1>3, <1>4, <1>5

\* A message comes in over every link that hears it.
LEMMA ReceiveKeeps ==
  ASSUME Inv, NEW c \in Client, NEW m \in Msg, Receive(c, m) PROVE Inv'
<1> USE DEF Inv
<1> DEFINE n == Cardinality(Hearing(c))
<1>1. /\ to[m] = NoClient /\ Hearing(c) # {}
      /\ to' = [to EXCEPT ![m] = c] /\ copies' = [copies EXCEPT ![m] = n]
      /\ UNCHANGED <<client, token, calls, at, rest, knows, bad, handlers, faye, link,
                     listed, loops, sups, losses, orphaned, concur, events, misjudged,
                     crashed>>
  BY DEF Receive, loginVars, callVars, pushVars, linkVars
<1>2. n \in 0..MaxConnects /\ n <= faye[c]  BY CopiesBounded
<1>3. listed[c] # {}  BY <1>1 DEF Hearing
<1> HIDE DEF n
<1>4. TypeOK'
  BY <1>1, <1>2 DEF TypeOK
<1>5. \A d \in Client : ClientInv(d)'
  BY <1>1 DEF ClientInv, Counts, Known, Served, Watched
<1>6. /\ to'[m] = c /\ copies'[m] = n /\ c # NoClient
      /\ \A k \in Msg \ {m} : to'[k] = to[k] /\ copies'[k] = copies[k]
  BY <1>1, NoClientAssumption DEF TypeOK
<1>7. \A k \in Msg : Routed(k)'
  BY <1>1, <1>3, <1>6 DEF Routed
<1>8. OneEventEach'
  <2> SUFFICES ASSUME NEW k \in Msg, to'[k] # NoClient, handlers[to'[k]] = 1
      PROVE copies'[k] + events[k] <= 1
    BY <1>1 DEF OneEventEach
  <2>1. CASE k = m
    <3>1. events[m] = 0  BY <1>1 DEF Routed
    <3>2. ClientInv(c) /\ faye[c] \in Nat  BY DEF TypeOK
    <3>3. faye[c] <= 1  BY <2>1, <1>6, <3>2 DEF ClientInv, Counts
    <3> QED BY <1>2, <1>6, <2>1, <3>1, <3>2, <3>3
  <2>2. CASE k # m  BY <2>2, <1>6 DEF OneEventEach
  <2> QED BY <2>1, <2>2
<1> QED BY <1>1, <1>4, <1>5, <1>7, <1>8 DEF SenderKnown

\* A loop hands a copy to every handler.
LEMMA HandleKeeps ==
  ASSUME Inv, NEW c \in Client, NEW m \in Msg, HandleMessage(c, m) PROVE Inv'
<1> USE DEF Inv
<1>1. /\ to[m] = c /\ copies[m] > 0
      /\ copies' = [copies EXCEPT ![m] = @ - 1]
      /\ events' = [events EXCEPT ![m] = @ + handlers[c]]
      /\ misjudged' = (misjudged \/ ~knows[c])
      /\ UNCHANGED <<client, token, calls, at, rest, knows, bad, handlers, faye, link,
                     listed, loops, sups, losses, orphaned, concur, to, crashed>>
  BY DEF HandleMessage, loginVars, callVars, pushVars, linkVars
<1>2. ClientInv(c) /\ c # NoClient /\ listed[c] # {}
  BY <1>1, NoClientAssumption DEF Routed
<1>3. /\ handlers[c] \in Nat /\ faye[c] \in Nat /\ loops[c] \in Nat
      /\ copies[m] \in 0..MaxConnects /\ events[m] \in Nat /\ MaxConnects \in Nat
  BY BoundsAssumption DEF TypeOK
<1>4. handlers[c] > 0 /\ knows[c]
  BY <1>2, <1>3 DEF ClientInv, Counts, Known, Served
<1>5. TypeOK'
  <2>1. copies[m] - 1 \in 0..MaxConnects /\ events[m] + handlers[c] \in Nat
    BY <1>1, <1>3
  <2> QED BY <1>1, <2>1 DEF TypeOK
<1>6. \A d \in Client : ClientInv(d)'
  BY <1>1 DEF ClientInv, Counts, Known, Served, Watched
<1>7. /\ copies'[m] = copies[m] - 1 /\ events'[m] = events[m] + handlers[c]
      /\ \A k \in Msg \ {m} : copies'[k] = copies[k] /\ events'[k] = events[k]
  BY <1>1 DEF TypeOK
<1>8. \A k \in Msg : Routed(k)'
  BY <1>1, <1>2, <1>7 DEF Routed
<1>9. SenderKnown' /\ OneEventEach'
  <2>1. SenderKnown'  BY <1>1, <1>4 DEF SenderKnown
  <2> SUFFICES ASSUME NEW k \in Msg, to[k] # NoClient, handlers[to[k]] = 1
      PROVE copies'[k] + events'[k] <= 1
    BY <1>1, <2>1 DEF OneEventEach
  <2>2. CASE k = m
    BY <1>1, <1>3, <1>7, <2>2 DEF OneEventEach
  <2>3. CASE k # m
    BY <1>7, <2>3 DEF OneEventEach
  <2> QED BY <2>2, <2>3
<1> QED BY <1>5, <1>6, <1>8, <1>9

-----------------------------------------------------------------------------
\* The inductive invariant of logging in and connecting.
THEOREM ConnectorInvariant == Spec => []Inv
<1>1. Inv /\ [Next]_vars => Inv'
  <2> SUFFICES ASSUME Inv, [Next]_vars PROVE Inv'  OBVIOUS
  <2>1. ASSUME NEW c \in Client, Connect(c) PROVE Inv'
    BY <2>1, EarlyStepsKeep, UserKnownKeeps, NewFayeKeeps, SetupKeeps, SubscribeKeeps DEF Connect
  <2>2. ASSUME NEW c \in Client,
               Load(c) \/ Disconnect(c) \/ (\E g \in Gen : LinkLost(c, g))
               \/ Reconnect(c) \/ GiveUp(c)
        PROVE  Inv'
    BY <2>2, OthersKeep
  <2>3. ASSUME NEW c \in Client, NEW m \in Msg, Receive(c, m) \/ HandleMessage(c, m)
        PROVE  Inv'
    BY <2>3, ReceiveKeeps, HandleKeeps
  <2>4. CASE UNCHANGED vars
    BY <2>4
    DEF vars, loginVars, callVars, pushVars, linkVars, msgVars, Inv, TypeOK, ClientInv,
        Counts, Known, Served, Watched, Routed, SenderKnown, OneEventEach
  <2> QED BY <2>1, <2>2, <2>3, <2>4 DEF Next
<1> QED BY <1>1, ConnectorInit, PTL DEF Spec

\* Type correctness: no Connect adds more than one of anything.
THEOREM ConnectorTyped == Spec => []TypeOK
<1>1. Inv => TypeOK  BY DEF Inv
<1> QED BY <1>1, ConnectorInvariant, PTL

\* A client with one handler gets one event of a message at most, for any number of
\* clients.
THEOREM OneEvent == Spec => []OneEventEach
<1>1. Inv => OneEventEach  BY DEF Inv
<1> QED BY <1>1, ConnectorInvariant, PTL

\* No sender is judged by a client that does not know its own user.
THEOREM SendersKnown == Spec => []SenderKnown
<1>1. Inv => SenderKnown  BY DEF Inv
<1> QED BY <1>1, ConnectorInvariant, PTL

\* Whatever has a subscription has a loop that takes its messages.
THEOREM Forwarded == Spec => []ForwardersServed
<1>1. Inv => ForwardersServed  BY DEF Inv, ClientInv, Served, ForwardersServed
<1> QED BY <1>1, ConnectorInvariant, PTL

\* Between Connects, what supervisors watch has the subscription, unless a Setup
\* failed after one had succeeded.
THEOREM SupervisorsWatch == Spec => []WatchedIsSubscribed
<1>1. Inv => WatchedIsSubscribed  BY DEF Inv, ClientInv, Watched, WatchedIsSubscribed
<1> QED BY <1>1, ConnectorInvariant, PTL

-----------------------------------------------------------------------------
(* One of each.                                                               *)

\* A client on which Connect was called once has one handler, one FayeClient, one
\* loop, one supervisor and one subscription at most: what FayeClient.tla (one
\* subscription to a FayeClient) and Members.tla (OneLoop) start from.
OneOfEach ==
    \A c \in Client :
        calls[c] <= 1 => /\ handlers[c] <= 1 /\ faye[c] <= 1
                         /\ loops[c] <= 1 /\ sups[c] <= 1
                         /\ Cardinality(listed[c]) <= 1

\* Nothing a Connect starts is started twice, in whatever order the calls of several
\* clients run (real_time.go:180-206, client.go:57).
THEOREM ConnectedOnce == Spec => []OneOfEach
<1>1. Inv => OneOfEach
  <2> SUFFICES ASSUME Inv, NEW c \in Client, calls[c] <= 1
               PROVE  /\ handlers[c] <= 1 /\ faye[c] <= 1
                      /\ loops[c] <= 1 /\ sups[c] <= 1
                      /\ Cardinality(listed[c]) <= 1
    BY DEF OneOfEach
  <2>1. /\ calls[c] \in Nat /\ handlers[c] \in Nat /\ faye[c] \in Nat
        /\ loops[c] \in Nat /\ sups[c] \in Nat /\ Counts(c)
    BY DEF Inv, TypeOK, ClientInv
  <2>2. handlers[c] <= 1 /\ faye[c] <= 1 /\ loops[c] <= 1 /\ sups[c] <= 1
    BY <2>1 DEF Counts
  <2>3. Cardinality(listed[c]) <= 1
    <3>1. listed[c] = {} \/ listed[c] = {1}
      BY <2>1, <2>2 DEF Counts
    <3> QED BY <3>1, FS_EmptySet, FS_Singleton
  <2> QED BY <2>2, <2>3
<1> QED BY <1>1, ConnectorInvariant, PTL

-----------------------------------------------------------------------------
(* The mutex of the process.                                                  *)

\* concur is held by exactly the Connect that asks for its subscription, and what
\* that Connect asks over was dialled.
ConcurOwner == \A c \in Client : at[c] = "requesting" <=> concur = c

FayeIsLinked == \A c \in Client : faye[c] > 0 => link[c][faye[c]] \in {"up", "down"}

\* At the start nobody holds the mutex and there is no FayeClient.
LEMMA LockInit == Init => ConcurOwner /\ FayeIsLinked
  BY NoClientAssumption DEF Init, Each, ConcurOwner, FayeIsLinked

\* The mutex is taken into "requesting" and given back on leaving it.
LEMMA ConcurStep ==
  ASSUME Inv, ConcurOwner, [Next]_vars
  PROVE  ConcurOwner'
<1> USE DEF ConcurOwner
<1>1. ASSUME NEW c \in Client, Connect(c) PROVE ConcurOwner'
  <2> USE NoClientAssumption DEF CallConnect, Ends, Inv, TypeOK
  <2>1. CASE NoToken(c) \/ AskUser(c)  BY <2>1 DEF NoToken, AskUser
  <2>2. CASE NoUser(c) \/ UserKnown(c)  BY <2>2 DEF NoUser, UserKnown
  <2>3. CASE NewFaye(c) \/ SetupFails(c) \/ Setup(c)
    BY <2>3 DEF NewFaye, SetupFails, Setup
  <2>4. CASE Lock(c)  BY <2>4 DEF Lock
  <2>5. CASE Subscribed(c)  BY <2>5 DEF Subscribed
  <2> QED BY <1>1, <2>1, <2>2, <2>3, <2>4, <2>5 DEF Connect
<1>2. CASE UNCHANGED <<at, concur>>  BY <1>2
<1> QED
  BY <1>1, <1>2
  DEF Next, Load, Disconnect, LinkLost, Reconnect, GiveUp, Receive, HandleMessage,
      vars, callVars

\* A FayeClient comes with its link, and a link never goes away.
LEMMA LinkedStep ==
  ASSUME Inv, FayeIsLinked, [Next]_vars
  PROVE  FayeIsLinked'
<1> USE DEF FayeIsLinked
<1>1. ASSUME NEW c \in Client, NewFaye(c) PROVE FayeIsLinked'
  <2>1. faye[c] + 1 \in Gen
    <3>1. at[c] = "setup"  BY <1>1 DEF NewFaye
    <3>2. /\ faye[c] \in Nat /\ handlers[c] \in Nat /\ calls[c] \in 0..MaxConnects
          /\ Counts(c)
      BY BoundsAssumption DEF Inv, TypeOK, ClientInv
    <3>3. faye[c] + 1 <= handlers[c] /\ handlers[c] <= calls[c]
      BY <3>1, <3>2 DEF Counts
    <3> QED BY <3>2, <3>3, BoundsAssumption DEF Gen
  <2>2. /\ faye'[c] = faye[c] + 1 /\ link'[c][faye[c] + 1] = "down"
        /\ \A d \in Client \ {c} : faye'[d] = faye[d] /\ link'[d] = link[d]
    BY <1>1, <2>1 DEF NewFaye, Inv, TypeOK
  <2>3. ASSUME NEW d \in Client, faye'[d] > 0
        PROVE  link'[d][faye'[d]] \in {"up", "down"}
    <3>1. CASE d = c  BY <2>2, <3>1
    <3>2. CASE d # c  BY <2>2, <2>3, <3>2
    <3> QED BY <3>1, <3>2
  <2> QED BY <2>3
<1>2. ASSUME NEW c \in Client, (\E g \in Gen : LinkLost(c, g)) \/ Reconnect(c) \/ Setup(c)
      PROVE  FayeIsLinked'
  <2>1. PICK g : \E l \in {"up", "down"} : link' = [link EXCEPT ![c][g] = l]
    BY <1>2 DEF LinkLost, Reconnect, Setup
  <2>2. faye' = faye
    BY <1>2 DEF LinkLost, Reconnect, Setup, pushVars
  <2>3. ASSUME NEW d \in Client, faye[d] > 0
        PROVE  link'[d][faye[d]] \in {"up", "down"}
    <3>1. link[d][faye[d]] \in {"up", "down"}  BY <2>3
    <3>2. faye[d] \in DOMAIN link[d] /\ d \in DOMAIN link
      BY <2>3, BoundsAssumption DEF Inv, TypeOK, Gen
    <3>3. PICK l \in {"up", "down"} : link' = [link EXCEPT ![c][g] = l]
      BY <2>1
    <3>4. CASE d = c /\ faye[d] = g  BY <3>2, <3>3, <3>4
    <3>5. CASE ~(d = c /\ faye[d] = g)
      <4>1. link'[d][faye[d]] = link[d][faye[d]]  BY <3>2, <3>3, <3>5
      <4> QED BY <3>1, <4>1
    <3> QED BY <3>4, <3>5
  <2> QED BY <2>2, <2>3
<1>3. CASE UNCHANGED <<faye, link>>  BY <1>3
<1> QED
  BY <1>1, <1>2, <1>3
  DEF Next, Load, Disconnect, Connect, NoToken, AskUser, NoUser, UserKnown, SetupFails,
      Lock, Subscribed, GiveUp, Receive, HandleMessage, vars, pushVars, linkVars

\* Subscriptions of the whole process are asked for one at a time (real_time.go:234).
THEOREM OneAsksAtATime == Spec => []ConcurOwner
  BY LockInit, ConcurStep, ConnectorInvariant, PTL DEF Spec

\* What a Connect under way waits for: its own request to GroupMe, the mutex while
\* nobody has it, or the request of the one that has it; and that one's link is up,
\* so the request can be accepted, or has a supervisor that mends it, or is Stuck.
WaitsForSomeone ==
    \A c \in Client : at[c] # "idle" =>
        \/ at[c] \in {"user", "setup", "handshake"}
        \/ at[c] = "locking" /\ concur = NoClient
        \/ \E d \in Client :
             /\ concur = d /\ at[d] = "requesting"
             /\ link[d][faye[d]] = "up" \/ WatchedDown(d) \/ Stuck(d)

\* No Connect waits on another that waits, nor on a mutex nobody releases: the safety
\* behind ConnectEnds, and Stuck is the one exception.
THEOREM ConnectsNeverDeadlock == Spec => []WaitsForSomeone
<1>1. Spec => []FayeIsLinked
  BY LockInit, LinkedStep, ConnectorInvariant, PTL DEF Spec
<1>2. Inv /\ ConcurOwner /\ FayeIsLinked => WaitsForSomeone
  <2> SUFFICES ASSUME Inv, ConcurOwner, FayeIsLinked, NEW c \in Client, at[c] # "idle",
                      at[c] \notin {"user", "setup", "handshake"},
                      ~(at[c] = "locking" /\ concur = NoClient)
               PROVE  \E d \in Client :
                        /\ concur = d /\ at[d] = "requesting"
                        /\ link[d][faye[d]] = "up" \/ WatchedDown(d) \/ Stuck(d)
    BY DEF WaitsForSomeone
  <2>1. at[c] \in {"locking", "requesting"} /\ concur \in Client \cup {NoClient}
    BY DEF Inv, TypeOK, Place
  <2>2. PICK d \in Client : concur = d /\ at[d] = "requesting"
    BY <2>1 DEF ConcurOwner
  <2>3. /\ loops[d] > 0 /\ loops[d] \in Nat /\ faye[d] \in Nat /\ loops[d] <= faye[d]
        /\ sups[d] \in Nat
    BY <2>2 DEF Inv, TypeOK, ClientInv, Served, Counts
  <2>4. link[d][faye[d]] \in {"up", "down"}
    BY <2>3 DEF FayeIsLinked
  <2> QED BY <2>2, <2>3, <2>4 DEF WatchedDown, Stuck
<1> QED BY <1>1, <1>2, ConnectorInvariant, OneAsksAtATime, PTL
=============================================================================
