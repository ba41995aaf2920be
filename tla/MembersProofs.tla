--------------------------- MODULE MembersProofs ---------------------------
(***************************************************************************)
(* What Members.tla checks of two users, for any number of them, of changes  *)
(* and of lost pushes, with the one message loop of a Connect that has run   *)
(* once.                                                                     *)
(***************************************************************************)
EXTENDS Members, FiniteSets, FiniteSetTheorems, TLAPS

\* One HandleMessageLoop, as long as Connect got through once (Connector.tla).
OneLoop == \A k, l \in Loop : k = l

\* A queued change puts a member into the room, or takes one out.
Puts(i, m)  == m \in queue[i].members
Drops(i, m) == queue[i].full /\ m \notin queue[i].members

PutsAfter(i, m)  == \E j \in 1..Len(queue) : j > i /\ Puts(j, m)
DropsAfter(i, m) == \E j \in 1..Len(queue) : j > i /\ Drops(j, m)

\* The room, or the one that is being created, has the member.
Shown(m) ==
    \/ portal = "creating" /\ m \in info
    \/ portal = "up" /\ m \in room

\* An addition is on its way that no list can cancel any more; with a list in
\* hand that has the member, Coming.
Soon(m) ==
    \/ \E p \in flight : p.kind = "added" /\ p.who = m
    \/ \E l \in Loop : at[l] = "took" /\ held[l].kind = "added" /\ held[l].who = m

Coming(m) == Soon(m) \/ \E l \in Loop : at[l] = "fetched" /\ m \in list[l]

\* Whoever is in the group is shown, or will be after the last change that drops
\* them.
Present(m) ==
    /\ \A i \in 1..Len(queue) : Drops(i, m) => Coming(m) \/ PutsAfter(i, m)
    /\ portal # "none" => Coming(m) \/ Shown(m) \/ PutsAfter(0, m)
    /\ \A l \in Loop : at[l] = "fetched" /\ m \notin list[l] => Soon(m)

\* A removal of the member is on its way; or a list without them.
Leaving(m) == \E p \in flight : p.kind = "removed" /\ p.who = m

Going(m) ==
    \/ Leaving(m)
    \/ \E l \in Loop : at[l] = "took" /\ held[l].kind = "removed"
    \/ \E l \in Loop : at[l] = "fetched" /\ m \notin list[l]

\* Whoever has left is not shown, or will not be after the last change that puts
\* them back.
Absent(m) ==
    /\ \A i \in 1..Len(queue) : Puts(i, m) => Going(m) \/ DropsAfter(i, m)
    /\ Shown(m) => Going(m) \/ DropsAfter(0, m)
    /\ \A l \in Loop :
         \/ at[l] = "took" /\ held[l].kind = "added" /\ held[l].who = m
         \/ at[l] = "fetched" /\ m \in list[l]
         => Leaving(m)

\* Every addition on its way has a newer removal behind it.
Followed(m) ==
    \A p \in flight : p.kind = "added" /\ p.who = m =>
        \E q \in flight : q.kind = "removed" /\ q.who = m /\ q.n > p.n

Numbered == \A p \in flight : p.n <= changes

Inv ==
    /\ TypeOK /\ Numbered
    /\ \A m \in group \ (kicked \cup missed \cup unnamed) : Present(m)
    /\ \A m \in Member \ (group \cup overtaken) : Followed(m)
    /\ \A m \in Member \ (group \cup missed \cup overtaken) : Absent(m)

-----------------------------------------------------------------------------
\* At the start there is no room, and nothing on its way.
LEMMA MembersInit == Init => Inv
<1> SUFFICES ASSUME Init PROVE Inv  OBVIOUS
<1>1. TypeOK
  <2>1. 0 \in 0..MaxChanges /\ 0 \in 0..MaxLost /\ 0 \in 0..MaxOther
    BY BoundsAssumption
  <2>2. <<>> \in Seq(Change)  OBVIOUS
  <2>3. held \in [Loop -> Push \cup {NoPush}] /\ at \in [Loop -> {"idle", "took", "fetched"}]
        /\ list \in [Loop -> SUBSET Member]
    BY DEF Init
  <2>4. \A l \in Loop : held[l] = NoPush /\ at[l] = "idle"  BY DEF Init
  <2> QED BY <2>1, <2>2, <2>3, <2>4 DEF Init, TypeOK
<1>2. Numbered /\ \A m \in Member : Followed(m)
  BY DEF Init, Numbered, Followed
<1>3. queue = <<>> /\ portal = "none" /\ \A l \in Loop : at[l] = "idle"
  BY DEF Init
<1>4. \A m \in Member : Present(m) /\ Absent(m)
  BY <1>3 DEF Present, Absent, Shown
<1>5. group \subseteq Member  BY <1>1 DEF TypeOK
<1> QED BY <1>1, <1>2, <1>4, <1>5 DEF Inv

-----------------------------------------------------------------------------
(* Types, for any number of loops.                                            *)

\* A loop that is given a place, and what it holds there, stays in its ranges.
LEMMA LoopTyped ==
  ASSUME TypeOK, NEW l \in Loop, NEW place \in {"idle", "took", "fetched"},
         NEW h \in Push \cup {NoPush}, h = NoPush <=> place = "idle",
         at' = [at EXCEPT ![l] = place], held' = [held EXCEPT ![l] = h]
  PROVE  /\ at' \in [Loop -> {"idle", "took", "fetched"}]
         /\ held' \in [Loop -> Push \cup {NoPush}]
         /\ \A k \in Loop : held'[k] = NoPush <=> at'[k] = "idle"
BY DEF TypeOK

\* A push is about a member, and is not mistaken for none in hand.
LEMMA PushIsOne ==
  ASSUME NEW p \in Push
  PROVE  p # NoPush /\ p.who \in Member /\ p.kind \in {"added", "removed"}
<1>1. p.kind \in {"added", "removed"} /\ p.who \in Member  BY DEF Push
<1>2. NoPush.kind = "none"  BY DEF NoPush
<1> QED BY <1>1, <1>2

\* A push that leaves the way can only add its member to the overtaken.
LEMMA GoneTyped ==
  ASSUME TypeOK, NEW p \in flight, Gone(p)
  PROVE  p \in Push /\ flight' \subseteq Push /\ overtaken' \subseteq Member
BY PushIsOne DEF TypeOK, Gone

\* What a loop queues is a change, and leaves it idle.
LEMMA QueuedTyped ==
  ASSUME TypeOK, NEW l \in Loop, NEW e \in Change, queue' = Append(queue, e), Idle(l),
         unnamed' \subseteq Member,
         UNCHANGED <<groupVars, flight, missed, overtaken, lost, others, portalVars,
                     crashed>>
  PROVE  TypeOK'
<1>1. queue' \in Seq(Change) /\ list' \in [Loop -> SUBSET Member]
  BY DEF TypeOK, Idle
<1>2. /\ at' \in [Loop -> {"idle", "took", "fetched"}]
      /\ held' \in [Loop -> Push \cup {NoPush}]
      /\ \A k \in Loop : held'[k] = NoPush <=> at'[k] = "idle"
  <2>1. at' = [at EXCEPT ![l] = "idle"] /\ held' = [held EXCEPT ![l] = NoPush]
    BY DEF Idle
  <2> QED BY <2>1, LoopTyped
<1> QED BY <1>1, <1>2 DEF TypeOK, groupVars, pushVars, portalVars

LEMMA TypeKeeps == TypeOK /\ [Next]_vars => TypeOK'
<1> SUFFICES ASSUME TypeOK, [Next]_vars PROVE TypeOK'  OBVIOUS
<1> USE DEF groupVars, pushVars, loopVars, portalVars
<1>1. ASSUME NEW m \in Member, Add(m) \/ Remove(m) PROVE TypeOK'
  <2>1. PICK kind \in {"added", "removed"} : Changed(kind, m)
    BY <1>1 DEF Add, Remove
  <2>2. /\ [n |-> changes + 1, kind |-> kind, who |-> m] \in Push
        /\ changes' \in 0..MaxChanges
    BY <2>1, BoundsAssumption DEF Changed, Push, TypeOK
  <2>3. flight' \subseteq Push /\ group' \subseteq Member /\ kicked' \subseteq group'
    BY <1>1, <2>1, <2>2 DEF Add, Remove, Changed, TypeOK
  <2> QED BY <2>1, <2>2, <2>3 DEF Changed, TypeOK
<1>2. ASSUME NEW m \in Member, AutoKick(m) PROVE TypeOK'
  BY <1>2, BoundsAssumption DEF AutoKick, TypeOK
<1>3. ASSUME NEW p \in flight, Lose(p) PROVE TypeOK'
  <2>1. p \in Push /\ flight' \subseteq Push /\ overtaken' \subseteq Member
        /\ p.who \in Member /\ missed' = missed \cup {p.who}
    BY <1>3, GoneTyped, PushIsOne DEF Lose
  <2> QED BY <1>3, <2>1, BoundsAssumption DEF Lose, TypeOK
<1>4. ASSUME NEW p \in flight, NEW l \in Loop, Take(l, p) PROVE TypeOK'
  <2>1. p \in Push /\ p # NoPush /\ flight' \subseteq Push /\ overtaken' \subseteq Member
    BY <1>4, GoneTyped, PushIsOne DEF Take
  <2>2. /\ at' \in [Loop -> {"idle", "took", "fetched"}]
        /\ held' \in [Loop -> Push \cup {NoPush}]
        /\ \A k \in Loop : held'[k] = NoPush <=> at'[k] = "idle"
    BY <1>4, <2>1, LoopTyped DEF Take
  <2> QED BY <1>4, <2>1, <2>2 DEF Take, TypeOK
<1>5. ASSUME NEW l \in Loop, HandleAdded(l) PROVE TypeOK'
  <2>1. held[l] \in Push  BY <1>5 DEF HandleAdded, TypeOK
  <2>2. PICK names \in NamesUser :
          /\ queue' = Append(queue, [full |-> FALSE, members |-> Listed(held[l], names)])
          /\ Told(held[l].who, names)
    BY <1>5 DEF HandleAdded
  <2>3. /\ [full |-> FALSE, members |-> Listed(held[l], names)] \in Change
        /\ unnamed' \subseteq Member
    BY <2>1, <2>2, PushIsOne DEF Change, Listed, Told, TypeOK
  <2> QED BY <1>5, <2>2, <2>3, QueuedTyped DEF HandleAdded
<1>6. ASSUME NEW l \in Loop, HandleRemoved(l) PROVE TypeOK'
  <2>1. /\ at' \in [Loop -> {"idle", "took", "fetched"}]
        /\ list' \in [Loop -> SUBSET Member]
        /\ \A k \in Loop : held'[k] = NoPush <=> at'[k] = "idle"
    BY <1>6 DEF HandleRemoved, TypeOK
  <2> QED BY <1>6, <2>1 DEF HandleRemoved, TypeOK
<1>7. ASSUME NEW l \in Loop, HandleRemovedFails(l) PROVE TypeOK'
  BY <1>7 DEF HandleRemovedFails, TypeOK
<1>8. ASSUME NEW l \in Loop, QueueRemoved(l) PROVE TypeOK'
  <2>1. [full |-> TRUE, members |-> list[l]] \in Change  BY DEF Change, TypeOK
  <2>2. unnamed' \subseteq Member  BY <1>8 DEF QueueRemoved, TypeOK
  <2> QED BY <1>8, <2>1, <2>2, QueuedTyped DEF QueueRemoved
<1>9. CASE OtherEvent
  <2>1. [full |-> FALSE, members |-> {}] \in Change  BY DEF Change
  <2> QED BY <1>9, <2>1, BoundsAssumption DEF OtherEvent, TypeOK
<1>10. CASE GetChatInfo \/ CreateRoom
  BY <1>10 DEF GetChatInfo, CreateRoom, TypeOK
<1>11. CASE HandleChange \/ GetChatInfoFails
  <2>1. queue # <<>> /\ queue' = Tail(queue)
    BY <1>11 DEF HandleChange, GetChatInfoFails
  <2>2. Head(queue) \in Change /\ queue' \in Seq(Change)  BY <2>1 DEF TypeOK
  <2>3. room' \subseteq Member
    BY <1>11, <2>2 DEF HandleChange, GetChatInfoFails, Apply, Change, TypeOK
  <2> QED BY <1>11, <2>2, <2>3 DEF HandleChange, GetChatInfoFails, TypeOK
<1>12. CASE UNCHANGED vars
  BY <1>12 DEF vars, TypeOK
<1> QED
  BY <1>1, <1>2, <1>3, <1>4, <1>5, <1>6, <1>7, <1>8, <1>9, <1>10, <1>11, <1>12
  DEF Next, Handle, Portal

-----------------------------------------------------------------------------
\* A step that moves neither queue, loops nor room keeps whoever was on the way.
LEMMA StillPresent ==
  ASSUME NEW m \in Member, Present(m), UNCHANGED <<at, held, list, queue, portal, info, room>>,
         Soon(m) => Soon(m)'
  PROVE  Present(m)'
<1>1. Coming(m) => Coming(m)'  BY DEF Coming
<1>2. /\ Shown(m)' <=> Shown(m)
      /\ \A i \in 0..Len(queue) : PutsAfter(i, m)' <=> PutsAfter(i, m)
      /\ \A i \in 1..Len(queue) : Drops(i, m)' <=> Drops(i, m)
      /\ PutsAfter(0, m)' <=> PutsAfter(0, m)
  BY DEF Shown, PutsAfter, Puts, Drops
<1> QED BY <1>1, <1>2 DEF Present

\* Nor does it bring back whoever was to leave.
LEMMA StillAbsent ==
  ASSUME NEW m \in Member, Absent(m), UNCHANGED <<at, held, list, queue, portal, info, room>>,
         Leaving(m) => Leaving(m)'
  PROVE  Absent(m)'
<1>1. Going(m) => Going(m)'  BY DEF Going
<1>2. /\ Shown(m)' <=> Shown(m)
      /\ \A i \in 1..Len(queue) : DropsAfter(i, m)' <=> DropsAfter(i, m)
      /\ \A i \in 1..Len(queue) : Puts(i, m)' <=> Puts(i, m)
      /\ DropsAfter(0, m)' <=> DropsAfter(0, m)
  BY DEF Shown, DropsAfter, Puts, Drops
<1> QED BY <1>1, <1>2 DEF Absent

\* An event queued last cannot be cancelled, and cancels what came before it.
LEMMA AppendPresent ==
  ASSUME NEW m \in Member, Present(m), queue \in Seq(Change), NEW e \in Change,
         queue' = Append(queue, e), UNCHANGED portalVars,
         Coming(m) => Coming(m)' \/ m \in e.members,
         e.full /\ m \notin e.members => Coming(m)',
         \A l \in Loop : at'[l] = "fetched" /\ m \notin list'[l] => Soon(m)'
  PROVE  Present(m)'
<1>1. /\ Len(queue') = Len(queue) + 1 /\ Len(queue) \in Nat
      /\ \A i \in 1..Len(queue) : queue'[i] = queue[i]
      /\ queue'[Len(queue) + 1] = e
  OBVIOUS
<1>2. /\ \A i \in 1..Len(queue') : i \in 1..Len(queue) \/ i = Len(queue) + 1
      /\ \A i \in 1..Len(queue) : i \in 1..Len(queue') /\ i < Len(queue) + 1
      /\ Len(queue) + 1 \in 1..Len(queue') /\ 0 < Len(queue) + 1
  BY <1>1
<1>3. \A i \in 0..Len(queue) : m \in e.members => PutsAfter(i, m)'
  BY <1>1, <1>2 DEF PutsAfter, Puts
<1>4. \A i \in 0..Len(queue) : PutsAfter(i, m) => PutsAfter(i, m)'
  BY <1>1, <1>2 DEF PutsAfter, Puts
<1>5. Shown(m)' <=> Shown(m)  BY DEF Shown, portalVars
<1>6. ASSUME NEW i \in 1..Len(queue'), Drops(i, m)' PROVE Coming(m)' \/ PutsAfter(i, m)'
  <2>1. CASE i = Len(queue) + 1  BY <1>1, <1>6, <2>1 DEF Drops
  <2>2. CASE i \in 1..Len(queue)
    <3>1. Drops(i, m)  BY <1>1, <1>6, <2>2 DEF Drops
    <3>2. Coming(m) \/ PutsAfter(i, m)  BY <2>2, <3>1 DEF Present
    <3> QED BY <1>1, <1>3, <1>4, <2>2, <3>2
  <2> QED BY <1>2, <2>1, <2>2
<1>7. portal' # "none" => Coming(m)' \/ Shown(m)' \/ PutsAfter(0, m)'
  <2>1. portal' = portal /\ 0 \in 0..Len(queue)  BY <1>1 DEF portalVars
  <2> QED BY <1>3, <1>4, <1>5, <2>1 DEF Present
<1> QED BY <1>6, <1>7 DEF Present

\* Whoever the event queued last puts into the room is there to stay, whatever came
\* before it.
LEMMA LastPresent ==
  ASSUME queue \in Seq(Change), NEW e \in Change, NEW m \in e.members, ~e.full,
         queue' = Append(queue, e), \A l \in Loop : at'[l] = "idle"
  PROVE  Present(m)'
<1>1. /\ Len(queue') = Len(queue) + 1 /\ Len(queue) \in Nat
      /\ queue'[Len(queue) + 1] = e
  OBVIOUS
<1>2. \A i \in 0..Len(queue) : PutsAfter(i, m)'
  <2>1. \A i \in 0..Len(queue) : Len(queue) + 1 \in 1..Len(queue') /\ Len(queue) + 1 > i
    BY <1>1
  <2> QED BY <1>1, <2>1 DEF PutsAfter, Puts
<1>3. \A i \in 1..Len(queue') : Drops(i, m)' => i \in 0..Len(queue)
  <2>1. \A i \in 1..Len(queue') : i \in 0..Len(queue) \/ i = Len(queue) + 1
    BY <1>1
  <2> QED BY <1>1, <2>1 DEF Drops
<1>4. 0 \in 0..Len(queue)  BY <1>1
<1> QED BY <1>2, <1>3, <1>4 DEF Present

\* Nor does it show somebody who was to leave and is not in it.
LEMMA AppendAbsent ==
  ASSUME NEW m \in Member, Absent(m), queue \in Seq(Change), NEW e \in Change,
         queue' = Append(queue, e), UNCHANGED portalVars,
         Going(m) => Going(m)' \/ (e.full /\ m \notin e.members),
         m \in e.members => Going(m)',
         \A l \in Loop :
           \/ at'[l] = "took" /\ held'[l].kind = "added" /\ held'[l].who = m
           \/ at'[l] = "fetched" /\ m \in list'[l]
           => Leaving(m)'
  PROVE  Absent(m)'
<1>1. /\ Len(queue') = Len(queue) + 1 /\ Len(queue) \in Nat
      /\ \A i \in 1..Len(queue) : queue'[i] = queue[i]
      /\ queue'[Len(queue) + 1] = e
  OBVIOUS
<1>2. /\ \A i \in 1..Len(queue') : i \in 1..Len(queue) \/ i = Len(queue) + 1
      /\ \A i \in 1..Len(queue) : i \in 1..Len(queue') /\ i < Len(queue) + 1
      /\ Len(queue) + 1 \in 1..Len(queue') /\ 0 < Len(queue) + 1
  BY <1>1
<1>3. \A i \in 0..Len(queue) : e.full /\ m \notin e.members => DropsAfter(i, m)'
  BY <1>1, <1>2 DEF DropsAfter, Drops
<1>4. \A i \in 0..Len(queue) : DropsAfter(i, m) => DropsAfter(i, m)'
  BY <1>1, <1>2 DEF DropsAfter, Drops
<1>5. Shown(m)' <=> Shown(m)  BY DEF Shown, portalVars
<1>6. ASSUME NEW i \in 1..Len(queue'), Puts(i, m)' PROVE Going(m)' \/ DropsAfter(i, m)'
  <2>1. CASE i = Len(queue) + 1  BY <1>1, <1>6, <2>1 DEF Puts
  <2>2. CASE i \in 1..Len(queue)
    <3>1. Puts(i, m)  BY <1>1, <1>6, <2>2 DEF Puts
    <3>2. Going(m) \/ DropsAfter(i, m)  BY <2>2, <3>1 DEF Absent
    <3> QED BY <1>1, <1>3, <1>4, <2>2, <3>2
  <2> QED BY <1>2, <2>1, <2>2
<1>7. Shown(m)' => Going(m)' \/ DropsAfter(0, m)'
  <2>1. 0 \in 0..Len(queue)  BY <1>1
  <2> QED BY <1>3, <1>4, <1>5, <2>1 DEF Absent
<1> QED BY <1>6, <1>7 DEF Absent

\* The event at the head is gone, and has been applied if there is a room.
LEMMA TailPresent ==
  ASSUME NEW m \in Member, Present(m), queue \in Seq(Change), queue # <<>>,
         queue' = Tail(queue), UNCHANGED <<flight, at, held, list, portal, info>>,
         \/ portal = "none"
         \/ portal = "up" /\ room' = Apply(Head(queue))
  PROVE  Present(m)'
<1>1. /\ Len(queue) \in Nat \ {0} /\ Len(queue') = Len(queue) - 1
      /\ \A i \in 1..Len(queue') : queue'[i] = queue[i + 1]
      /\ Head(queue) = queue[1]
  OBVIOUS
<1>2. (Coming(m)' <=> Coming(m)) /\ (Soon(m)' <=> Soon(m))
  BY DEF Coming, Soon
<1>3. \A i \in 0..Len(queue') : PutsAfter(i + 1, m) => PutsAfter(i, m)'
  <2> SUFFICES ASSUME NEW i \in 0..Len(queue'), NEW j \in 1..Len(queue), j > i + 1,
                      Puts(j, m)
      PROVE  PutsAfter(i, m)'
    BY DEF PutsAfter
  <2>1. j - 1 \in 1..Len(queue') /\ j - 1 > i /\ queue'[j - 1] = queue[j]  BY <1>1
  <2> QED BY <2>1 DEF PutsAfter, Puts
<1>4. ASSUME NEW i \in 1..Len(queue'), Drops(i, m)' PROVE Coming(m)' \/ PutsAfter(i, m)'
  <2>1. i + 1 \in 1..Len(queue) /\ Drops(i + 1, m) /\ i \in 0..Len(queue')
    BY <1>1, <1>4 DEF Drops
  <2> QED BY <1>2, <1>3, <2>1 DEF Present
<1>5. ASSUME portal' # "none" PROVE Coming(m)' \/ Shown(m)' \/ PutsAfter(0, m)'
  <2>1. portal = "up" /\ room' = Apply(queue[1]) /\ portal' = portal
    BY <1>1, <1>5
  <2>2. 1 \in 1..Len(queue) /\ 0 \in 0..Len(queue') /\ 0 + 1 = 1  BY <1>1
  <2>3. CASE Drops(1, m)
    BY <1>2, <1>3, <2>2, <2>3 DEF Present
  <2>4. CASE Puts(1, m)
    BY <2>1, <2>4 DEF Puts, Shown, Apply
  <2>5. CASE ~Drops(1, m) /\ ~Puts(1, m)
    <3>1. m \in room => m \in room'  BY <2>1, <2>5 DEF Drops, Puts, Apply
    <3>2. Coming(m) \/ m \in room \/ PutsAfter(0, m)
      BY <2>1 DEF Present, Shown
    <3>3. PutsAfter(0, m) => PutsAfter(1, m)
      <4> SUFFICES ASSUME NEW j \in 1..Len(queue), Puts(j, m) PROVE PutsAfter(1, m)
        BY DEF PutsAfter
      <4>1. j # 1 /\ j > 1  BY <1>1, <2>5
      <4> QED BY <4>1 DEF PutsAfter
    <3> QED BY <1>2, <1>3, <2>1, <2>2, <3>1, <3>2, <3>3 DEF Shown
  <2> QED BY <2>3, <2>4, <2>5
<1>6. \A l \in Loop : at'[l] = "fetched" /\ m \notin list'[l] => Soon(m)'
  BY <1>2 DEF Present
<1> QED BY <1>4, <1>5, <1>6 DEF Present

\* Somebody who is to leave is still to leave, or has been dropped by it.
LEMMA TailAbsent ==
  ASSUME NEW m \in Member, Absent(m), queue \in Seq(Change), queue # <<>>,
         queue' = Tail(queue), UNCHANGED <<flight, at, held, list, portal, info>>,
         \/ portal = "none"
         \/ portal = "up" /\ room' = Apply(Head(queue))
  PROVE  Absent(m)'
<1>1. /\ Len(queue) \in Nat \ {0} /\ Len(queue') = Len(queue) - 1
      /\ \A i \in 1..Len(queue') : queue'[i] = queue[i + 1]
      /\ Head(queue) = queue[1]
  OBVIOUS
<1>2. (Going(m)' <=> Going(m)) /\ (Leaving(m)' <=> Leaving(m))
  BY DEF Going, Leaving
<1>3. \A i \in 0..Len(queue') : DropsAfter(i + 1, m) => DropsAfter(i, m)'
  <2> SUFFICES ASSUME NEW i \in 0..Len(queue'), NEW j \in 1..Len(queue), j > i + 1,
                      Drops(j, m)
      PROVE  DropsAfter(i, m)'
    BY DEF DropsAfter
  <2>1. j - 1 \in 1..Len(queue') /\ j - 1 > i /\ queue'[j - 1] = queue[j]  BY <1>1
  <2> QED BY <2>1 DEF DropsAfter, Drops
<1>4. ASSUME NEW i \in 1..Len(queue'), Puts(i, m)' PROVE Going(m)' \/ DropsAfter(i, m)'
  <2>1. i + 1 \in 1..Len(queue) /\ Puts(i + 1, m) /\ i \in 0..Len(queue')
    BY <1>1, <1>4 DEF Puts
  <2> QED BY <1>2, <1>3, <2>1 DEF Absent
<1>5. ASSUME Shown(m)' PROVE Going(m)' \/ DropsAfter(0, m)'
  <2>1. portal = "up" /\ room' = Apply(queue[1]) /\ m \in room'
    BY <1>1, <1>5 DEF Shown
  <2>2. 1 \in 1..Len(queue) /\ 0 \in 0..Len(queue') /\ 0 + 1 = 1  BY <1>1
  <2>3. ~Drops(1, m)  BY <2>1 DEF Drops, Apply
  <2>4. DropsAfter(0, m) => DropsAfter(1, m)
    <3> SUFFICES ASSUME NEW j \in 1..Len(queue), Drops(j, m) PROVE DropsAfter(1, m)
      BY DEF DropsAfter
    <3>1. j # 1 /\ j > 1  BY <1>1, <2>3
    <3> QED BY <3>1 DEF DropsAfter
  <2>5. CASE Puts(1, m)
    BY <1>2, <1>3, <2>2, <2>5 DEF Absent
  <2>6. CASE ~Puts(1, m)
    <3>1. Shown(m)  BY <2>1, <2>3, <2>6 DEF Drops, Puts, Apply, Shown
    <3> QED BY <1>2, <1>3, <2>2, <2>4, <3>1 DEF Absent
  <2> QED BY <2>5, <2>6
<1> QED BY <1>2, <1>4, <1>5 DEF Absent

-----------------------------------------------------------------------------
(* GroupMe.                                                                   *)

\* Somebody is added or removed: the push is newer than any before it.
LEMMA ChangedKeeps ==
  ASSUME Inv, NEW m \in Member, Add(m) \/ Remove(m) PROVE Inv'
<1> USE DEF Inv
<1>1. PICK kind \in {"added", "removed"} :
        /\ changes < MaxChanges /\ changes' = changes + 1
        /\ flight' = flight \cup {[n |-> changes + 1, kind |-> kind, who |-> m]}
        /\ UNCHANGED <<missed, unnamed, overtaken, lost, others, crashed>>
        /\ UNCHANGED <<at, held, list, queue, portal, info, room>>
        /\ kicked' = kicked \ {m}
        /\ \/ kind = "added" /\ group' = group \cup {m}
           \/ kind = "removed" /\ group' = group \ {m}
  BY DEF Add, Remove, Changed, loopVars, portalVars
<1> DEFINE p == [n |-> changes + 1, kind |-> kind, who |-> m]
<1>2. /\ p \in Push /\ p \in flight' /\ p.kind = kind /\ p.who = m /\ p.n = changes + 1
      /\ changes' \in 0..MaxChanges /\ flight' = flight \cup {p}
  BY <1>1, BoundsAssumption DEF Push, TypeOK
<1>3. flight \subseteq Push /\ changes \in Nat
  BY BoundsAssumption DEF TypeOK
<1> HIDE DEF p
<1>4. TypeOK'  BY TypeKeeps DEF Next
<1>5. Numbered'
  <2>1. \A q \in flight : q.n \in Nat  BY <1>3 DEF Push
  <2> QED BY <1>1, <1>2, <1>3, <2>1 DEF Numbered
<1>6. ASSUME NEW n \in group' \ (kicked' \cup missed' \cup unnamed') PROVE Present(n)'
  <2>1. n \in Member  BY <1>4 DEF TypeOK
  <2>2. CASE n = m /\ kind = "added"
    <3>1. Soon(n)'  BY <1>2, <2>2 DEF Soon
    <3> QED BY <3>1 DEF Present, Coming
  <2>3. CASE n # m
    <3>1. Present(n)  BY <1>1, <1>6, <2>3
    <3>2. Soon(n) => Soon(n)'  BY <1>1, <1>2 DEF Soon
    <3> QED BY <1>1, <2>1, <3>1, <3>2, StillPresent
  <2> QED BY <1>1, <2>2, <2>3
<1>7. ASSUME NEW n \in Member \ (group' \cup overtaken') PROVE Followed(n)'
  <2>1. CASE n = m
    <3>1. kind = "removed"  BY <1>1, <2>1, <1>7
    <3>2. \A q \in flight : q.n < p.n
      <4>1. \A q \in flight : q.n \in Nat  BY <1>3 DEF Push
      <4> QED BY <1>2, <1>3, <4>1 DEF Numbered
    <3> QED BY <1>2, <2>1, <3>1, <3>2 DEF Followed
  <2>2. CASE n # m
    <3>1. Followed(n)  BY <1>1, <2>2
    <3> QED BY <1>2, <2>2, <3>1 DEF Followed
  <2> QED BY <2>1, <2>2
<1>8. ASSUME NEW n \in Member \ (group' \cup missed' \cup overtaken') PROVE Absent(n)'
  <2>1. CASE n = m
    <3>1. Leaving(n)'  BY <1>1, <1>2, <1>8, <2>1 DEF Leaving
    <3> QED BY <3>1 DEF Absent, Going
  <2>2. CASE n # m
    <3>1. Absent(n)  BY <1>1, <2>2
    <3>2. Leaving(n) => Leaving(n)'  BY <1>2 DEF Leaving
    <3> QED BY <1>1, <3>1, <3>2, StillAbsent
  <2> QED BY <2>1, <2>2
<1> QED BY <1>4, <1>5, <1>6, <1>7, <1>8

\* Somebody is autokicked: nobody else's matter.
LEMMA AutoKickKeeps ==
  ASSUME Inv, NEW m \in Member, AutoKick(m) PROVE Inv'
<1> USE DEF Inv
<1>1. /\ m \in group /\ kicked' = kicked \cup {m} /\ changes' = changes + 1
      /\ changes < MaxChanges
      /\ UNCHANGED <<group, flight, missed, unnamed, overtaken, lost, others, crashed>>
      /\ UNCHANGED <<at, held, list, queue, portal, info, room>>
  BY DEF AutoKick, pushVars, loopVars, portalVars
<1>2. TypeOK'  BY TypeKeeps DEF Next
<1>3. Numbered'
  <2>1. flight \subseteq Push /\ changes \in Nat  BY BoundsAssumption DEF TypeOK
  <2>2. \A q \in flight : q.n \in Nat  BY <2>1 DEF Push
  <2> QED BY <1>1, <2>1, <2>2 DEF Numbered
<1>4. ASSUME NEW n \in group' \ (kicked' \cup missed' \cup unnamed') PROVE Present(n)'
  <2>1. n \in Member /\ Present(n)  BY <1>1, <1>2, <1>4 DEF TypeOK
  <2>2. Soon(n) => Soon(n)'  BY <1>1 DEF Soon
  <2> QED BY <1>1, <2>1, <2>2, StillPresent
<1>5. ASSUME NEW n \in Member \ (group' \cup overtaken') PROVE Followed(n)'
  BY <1>1 DEF Followed
<1>6. ASSUME NEW n \in Member \ (group' \cup missed' \cup overtaken') PROVE Absent(n)'
  <2>1. Leaving(n) => Leaving(n)'  BY <1>1 DEF Leaving
  <2> QED BY <1>1, <2>1, StillAbsent
<1> QED BY <1>2, <1>3, <1>4, <1>5, <1>6

\* A push leaves the way: only its member can lose a removal, and if that was ahead
\* of an addition the member counts as overtaken.
LEMMA GoneFollowed ==
  ASSUME Inv, NEW p \in flight, Gone(p), UNCHANGED <<group, changes>>
  PROVE  /\ \A m \in Member \ (group' \cup overtaken') : Followed(m)'
         /\ overtaken \subseteq overtaken' /\ overtaken' \subseteq Member
         /\ flight' = flight \ {p}
         /\ Numbered'
         /\ \A m \in Member : Leaving(m) => Leaving(m)' \/ (p.kind = "removed" /\ p.who = m)
<1> USE DEF Inv
<1>1. p \in Push /\ flight \subseteq Push /\ flight' = flight \ {p}
  BY DEF TypeOK, Gone
<1>2. p.who \in Member /\ overtaken' \in {overtaken, overtaken \cup {p.who}}
  BY <1>1 DEF Gone, Push
<1>3. overtaken \subseteq overtaken' /\ overtaken' \subseteq Member
  BY <1>2 DEF TypeOK
<1>4. ASSUME NEW m \in Member \ (group' \cup overtaken') PROVE Followed(m)'
  <2>1. Followed(m)  BY <1>3, <1>4
  <2> SUFFICES ASSUME NEW a \in flight', a.kind = "added", a.who = m
      PROVE \E q \in flight' : q.kind = "removed" /\ q.who = m /\ q.n > a.n
    BY DEF Followed
  <2>2. PICK q \in flight : q.kind = "removed" /\ q.who = m /\ q.n > a.n
    BY <1>1, <2>1 DEF Followed
  <2>3. q # p
    <3>1. a.n < q.n  BY <1>1, <2>2 DEF Push
    <3> QED BY <1>1, <2>2, <3>1, <1>4 DEF Gone
  <2> QED BY <1>1, <2>2, <2>3
<1>5. Numbered'
  BY <1>1 DEF Numbered
<1>6. \A m \in Member : Leaving(m) => Leaving(m)' \/ (p.kind = "removed" /\ p.who = m)
  BY <1>1 DEF Leaving
<1> QED BY <1>1, <1>3, <1>4, <1>5, <1>6

\* A push is lost: its member is missed until the group is asked for again.
LEMMA LoseKeeps == ASSUME Inv, NEW p \in flight, Lose(p) PROVE Inv'
<1> USE DEF Inv
<1>1. /\ Gone(p) /\ missed' = missed \cup {p.who} /\ lost < MaxLost /\ lost' = lost + 1
      /\ UNCHANGED <<group, kicked, changes, unnamed, others, crashed>>
      /\ UNCHANGED <<at, held, list, queue, portal, info, room>>
  BY DEF Lose, groupVars, loopVars, portalVars
<1>2. /\ \A m \in Member \ (group' \cup overtaken') : Followed(m)'
      /\ overtaken \subseteq overtaken' /\ overtaken' \subseteq Member
      /\ flight' = flight \ {p} /\ Numbered'
      /\ \A m \in Member : Leaving(m) => Leaving(m)' \/ (p.kind = "removed" /\ p.who = m)
  BY <1>1, GoneFollowed
<1>3. p \in Push /\ p.who \in Member  BY DEF TypeOK, Push
<1>4. TypeOK'  BY TypeKeeps DEF Next
<1>5. ASSUME NEW n \in group' \ (kicked' \cup missed' \cup unnamed') PROVE Present(n)'
  <2>1. n \in Member /\ Present(n) /\ n # p.who  BY <1>1, <1>5 DEF TypeOK
  <2>2. Soon(n) => Soon(n)'  BY <1>1, <1>2, <2>1 DEF Soon
  <2> QED BY <1>1, <2>1, <2>2, StillPresent
<1>6. ASSUME NEW n \in Member \ (group' \cup missed' \cup overtaken') PROVE Absent(n)'
  <2>1. n # p.who /\ Absent(n)  BY <1>1, <1>2, <1>6
  <2>2. Leaving(n) => Leaving(n)'  BY <1>2, <2>1
  <2> QED BY <1>1, <2>1, <2>2, StillAbsent
<1> QED BY <1>2, <1>4, <1>5, <1>6

-----------------------------------------------------------------------------
(* The message loop.                                                          *)

\* The one loop takes a push.
LEMMA TakeKeeps ==
  ASSUME Inv, OneLoop, NEW l \in Loop, NEW p \in flight, Take(l, p) PROVE Inv'
<1> USE DEF Inv
<1>1. /\ at[l] = "idle" /\ Gone(p)
      /\ at' = [at EXCEPT ![l] = "took"] /\ held' = [held EXCEPT ![l] = p]
      /\ UNCHANGED <<group, kicked, changes, missed, unnamed, lost, list, queue, others, portal,
                     info, room, crashed>>
  BY DEF Take, groupVars, portalVars
<1>2. /\ \A m \in Member \ (group' \cup overtaken') : Followed(m)'
      /\ overtaken \subseteq overtaken' /\ overtaken' \subseteq Member
      /\ flight' = flight \ {p} /\ Numbered'
      /\ \A m \in Member : Leaving(m) => Leaving(m)' \/ (p.kind = "removed" /\ p.who = m)
  BY <1>1, GoneFollowed
<1>3. p \in Push /\ p.who \in Member /\ p.kind \in {"added", "removed"} /\ p # NoPush
  BY PushIsOne DEF TypeOK
<1>4. /\ \A k \in Loop : k = l /\ at'[k] = "took" /\ held'[k] = p
  BY <1>1 DEF OneLoop, TypeOK
<1>5. TypeOK'  BY TypeKeeps DEF Next
<1>6. ASSUME NEW n \in group' \ (kicked' \cup missed' \cup unnamed') PROVE Present(n)'
  <2>1. n \in Member /\ Present(n)  BY <1>1, <1>6 DEF TypeOK
  <2>2. Coming(n) => Coming(n)'
    <3>1. Coming(n) => \E q \in flight : q.kind = "added" /\ q.who = n
      BY <1>1, <1>4 DEF Coming, Soon
    <3> QED BY <1>2, <1>4, <3>1 DEF Coming, Soon
  <2>3. /\ Shown(n)' <=> Shown(n)
        /\ \A i \in 1..Len(queue) : PutsAfter(i, n)' <=> PutsAfter(i, n)
        /\ \A i \in 1..Len(queue) : Drops(i, n)' <=> Drops(i, n)
        /\ PutsAfter(0, n)' <=> PutsAfter(0, n)
    BY <1>1 DEF Shown, PutsAfter, Puts, Drops
  <2> QED BY <1>1, <1>4, <2>1, <2>2, <2>3 DEF Present
<1>7. ASSUME NEW n \in Member \ (group' \cup missed' \cup overtaken') PROVE Absent(n)'
  <2>1. Absent(n)  BY <1>1, <1>2, <1>7
  <2>2. Going(n) => Going(n)'
    <3>1. Going(n) => Leaving(n)  BY <1>1, <1>4 DEF Going
    <3> QED BY <1>2, <1>4, <3>1 DEF Going
  <2>3. /\ Shown(n)' <=> Shown(n)
        /\ \A i \in 1..Len(queue) : DropsAfter(i, n)' <=> DropsAfter(i, n)
        /\ \A i \in 1..Len(queue) : Puts(i, n)' <=> Puts(i, n)
        /\ DropsAfter(0, n)' <=> DropsAfter(0, n)
    BY <1>1 DEF Shown, DropsAfter, Puts, Drops
  <2>4. p.kind = "added" /\ p.who = n => Leaving(n)'
    <3>1. Followed(n)  BY <1>1, <1>2, <1>7
    <3> QED BY <1>2, <3>1 DEF Followed, Leaving
  <2> QED BY <1>1, <1>4, <2>1, <2>2, <2>3, <2>4 DEF Absent
<1> QED BY <1>2, <1>5, <1>6, <1>7

\* An addition is queued.
LEMMA HandleAddedKeeps ==
  ASSUME Inv, OneLoop, NEW l \in Loop, HandleAdded(l) PROVE Inv'
<1> USE DEF Inv
<1>0. PICK names \in NamesUser :
        /\ queue' = Append(queue, [full |-> FALSE, members |-> Listed(held[l], names)])
        /\ Told(held[l].who, names)
  BY DEF HandleAdded
<1> DEFINE e == [full |-> FALSE, members |-> Listed(held[l], names)]
<1>1. /\ at[l] = "took" /\ held[l].kind = "added" /\ queue' = Append(queue, e)
      /\ at' = [at EXCEPT ![l] = "idle"] /\ held' = [held EXCEPT ![l] = NoPush]
      /\ list' = [list EXCEPT ![l] = {}]
      /\ UNCHANGED <<group, kicked, changes, flight, missed, overtaken, lost, others,
                     crashed>>
      /\ UNCHANGED portalVars
  BY <1>0 DEF HandleAdded, Idle, groupVars
<1>2. held[l] \in Push /\ held[l].who \in Member
  <2>1. held[l] \in Push  BY <1>1 DEF TypeOK
  <2> QED BY <2>1 DEF Push
<1>3. /\ e \in Change /\ ~e.full /\ queue \in Seq(Change)
      /\ e.members \subseteq {held[l].who}
      /\ held[l].who \in e.members \/ held[l].who \in unnamed'
      /\ unnamed \subseteq unnamed' \cup e.members
  BY <1>0, <1>2 DEF Change, Listed, Told, TypeOK
<1>4. \A k \in Loop : k = l /\ at'[k] = "idle"
  BY <1>1 DEF OneLoop, TypeOK
<1> HIDE DEF e
<1>5. TypeOK'  BY TypeKeeps DEF Next, Handle
<1>6. Numbered' /\ \A m \in Member \ (group' \cup overtaken') : Followed(m)'
  BY <1>1 DEF Numbered, Followed
<1>7. ASSUME NEW n \in group' \ (kicked' \cup missed' \cup unnamed') PROVE Present(n)'
  <2>1. n \in Member /\ n \in group \ (kicked \cup missed)  BY <1>1, <1>7 DEF TypeOK
  <2>2. CASE n \in e.members
    BY <1>1, <1>3, <1>4, <2>2, LastPresent
  <2>3. CASE n \notin e.members
    <3>1. Present(n) /\ n # held[l].who  BY <1>3, <1>7, <2>1, <2>3
    <3>2. Coming(n) => Coming(n)'
      BY <1>1, <1>4, <3>1 DEF Coming, Soon
    <3> QED BY <1>1, <1>3, <1>4, <2>1, <3>1, <3>2, AppendPresent
  <2> QED BY <2>2, <2>3
<1>8. ASSUME NEW n \in Member \ (group' \cup missed' \cup overtaken') PROVE Absent(n)'
  <2>1. Absent(n)  BY <1>1, <1>8
  <2>2. Leaving(n)' <=> Leaving(n)  BY <1>1 DEF Leaving
  <2>3. Going(n) => Going(n)'  BY <1>1, <1>4, <2>2 DEF Going
  <2>4. n \in e.members => Going(n)'
    BY <1>1, <1>3, <2>1, <2>2 DEF Absent, Going
  <2> QED BY <1>1, <1>3, <1>4, <2>1, <2>3, <2>4, AppendAbsent
<1> QED BY <1>5, <1>6, <1>7, <1>8

\* ShowGroup's answer is the group of this moment: nobody is missed any more.
LEMMA HandleRemovedKeeps ==
  ASSUME Inv, OneLoop, NEW l \in Loop, HandleRemoved(l) PROVE Inv'
<1> USE DEF Inv
<1>1. /\ at[l] = "took" /\ held[l].kind = "removed" /\ missed' = {} /\ unnamed' = {}
      /\ at' = [at EXCEPT ![l] = "fetched"] /\ list' = [list EXCEPT ![l] = group]
      /\ UNCHANGED <<group, kicked, changes, flight, overtaken, lost, held, queue, others,
                     portal, info, room, crashed>>
  BY DEF HandleRemoved, groupVars, portalVars
<1>2. \A k \in Loop : k = l /\ at'[k] = "fetched" /\ list'[k] = group
  BY <1>1 DEF OneLoop, TypeOK
<1>3. TypeOK'  BY TypeKeeps DEF Next, Handle
<1>4. Numbered' /\ \A m \in Member \ (group' \cup overtaken') : Followed(m)'
  BY <1>1 DEF Numbered, Followed
<1>5. ASSUME NEW n \in group' \ (kicked' \cup missed' \cup unnamed') PROVE Present(n)'
  <2>1. Coming(n)'  BY <1>1, <1>2 DEF Coming
  <2> QED BY <1>1, <1>2, <2>1 DEF Present
<1>6. ASSUME NEW n \in Member \ (group' \cup missed' \cup overtaken') PROVE Absent(n)'
  <2>1. Going(n)'  BY <1>1, <1>2 DEF Going
  <2> QED BY <1>1, <1>2, <2>1 DEF Absent
<1> QED BY <1>3, <1>4, <1>5, <1>6

\* ShowGroup fails, and with it the process.
LEMMA HandleRemovedFailsKeeps ==
  ASSUME Inv, NEW l \in Loop, HandleRemovedFails(l) PROVE Inv'
<1> USE DEF Inv
<1>1. /\ UNCHANGED <<group, kicked, changes, flight, missed, unnamed, overtaken, lost, others>>
      /\ UNCHANGED <<at, held, list, queue, portal, info, room>>
      /\ crashed' = TRUE
  BY DEF HandleRemovedFails, groupVars, pushVars, loopVars, portalVars
<1>2. TypeOK'  BY TypeKeeps DEF Next, Handle
<1>3. Numbered' /\ \A m \in Member \ (group' \cup overtaken') : Followed(m)'
  BY <1>1 DEF Numbered, Followed
<1>4. ASSUME NEW n \in group' \ (kicked' \cup missed' \cup unnamed') PROVE Present(n)'
  <2>1. n \in Member /\ Present(n)  BY <1>1, <1>2, <1>4 DEF TypeOK
  <2>2. Soon(n) => Soon(n)'  BY <1>1 DEF Soon
  <2> QED BY <1>1, <2>1, <2>2, StillPresent
<1>5. ASSUME NEW n \in Member \ (group' \cup missed' \cup overtaken') PROVE Absent(n)'
  <2>1. Absent(n) /\ (Leaving(n) => Leaving(n)')  BY <1>1 DEF Leaving
  <2> QED BY <1>1, <2>1, StillAbsent
<1> QED BY <1>2, <1>3, <1>4, <1>5

\* The full list is queued.
LEMMA QueueRemovedKeeps ==
  ASSUME Inv, OneLoop, NEW l \in Loop, QueueRemoved(l) PROVE Inv'
<1> USE DEF Inv
<1> DEFINE e == [full |-> TRUE, members |-> list[l]]
<1>1. /\ at[l] = "fetched" /\ queue' = Append(queue, e)
      /\ at' = [at EXCEPT ![l] = "idle"] /\ held' = [held EXCEPT ![l] = NoPush]
      /\ list' = [list EXCEPT ![l] = {}]
      /\ UNCHANGED <<group, kicked, changes, flight, missed, unnamed, overtaken, lost, others,
                     crashed>>
      /\ UNCHANGED portalVars
  BY DEF QueueRemoved, Idle, groupVars, pushVars
<1>2. e \in Change /\ e.members = list[l] /\ e.full /\ queue \in Seq(Change)
  BY DEF Change, TypeOK
<1>3. \A k \in Loop : k = l /\ at'[k] = "idle" /\ at[k] = "fetched"
  BY <1>1 DEF OneLoop, TypeOK
<1> HIDE DEF e
<1>4. TypeOK'  BY TypeKeeps DEF Next, Handle
<1>5. Numbered' /\ \A m \in Member \ (group' \cup overtaken') : Followed(m)'
  BY <1>1 DEF Numbered, Followed
<1>6. ASSUME NEW n \in group' \ (kicked' \cup missed' \cup unnamed') PROVE Present(n)'
  <2>1. n \in Member /\ Present(n)  BY <1>1, <1>6 DEF TypeOK
  <2>2. Soon(n) => Soon(n)'  BY <1>1, <1>3 DEF Soon
  <2>3. Coming(n) => Coming(n)' \/ n \in e.members
    BY <1>2, <1>3, <2>2 DEF Coming
  <2>4. n \notin e.members => Coming(n)'
    BY <1>1, <1>2, <2>1, <2>2 DEF Present, Coming
  <2> QED BY <1>1, <1>2, <1>3, <2>1, <2>3, <2>4, AppendPresent
<1>7. ASSUME NEW n \in Member \ (group' \cup missed' \cup overtaken') PROVE Absent(n)'
  <2>1. Absent(n)  BY <1>1, <1>7
  <2>2. Leaving(n)' <=> Leaving(n)  BY <1>1 DEF Leaving
  <2>3. Going(n) => Going(n)' \/ n \notin e.members
    BY <1>2, <1>3, <2>2 DEF Going
  <2>4. n \in e.members => Going(n)'
    BY <1>1, <1>2, <2>1, <2>2 DEF Absent, Going
  <2> QED BY <1>1, <1>2, <1>3, <2>1, <2>3, <2>4, AppendAbsent
<1> QED BY <1>4, <1>5, <1>6, <1>7

\* An event without members is queued.
LEMMA OtherEventKeeps == ASSUME Inv, OtherEvent PROVE Inv'
<1> USE DEF Inv
<1> DEFINE e == [full |-> FALSE, members |-> {}]
<1>1. /\ others < MaxOther /\ others' = others + 1 /\ queue' = Append(queue, e)
      /\ UNCHANGED <<group, kicked, changes, flight, missed, unnamed, overtaken, lost, at, held,
                     list, crashed>>
      /\ UNCHANGED portalVars
  BY DEF OtherEvent, groupVars, pushVars, loopVars
<1>2. e \in Change /\ e.members = {} /\ ~e.full /\ queue \in Seq(Change)
  BY DEF Change, TypeOK
<1> HIDE DEF e
<1>3. TypeOK'  BY TypeKeeps DEF Next
<1>4. Numbered' /\ \A m \in Member \ (group' \cup overtaken') : Followed(m)'
  BY <1>1 DEF Numbered, Followed
<1>5. ASSUME NEW n \in group' \ (kicked' \cup missed' \cup unnamed') PROVE Present(n)'
  <2>1. n \in Member /\ Present(n)  BY <1>1, <1>5 DEF TypeOK
  <2>2. (Soon(n) <=> Soon(n)') /\ (Coming(n) <=> Coming(n)')
    BY <1>1 DEF Soon, Coming
  <2>3. \A l \in Loop : at'[l] = "fetched" /\ n \notin list'[l] => Soon(n)'
    BY <1>1, <2>1, <2>2 DEF Present
  <2> QED BY <1>1, <1>2, <2>1, <2>2, <2>3, AppendPresent
<1>6. ASSUME NEW n \in Member \ (group' \cup missed' \cup overtaken') PROVE Absent(n)'
  <2>1. Absent(n)  BY <1>1, <1>6
  <2>2. (Leaving(n)' <=> Leaving(n)) /\ (Going(n)' <=> Going(n))
    BY <1>1 DEF Leaving, Going
  <2>3. \A l \in Loop :
           \/ at'[l] = "took" /\ held'[l].kind = "added" /\ held'[l].who = n
           \/ at'[l] = "fetched" /\ n \in list'[l]
           => Leaving(n)'
    BY <1>1, <2>1, <2>2 DEF Absent
  <2> QED BY <1>1, <1>2, <2>1, <2>2, <2>3, AppendAbsent
<1> QED BY <1>3, <1>4, <1>5, <1>6

-----------------------------------------------------------------------------
(* The portal.                                                                *)

\* GetChatInfo asks for the group as it is, and the room is made of its answer.
LEMMA CreateKeeps == ASSUME Inv, GetChatInfo \/ CreateRoom PROVE Inv'
<1> USE DEF Inv
<1>1. /\ UNCHANGED <<group, kicked, changes, flight, missed, unnamed, overtaken, lost, at, held,
                     list, queue, others, crashed>>
      /\ \/ /\ portal = "none" /\ portal' = "creating"
            /\ info' = group \ kicked /\ room' = room
         \/ /\ portal = "creating" /\ portal' = "up"
            /\ room' = info /\ info' = {}
  BY DEF GetChatInfo, CreateRoom, groupVars, pushVars, loopVars
<1>2. TypeOK'  BY TypeKeeps DEF Next, Portal
<1>3. Numbered' /\ \A m \in Member \ (group' \cup overtaken') : Followed(m)'
  BY <1>1 DEF Numbered, Followed
<1>4. ASSUME NEW n \in Member
      PROVE  /\ (Soon(n)' <=> Soon(n)) /\ (Coming(n)' <=> Coming(n))
             /\ (Leaving(n)' <=> Leaving(n)) /\ (Going(n)' <=> Going(n))
  <2>1. (Soon(n)' <=> Soon(n)) /\ (Leaving(n)' <=> Leaving(n))
    BY <1>1 DEF Soon, Leaving
  <2> QED BY <1>1, <2>1 DEF Coming, Going
<1>5. ASSUME NEW n \in group' \ (kicked' \cup missed' \cup unnamed') PROVE Present(n)'
  <2>1. n \in Member /\ Present(n)  BY <1>1, <1>5 DEF TypeOK
  <2>2. portal' # "none" => Coming(n)' \/ Shown(n)' \/ PutsAfter(0, n)'
    <3>1. CASE portal = "none"  BY <1>1, <1>5, <3>1 DEF Shown
    <3>2. CASE portal # "none"
      <4>1. Coming(n) \/ Shown(n) \/ PutsAfter(0, n)  BY <2>1, <3>2 DEF Present
      <4>2. Shown(n) => Shown(n)'  BY <1>1, <3>2 DEF Shown
      <4>3. PutsAfter(0, n) => PutsAfter(0, n)'  BY <1>1 DEF PutsAfter, Puts
      <4> QED BY <1>4, <2>1, <4>1, <4>2, <4>3
    <3> QED BY <3>1, <3>2
  <2>3. ASSUME NEW i \in 1..Len(queue'), Drops(i, n)'
        PROVE  Coming(n)' \/ PutsAfter(i, n)'
    <3>1. i \in 1..Len(queue) /\ Drops(i, n)  BY <1>1, <2>3 DEF Drops
    <3>2. Coming(n) \/ PutsAfter(i, n)  BY <2>1, <3>1 DEF Present
    <3>3. PutsAfter(i, n) => PutsAfter(i, n)'  BY <1>1 DEF PutsAfter, Puts
    <3> QED BY <1>4, <2>1, <3>2, <3>3
  <2>4. \A l \in Loop : at'[l] = "fetched" /\ n \notin list'[l] => Soon(n)'
    BY <1>1, <1>4, <2>1 DEF Present
  <2> QED BY <2>2, <2>3, <2>4 DEF Present
<1>6. ASSUME NEW n \in Member \ (group' \cup missed' \cup overtaken') PROVE Absent(n)'
  <2>1. n \in Member /\ Absent(n) /\ n \notin group  BY <1>1, <1>6
  <2>2. Shown(n)' => Going(n)' \/ DropsAfter(0, n)'
    <3>1. Shown(n)' => Shown(n)  BY <1>1, <2>1 DEF Shown
    <3>2. Shown(n) => Going(n) \/ DropsAfter(0, n)  BY <2>1 DEF Absent
    <3>3. DropsAfter(0, n) => DropsAfter(0, n)'  BY <1>1 DEF DropsAfter, Drops
    <3> QED BY <1>4, <2>1, <3>1, <3>2, <3>3
  <2>3. ASSUME NEW i \in 1..Len(queue'), Puts(i, n)'
        PROVE  Going(n)' \/ DropsAfter(i, n)'
    <3>1. i \in 1..Len(queue) /\ Puts(i, n)  BY <1>1, <2>3 DEF Puts
    <3>2. Going(n) \/ DropsAfter(i, n)  BY <2>1, <3>1 DEF Absent
    <3>3. DropsAfter(i, n) => DropsAfter(i, n)'  BY <1>1 DEF DropsAfter, Drops
    <3> QED BY <1>4, <2>1, <3>2, <3>3
  <2>4. \A l \in Loop :
          \/ at'[l] = "took" /\ held'[l].kind = "added" /\ held'[l].who = n
          \/ at'[l] = "fetched" /\ n \in list'[l]
          => Leaving(n)'
    BY <1>1, <1>4, <2>1 DEF Absent
  <2> QED BY <2>2, <2>3, <2>4 DEF Absent
<1> QED BY <1>2, <1>3, <1>5, <1>6

\* A change is applied, or dropped for want of a room.
LEMMA HeadKeeps == ASSUME Inv, HandleChange \/ GetChatInfoFails PROVE Inv'
<1> USE DEF Inv
<1>1. /\ UNCHANGED <<group, kicked, changes, flight, missed, unnamed, overtaken, lost, at, held,
                     list, portal, info, others, crashed>>
      /\ queue # <<>> /\ queue' = Tail(queue)
      /\ \/ portal = "none" /\ room' = room
         \/ portal = "up" /\ room' = Apply(Head(queue))
  BY DEF HandleChange, GetChatInfoFails, groupVars, pushVars, loopVars, portalVars
<1>2. queue \in Seq(Change)  BY DEF TypeOK
<1>3. TypeOK'  BY TypeKeeps DEF Next, Portal
<1>4. Numbered' /\ \A m \in Member \ (group' \cup overtaken') : Followed(m)'
  BY <1>1 DEF Numbered, Followed
<1>5. ASSUME NEW n \in group' \ (kicked' \cup missed' \cup unnamed') PROVE Present(n)'
  <2>1. n \in Member /\ Present(n)  BY <1>1, <1>5 DEF TypeOK
  <2> QED BY <1>1, <1>2, <2>1, TailPresent
<1>6. ASSUME NEW n \in Member \ (group' \cup missed' \cup overtaken') PROVE Absent(n)'
  <2>1. Absent(n)  BY <1>1, <1>6
  <2> QED BY <1>1, <1>2, <2>1, TailAbsent
<1> QED BY <1>3, <1>4, <1>5, <1>6

-----------------------------------------------------------------------------
\* The inductive invariant of a room's members, for one message loop.
THEOREM MembersInvariant == ASSUME OneLoop PROVE Spec => []Inv
<1>1. Inv /\ [Next]_vars => Inv'
  <2> SUFFICES ASSUME Inv, [Next]_vars PROVE Inv'  OBVIOUS
  <2>1. ASSUME NEW m \in Member, Add(m) \/ Remove(m) \/ AutoKick(m) PROVE Inv'
    BY <2>1, ChangedKeeps, AutoKickKeeps
  <2>2. ASSUME NEW p \in flight, Lose(p) \/ \E l \in Loop : Take(l, p) PROVE Inv'
    BY <2>2, LoseKeeps, TakeKeeps
  <2>3. ASSUME NEW l \in Loop, Handle(l) PROVE Inv'
    BY <2>3, HandleAddedKeeps, HandleRemovedKeeps, HandleRemovedFailsKeeps,
       QueueRemovedKeeps DEF Handle
  <2>4. CASE OtherEvent  BY <2>4, OtherEventKeeps
  <2>5. CASE Portal  BY <2>5, CreateKeeps, HeadKeeps DEF Portal
  <2>6. CASE UNCHANGED vars
    <3> USE <2>6 DEF vars, groupVars, pushVars, loopVars, portalVars, Inv
    <3>1. TypeOK'  BY TypeKeeps
    <3>2. Numbered' /\ \A m \in Member \ (group' \cup overtaken') : Followed(m)'
      BY DEF Numbered, Followed
    <3>3. \A m \in group' \ (kicked' \cup missed' \cup unnamed') : Present(m)'
      BY <3>1, StillPresent DEF Soon, TypeOK
    <3>4. \A m \in Member \ (group' \cup missed' \cup overtaken') : Absent(m)'
      BY StillAbsent DEF Leaving
    <3> QED BY <3>1, <3>2, <3>3, <3>4
  <2> QED BY <2>1, <2>2, <2>3, <2>4, <2>5, <2>6 DEF Next
<1> QED BY <1>1, MembersInit, PTL DEF Spec

\* Type correctness of the members' way, for any number of loops.
THEOREM MembersTyped == Spec => []TypeOK
<1>1. Init => TypeOK  BY MembersInit DEF Inv
<1> QED BY <1>1, TypeKeeps, PTL DEF Spec

\* For any number of members, changes and lost pushes: once the bridge has caught up
\* nobody of the group is missing from the room.
THEOREM NoneMissing == ASSUME OneLoop PROVE Spec => []NobodyMissing
<1>1. Inv => NobodyMissing
  BY DEF Inv, NobodyMissing, Quiet, Present, Coming, Soon, Shown, PutsAfter
<1> QED BY <1>1, MembersInvariant, PTL

\* ... and nobody who has left is still in it, whether or not pushes name users.
THEOREM NoneExtra == ASSUME OneLoop PROVE Spec => []NobodyExtra
<1>1. Inv => NobodyExtra
  <2> SUFFICES ASSUME Inv, Quiet, NEW m \in room, m \notin group \cup missed \cup overtaken
      PROVE FALSE
    BY DEF NobodyExtra
  <2>1. m \in Member /\ Absent(m)  BY DEF Inv, TypeOK
  <2> QED BY <2>1 DEF Quiet, Absent, Going, Leaving, Shown, DropsAfter
<1> QED BY <1>1, MembersInvariant, PTL

-----------------------------------------------------------------------------
(* The bridge catches up.                                                     *)

\* The steps the loop and the portal have to take at most for what is on its way:
\* four for a push, three of them once it is taken, two once it is answered, one for a
\* queued change, and two for the room.
Stage(l)  == IF at[l] = "took" THEN 3 ELSE IF at[l] = "fetched" THEN 2 ELSE 0
Building  == IF portal = "none" THEN 2 ELSE IF portal = "creating" THEN 1 ELSE 0
ToDo(l)   == 4 * Cardinality(flight) + Stage(l) + Len(queue) + Building

\* Whatever ShowGroup and GetChatInfo answer, and in whatever order pushes are taken,
\* each step of the loop and of the portal leaves less to do, or the process ends: no
\* push is handled again, no list asked for twice, no change put back (handler.go:148-176).
CatchesUp(l) ==
    [][Portal \/ (\E k \in Loop : Handle(k) \/ \E p \in flight : Take(k, p))
         => crashed' \/ (ToDo(l)' \in Nat /\ ToDo(l)' < ToDo(l))]_vars

\* Only finitely many pushes are on their way.
LEMMA FinitelyMany == Spec => []IsFiniteSet(flight)
<1>1. Init => IsFiniteSet(flight)  BY FS_EmptySet DEF Init
<1>2. IsFiniteSet(flight) /\ [Next]_vars => IsFiniteSet(flight)'
  <2> SUFFICES ASSUME IsFiniteSet(flight), [Next]_vars PROVE IsFiniteSet(flight')
    OBVIOUS
  <2>1. \/ flight' = flight
        \/ \E p \in flight : flight' = flight \ {p}
        \/ \E p : flight' = flight \cup {p}
    BY DEF Next, Add, Remove, Changed, AutoKick, Lose, Take, Gone, Handle, HandleAdded,
           HandleRemoved, HandleRemovedFails, QueueRemoved, OtherEvent, Portal,
           GetChatInfo, GetChatInfoFails, CreateRoom, HandleChange, vars, pushVars
  <2> QED BY <2>1, FS_AddElement, FS_RemoveElement
<1> QED BY <1>1, <1>2, PTL DEF Spec

\* With one loop, which is whose steps these are, the bridge is done with any pushes
\* after boundedly many steps of its own, whatever else goes on: with NoneMissing and
\* NoneExtra, the safety behind GetsIn.
THEOREM BridgeCatchesUp == ASSUME OneLoop, NEW l \in Loop PROVE Spec => CatchesUp(l)
<1> DEFINE Mine == Portal \/ \E k \in Loop : Handle(k) \/ \E p \in flight : Take(k, p)
           Less == ToDo(l)' \in Nat /\ ToDo(l)' < ToDo(l)
<1>1. ASSUME TypeOK, IsFiniteSet(flight), Mine PROVE crashed' \/ Less
  <2>1. /\ Cardinality(flight) \in Nat /\ Stage(l) \in Nat /\ Len(queue) \in Nat
        /\ Building \in Nat
    BY <1>1, FS_CardinalityType DEF Stage, Building, TypeOK
  <2>2. ASSUME NEW p \in flight, Take(l, p) PROVE Less
    <3>1. Cardinality(flight') = Cardinality(flight) - 1 /\ Cardinality(flight') \in Nat
      <4>1. flight' = flight \ {p} /\ p \in flight  BY <2>2 DEF Take, Gone
      <4> QED BY <1>1, <4>1, FS_RemoveElement, FS_CardinalityType
    <3>2. Stage(l) = 0 /\ Stage(l)' = 3 /\ Building' = Building /\ queue' = queue
      BY <1>1, <2>2 DEF Take, Stage, Building, portalVars, TypeOK
    <3> QED BY <2>1, <3>1, <3>2 DEF ToDo
  <2>3. CASE HandleAdded(l) \/ QueueRemoved(l)
    <3>1. /\ Stage(l) \in {2, 3} /\ Stage(l)' = 0 /\ Building' = Building
          /\ flight' = flight
      BY <1>1, <2>3 DEF HandleAdded, QueueRemoved, Idle, Stage, Building, portalVars,
                        pushVars, TypeOK
    <3>2. Len(queue') = Len(queue) + 1
      <4>1. queue \in Seq(Change) /\ \E e : queue' = Append(queue, e)
        BY <1>1, <2>3, Zenon DEF HandleAdded, QueueRemoved, TypeOK
      <4> QED BY <4>1
    <3> QED BY <2>1, <3>1, <3>2 DEF ToDo
  <2>4. CASE HandleRemoved(l)
    <3>1. /\ Stage(l) = 3 /\ Stage(l)' = 2 /\ Building' = Building
          /\ flight' = flight /\ queue' = queue
      BY <1>1, <2>4 DEF HandleRemoved, Stage, Building, portalVars, TypeOK
    <3> QED BY <2>1, <3>1 DEF ToDo
  <2>5. CASE HandleRemovedFails(l)
    BY <2>5 DEF HandleRemovedFails
  <2>6. CASE GetChatInfo \/ CreateRoom
    <3>1. /\ Building' = Building - 1 /\ Building' \in Nat
          /\ Stage(l)' = Stage(l) /\ flight' = flight /\ queue' = queue
      BY <2>6 DEF GetChatInfo, CreateRoom, Stage, Building, loopVars, pushVars
    <3> QED BY <2>1, <3>1 DEF ToDo
  <2>7. CASE HandleChange \/ GetChatInfoFails
    <3>1. /\ Building' = Building /\ Stage(l)' = Stage(l) /\ flight' = flight
          /\ queue # <<>> /\ queue' = Tail(queue)
      BY <2>7 DEF HandleChange, GetChatInfoFails, Stage, Building, loopVars, pushVars,
                  portalVars
    <3>2. Len(queue') = Len(queue) - 1 /\ Len(queue') \in Nat
      BY <1>1, <3>1 DEF TypeOK
    <3> QED BY <2>1, <3>1, <3>2 DEF ToDo
  <2>8. CASE Portal
    BY <2>6, <2>7, <2>8 DEF Portal
  <2>9. CASE Handle(l) \/ \E p \in flight : Take(l, p)
    BY <2>2, <2>3, <2>4, <2>5, <2>9 DEF Handle
  <2>10. ASSUME NEW k \in Loop, Handle(k) \/ \E p \in flight : Take(k, p)
         PROVE  Handle(l) \/ \E p \in flight : Take(l, p)
    <3>1. k = l  BY DEF OneLoop
    <3> QED BY <2>10, <3>1
  <2> QED BY <1>1, <2>8, <2>9, <2>10
<1>2. TypeOK /\ IsFiniteSet(flight) /\ [Next]_vars => [Mine => crashed' \/ Less]_vars
  BY <1>1
<1> QED BY <1>2, MembersTyped, FinitelyMany, PTL DEF Spec, CatchesUp
=============================================================================
