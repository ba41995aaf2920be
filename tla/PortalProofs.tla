---------------------------- MODULE PortalProofs ----------------------------
(***************************************************************************)
(* What Portal.tla checks of a chat on three messages, for any messages, any *)
(* number of pushes and any number of restarts.                              *)
(***************************************************************************)
EXTENDS Portal, TLAPS

Matrix(m) == [kind |-> "matrix", msg |-> m]

\* The message is queued and its request has not been sent.
Waiting(m) ==
    \E i \in 1..Len(queue) : queue[i] = Matrix(m) /\ (i = 1 => at = "idle")

\* What is not written, or waits, has left no trace yet.
NoTrace(m) == m \notin wire /\ posts[m] = 0 /\ reply[m] = "none"

Fresh == \A m \in Mine : m \notin written \/ Waiting(m) => NoTrace(m)

OnceQueued ==
    /\ \A i \in 1..Len(queue) :
         /\ queue[i].kind = "matrix" => queue[i].msg \in written
         /\ queue[i].kind = "remote" => posts[queue[i].msg] > 0
    /\ \A i, j \in 1..Len(queue) :
         queue[i].kind = "matrix" /\ queue[i] = queue[j] => i = j

\* A request on its way has not been acted on, and its message is written.
OnceSent == \A m \in wire : m \in written /\ posts[m] = 0

\* While the answer is awaited the message has not been shown.
Awaited == at = "posting" => reply[Sending] = "none" /\ shown[Sending] = 0

\* Only what GroupMe has is shown, and all that is shown or confirmed is known.
Recorded ==
    /\ \A m \in Msg : shown[m] > 0 => posts[m] > 0 /\ m \in known
    /\ \A m \in Mine : reply[m] = "ok" => m \in known

Inv ==
    /\ TypeOK /\ Fresh /\ OnceQueued /\ OnceSent /\ Awaited /\ Recorded
    /\ PostedAtMostOnce /\ ShownOnce

-----------------------------------------------------------------------------
\* The bridge starts with nothing queued and nothing sent.
LEMMA PortalInit == Init => Inv
  BY MineAssumption, BoundsAssumption
  DEF Init, Inv, TypeOK, Replies, Fresh, Waiting, NoTrace, OnceQueued, OnceSent, Awaited,
      Recorded, PostedAtMostOnce, ShownOnce, Event

\* An event queued behind the others leaves those where they are.
LEMMA QueueAppend ==
  ASSUME TypeOK, NEW e \in Event, queue' = Append(queue, e), at' = at
  PROVE  /\ queue' \in Seq(Event)
         /\ Len(queue') = Len(queue) + 1
         /\ \A i \in 1..Len(queue) : queue'[i] = queue[i]
         /\ queue'[Len(queue) + 1] = e
         /\ \A i \in 1..Len(queue) : queue[i] \in Event
         /\ at = "posting" => Sending' = Sending /\ Head(queue') = Head(queue)
                              /\ queue' # <<>>
  BY DEF TypeOK, Sending

\* The head goes; the others move up by one.
LEMMA QueueTail ==
  ASSUME TypeOK, queue # <<>>, queue' = Tail(queue)
  PROVE  /\ queue' \in Seq(Event)
         /\ Len(queue') = Len(queue) - 1 /\ Len(queue) \in Nat \ {0}
         /\ \A i \in 1..Len(queue') : queue'[i] = queue[i + 1] /\ i + 1 \in 1..Len(queue)
         /\ Head(queue) = queue[1] /\ Head(queue) \in Event /\ 1 \in 1..Len(queue)
  BY DEF TypeOK

\* A user writes in Matrix.
LEMMA WriteKeeps == ASSUME Inv, NEW m \in Msg, Write(m) PROVE Inv'
<1> USE DEF Inv
<1> DEFINE e == Matrix(m)
<1>1. /\ m \in Mine \ written /\ written' = written \cup {m}
      /\ queue' = Append(queue, e)
      /\ UNCHANGED <<at, wire, posts, pushed, known, shown, reply, crashes>>
      /\ e \in Event
  BY DEF Write, Matrix, netVars, Event
<1>2. /\ queue' \in Seq(Event)
      /\ Len(queue') = Len(queue) + 1 /\ Len(queue) \in Nat
      /\ \A i \in 1..Len(queue) : queue'[i] = queue[i]
      /\ queue'[Len(queue) + 1] = e
      /\ \A i \in 1..Len(queue) : queue[i] \in Event
      /\ at = "posting" => Sending' = Sending /\ Head(queue') = Head(queue)
                           /\ queue' # <<>>
  <2>1. Len(queue) \in Nat  BY DEF TypeOK
  <2> HIDE DEF e
  <2> QED BY <1>1, <2>1, QueueAppend
<1>3. TypeOK'
  BY <1>1, <1>2 DEF TypeOK
<1>4. Fresh'
  <2> SUFFICES ASSUME NEW n \in Mine, n \notin written' \/ Waiting(n)' PROVE NoTrace(n)
    BY <1>1 DEF Fresh, NoTrace
  <2>1. CASE n = m \/ n \notin written'  BY <2>1, <1>1 DEF Fresh
  <2>2. CASE n # m /\ Waiting(n)'
    <3>1. PICK i \in 1..Len(queue') : queue'[i] = Matrix(n) /\ (i = 1 => at = "idle")
      BY <2>2, <1>1 DEF Waiting
    <3>2. i # Len(queue) + 1  BY <3>1, <2>2, <1>2 DEF Matrix
    <3>3. Waiting(n)  BY <3>1, <3>2, <1>2 DEF Waiting
    <3> QED BY <3>3 DEF Fresh
  <2> QED BY <2>1, <2>2
<1>5. OnceQueued'
  <2>1. \A i \in 1..Len(queue) : queue[i] # e
    BY <1>1, <1>2 DEF OnceQueued, Matrix
  <2>2. \A i \in 1..Len(queue') : i = Len(queue) + 1 \/ i \in 1..Len(queue)
    BY <1>2
  <2>3. e.kind = "matrix" /\ e.msg = m  BY DEF Matrix
  <2> HIDE DEF e
  <2> QED BY <1>1, <1>2, <2>1, <2>2, <2>3 DEF OnceQueued
<1>6. OnceSent' /\ Recorded' /\ PostedAtMostOnce' /\ ShownOnce'
  BY <1>1 DEF OnceSent, Recorded, PostedAtMostOnce, ShownOnce
<1>7. Awaited'
  BY <1>1, <1>2 DEF Awaited
<1> QED BY <1>3, <1>4, <1>5, <1>6, <1>7

\* GroupMe gets a message, from its own user or by acting on a request.
LEMMA PostKeeps ==
  ASSUME Inv, NEW m \in Msg, WriteThere(m) \/ Accept(m) PROVE Inv'
<1> USE DEF Inv
<1>1. /\ posts' = [posts EXCEPT ![m] = @ + 1] /\ posts[m] = 0
      /\ m \in Mine => m \in wire
      /\ wire' = wire \ {m}
      /\ UNCHANGED <<queue, at, written, pushed, known, shown, reply, crashes>>
  <2>1. CASE WriteThere(m)  BY <2>1 DEF WriteThere, TypeOK
  <2>2. CASE Accept(m)  BY <2>2, MineAssumption DEF Accept, OnceSent, TypeOK
  <2> QED BY <2>1, <2>2
<1>2. TypeOK'
  BY <1>1 DEF TypeOK
<1>3. /\ posts \in [Msg -> Nat] /\ posts'[m] = 1
      /\ \A n \in Msg \ {m} : posts'[n] = posts[n]
  BY <1>1 DEF TypeOK
<1>4. Fresh'
  <2> SUFFICES ASSUME NEW n \in Mine, n \notin written \/ Waiting(n) PROVE NoTrace(n)'
    BY <1>1 DEF Fresh, Waiting
  <2>1. NoTrace(n)  BY DEF Fresh
  <2> QED BY <2>1, <1>1, <1>3, MineAssumption DEF NoTrace
<1>5. OnceQueued'
  <2>1. \A i \in 1..Len(queue) : queue[i] \in Event  BY DEF TypeOK
  <2>2. \A i \in 1..Len(queue) : queue[i].msg \in Msg  BY <2>1 DEF Event
  <2> QED BY <1>1, <1>3, <2>2 DEF OnceQueued
<1>6. OnceSent' /\ Awaited'
  BY <1>1, <1>3, MineAssumption DEF OnceSent, Awaited, Sending, TypeOK
<1>7. Recorded' /\ PostedAtMostOnce' /\ ShownOnce'
  BY <1>1, <1>3, MineAssumption DEF Recorded, PostedAtMostOnce, ShownOnce
<1> QED BY <1>2, <1>4, <1>5, <1>6, <1>7

\* A push is queued.
LEMMA PushKeeps == ASSUME Inv, NEW m \in Msg, HandleTextMessage(m) PROVE Inv'
<1> USE DEF Inv
<1> DEFINE e == [kind |-> "remote", msg |-> m]
<1>1. /\ posts[m] > 0 /\ pushed[m] < MaxCopies
      /\ pushed' = [pushed EXCEPT ![m] = @ + 1]
      /\ queue' = Append(queue, e)
      /\ UNCHANGED <<at, written, wire, posts, known, shown, reply, crashes>>
      /\ e \in Event
  BY DEF HandleTextMessage, netVars, Event
<1>2. /\ queue' \in Seq(Event)
      /\ Len(queue') = Len(queue) + 1 /\ Len(queue) \in Nat
      /\ \A i \in 1..Len(queue) : queue'[i] = queue[i]
      /\ queue'[Len(queue) + 1] = e
      /\ \A i \in 1..Len(queue) : queue[i] \in Event
      /\ at = "posting" => Sending' = Sending /\ Head(queue') = Head(queue)
                           /\ queue' # <<>>
  <2>1. Len(queue) \in Nat  BY DEF TypeOK
  <2> HIDE DEF e
  <2> QED BY <1>1, <2>1, QueueAppend
<1>3. TypeOK'
  BY <1>1, <1>2, BoundsAssumption DEF TypeOK
<1>4. Fresh'
  <2> SUFFICES ASSUME NEW n \in Mine, Waiting(n)' PROVE Waiting(n)
    BY <1>1 DEF Fresh, NoTrace
  <2>1. PICK i \in 1..Len(queue') : queue'[i] = Matrix(n) /\ (i = 1 => at = "idle")
    BY <1>1 DEF Waiting
  <2>2. i # Len(queue) + 1  BY <2>1, <1>2 DEF Matrix
  <2> QED BY <2>1, <2>2, <1>2 DEF Waiting
<1>5. OnceQueued'
  <2>1. \A i \in 1..Len(queue') : i = Len(queue) + 1 \/ i \in 1..Len(queue)
    BY <1>2
  <2>2. e.kind = "remote" /\ e.msg = m  OBVIOUS
  <2> HIDE DEF e
  <2> QED BY <1>1, <1>2, <2>1, <2>2 DEF OnceQueued
<1>6. OnceSent' /\ Recorded' /\ PostedAtMostOnce' /\ ShownOnce'
  BY <1>1 DEF OnceSent, Recorded, PostedAtMostOnce, ShownOnce
<1>7. Awaited'
  BY <1>1, <1>2 DEF Awaited
<1> QED BY <1>3, <1>4, <1>5, <1>6, <1>7

-----------------------------------------------------------------------------
\* The goroutine takes its head off the queue: what held of the rest still does.
LEMMA PopKeeps ==
  ASSUME Inv, queue # <<>>, queue' = Tail(queue), at' = "idle", written' = written,
         posts' = posts
  PROVE  /\ queue' \in Seq(Event)
         /\ OnceQueued'
         /\ \A n \in Mine : Waiting(n)' => Waiting(n) /\ Head(queue) # Matrix(n)
<1> USE DEF Inv
<1>1. /\ queue' \in Seq(Event)
      /\ Len(queue') = Len(queue) - 1 /\ Len(queue) \in Nat \ {0}
      /\ \A i \in 1..Len(queue') : queue'[i] = queue[i + 1] /\ i + 1 \in 1..Len(queue)
      /\ Head(queue) = queue[1] /\ Head(queue) \in Event /\ 1 \in 1..Len(queue)
  BY QueueTail
<1>2. OnceQueued'
  BY <1>1 DEF OnceQueued
<1>3. ASSUME NEW n \in Mine, Waiting(n)' PROVE Waiting(n) /\ Head(queue) # Matrix(n)
  <2>1. PICK i \in 1..Len(queue') : queue'[i] = Matrix(n)
    BY <1>3 DEF Waiting
  <2>2. queue[i + 1] = Matrix(n) /\ i + 1 # 1 /\ i + 1 \in 1..Len(queue)
    BY <1>1, <2>1
  <2>3. Waiting(n)
    BY <2>2 DEF Waiting
  <2>4. queue[1] # Matrix(n)
    BY <1>1, <2>2 DEF OnceQueued, Matrix
  <2> QED BY <1>1, <2>3, <2>4
<1> QED BY <1>1, <1>2, <1>3

\* CreateMessage sends the request of a message that waited at the head.
LEMMA PostingKeeps == ASSUME Inv, HandleMatrixMessage PROVE Inv'
<1> USE DEF Inv
<1>1. /\ at = "idle" /\ queue # <<>> /\ Head(queue).kind = "matrix"
      /\ at' = "posting" /\ wire' = wire \cup {Sending}
      /\ UNCHANGED <<queue, written, posts, pushed, known, shown, reply, crashes>>
  BY DEF HandleMatrixMessage, Upcoming
<1>2. /\ queue \in Seq(Event) /\ Len(queue) \in Nat \ {0} /\ Head(queue) = queue[1]
      /\ Head(queue) \in Event /\ 1 \in 1..Len(queue)
  BY <1>1 DEF TypeOK
<1>3. Head(queue) = Matrix(Sending) /\ Sending \in Msg
  BY <1>1, <1>2 DEF Event, Sending, Matrix
<1>4. Sending \in written /\ Sending \in Mine /\ Waiting(Sending)
  BY <1>1, <1>2, <1>3 DEF OnceQueued, TypeOK, Waiting, Sending
<1>5. NoTrace(Sending) /\ shown[Sending] = 0
  <2>1. NoTrace(Sending)  BY <1>4 DEF Fresh
  <2>2. shown[Sending] \in Nat /\ ~(shown[Sending] > 0)
    BY <1>3, <2>1 DEF NoTrace, Recorded, TypeOK
  <2> QED BY <2>1, <2>2
<1>6. TypeOK'
  BY <1>1, <1>4 DEF TypeOK
<1>7. Fresh'
  <2> SUFFICES ASSUME NEW n \in Mine, n \notin written \/ Waiting(n)'
      PROVE  NoTrace(n) /\ n # Sending
    BY <1>1 DEF Fresh, NoTrace
  <2>1. CASE n \notin written  BY <2>1, <1>4 DEF Fresh
  <2>2. CASE Waiting(n)'
    <3>1. PICK i \in 1..Len(queue) : queue[i] = Matrix(n) /\ i # 1
      BY <2>2, <1>1 DEF Waiting
    <3>2. Waiting(n)  BY <3>1 DEF Waiting
    <3>3. n # Sending  BY <3>1, <1>2, <1>3 DEF OnceQueued, Matrix
    <3> QED BY <3>2, <3>3 DEF Fresh
  <2> QED BY <2>1, <2>2
<1>8. OnceQueued' /\ Recorded' /\ PostedAtMostOnce' /\ ShownOnce'
  BY <1>1 DEF OnceQueued, Recorded, PostedAtMostOnce, ShownOnce
<1>9. OnceSent' /\ Awaited'
  BY <1>1, <1>4, <1>5 DEF OnceSent, Awaited, NoTrace, Sending
<1> QED BY <1>6, <1>7, <1>8, <1>9

\* HandleMatrixMessage returns, with the message's id or without.
LEMMA ReturnKeeps ==
  ASSUME Inv, Answered \/ Fails \/ Panics PROVE Inv'
<1> USE DEF Inv
<1>1. /\ at = "posting" /\ at' = "idle" /\ queue' = Tail(queue)
      /\ UNCHANGED <<written, wire, posts, pushed, shown, crashes>>
      /\ \E r \in {"ok", "error", "panic"} :
           /\ reply' = [reply EXCEPT ![Sending] = r]
           /\ known' \in {known, known \cup {Sending}}
           /\ r = "ok" => known' = known \cup {Sending}
  BY DEF Answered, Fails, Panics, Returns, netVars
<1>2. queue # <<>> /\ Head(queue).kind = "matrix"
  BY <1>1 DEF TypeOK
<1>3. /\ Head(queue) = Matrix(Sending) /\ Sending \in Mine /\ Sending \in Msg
      /\ Sending \in written
  <2>1. Head(queue) = queue[1] /\ Head(queue) \in Event /\ 1 \in 1..Len(queue)
    BY <1>2 DEF TypeOK
  <2>2. Head(queue) = Matrix(Sending) /\ Sending \in Msg
    BY <1>2, <2>1 DEF Event, Sending, Matrix
  <2>3. Sending \in written  BY <1>2, <2>1 DEF OnceQueued, Sending
  <2> QED BY <2>2, <2>3 DEF TypeOK
<1>4. /\ queue' \in Seq(Event) /\ OnceQueued'
      /\ \A n \in Mine : Waiting(n)' => Waiting(n) /\ Head(queue) # Matrix(n)
  BY <1>1, <1>2, PopKeeps
<1>5. TypeOK'
  BY <1>1, <1>3, <1>4 DEF TypeOK, Replies
<1>6. /\ \A n \in Mine \ {Sending} : reply'[n] = reply[n]
      /\ reply'[Sending] = "ok" => Sending \in known'
      /\ known \subseteq known'
  BY <1>1, <1>3 DEF TypeOK
<1>7. Fresh'
  BY <1>1, <1>3, <1>4, <1>6 DEF Fresh, NoTrace
<1>8. OnceSent' /\ Awaited' /\ PostedAtMostOnce'
  BY <1>1 DEF OnceSent, Awaited, PostedAtMostOnce
<1>9. Recorded'
  BY <1>1, <1>6 DEF Recorded
<1>10. ShownOnce'
  BY <1>1, <1>3, <1>6 DEF ShownOnce, Awaited
<1> QED BY <1>4, <1>5, <1>7, <1>8, <1>9, <1>10

\* A pushed message is shown, or skipped for being known.
LEMMA RemoteKeeps == ASSUME Inv, Show \/ SkipKnown PROVE Inv'
<1> USE DEF Inv
<1> DEFINE s == Head(queue).msg
<1>1. /\ at = "idle" /\ at' = at /\ queue # <<>> /\ Head(queue).kind = "remote"
      /\ queue' = Tail(queue)
      /\ UNCHANGED <<written, wire, posts, pushed, reply, crashes>>
      /\ \/ UNCHANGED <<shown, known>>
         \/ s \notin known /\ shown' = [shown EXCEPT ![s] = @ + 1]
            /\ known' = known \cup {s}
  BY DEF Show, SkipKnown, Upcoming, netVars
<1>2. s \in Msg /\ posts[s] > 0
  <2>1. Head(queue) = queue[1] /\ Head(queue) \in Event /\ 1 \in 1..Len(queue)
    BY <1>1 DEF TypeOK
  <2> QED BY <1>1, <2>1 DEF Event, OnceQueued
<1>3. /\ queue' \in Seq(Event) /\ OnceQueued'
      /\ \A n \in Mine : Waiting(n)' => Waiting(n)
  BY <1>1, PopKeeps
<1> HIDE DEF s
<1>4. TypeOK'
  <2>1. known' \subseteq Msg  BY <1>1, <1>2 DEF TypeOK
  <2>2. shown' \in [Msg -> Nat]
    <3>1. shown \in [Msg -> Nat]  BY DEF TypeOK
    <3> QED BY <1>1, <1>2, <3>1
  <2> QED BY <1>1, <1>3, <2>1, <2>2 DEF TypeOK
<1>5. Fresh'
  BY <1>1, <1>3 DEF Fresh, NoTrace
<1>6. OnceSent' /\ Awaited' /\ PostedAtMostOnce'
  BY <1>1 DEF OnceSent, Awaited, PostedAtMostOnce
<1>7. Recorded'
  BY <1>1, <1>2 DEF Recorded, TypeOK
<1>8. ShownOnce'
  <2>1. CASE UNCHANGED <<shown, known>>
    BY <1>1, <2>1 DEF ShownOnce
  <2>2. CASE s \notin known /\ shown' = [shown EXCEPT ![s] = @ + 1]
    <3>1. shown[s] \in Nat /\ ~(shown[s] > 0)
      BY <1>2, <2>2 DEF Recorded, TypeOK
    <3>2. shown'[s] = 1 /\ \A n \in Msg \ {s} : shown'[n] = shown[n]
      BY <1>2, <2>2, <3>1 DEF TypeOK
    <3>3. s \in Mine => reply[s] # "ok"
      BY <2>2 DEF Recorded
    <3> QED BY <1>1, <1>2, <3>2, <3>3 DEF ShownOnce
  <2> QED BY <1>1, <2>1, <2>2
<1> QED BY <1>3, <1>4, <1>5, <1>6, <1>7, <1>8

\* A restart forgets the queue and nothing that was sent or stored.
LEMMA CrashKeeps == ASSUME Inv, Crash PROVE Inv'
  BY BoundsAssumption
  DEF Inv, Crash, TypeOK, Fresh, Waiting, NoTrace, OnceQueued, OnceSent, Awaited,
      Recorded, PostedAtMostOnce, ShownOnce, netVars

-----------------------------------------------------------------------------
\* The inductive invariant of a chat, whatever the network and the crashes do.
THEOREM PortalInvariant == Spec => []Inv
<1>1. Inv /\ [Next]_vars => Inv'
  <2> SUFFICES ASSUME Inv, [Next]_vars PROVE Inv'  OBVIOUS
  <2>1. ASSUME NEW m \in Msg, Write(m) \/ WriteThere(m) \/ Accept(m)
                              \/ HandleTextMessage(m)
        PROVE  Inv'
    BY <2>1, WriteKeeps, PostKeeps, PushKeeps
  <2>2. CASE Work
    BY <2>2, PostingKeeps, ReturnKeeps, RemoteKeeps DEF Work
  <2>3. CASE Crash
    BY <2>3, CrashKeeps
  <2>4. CASE UNCHANGED vars
    BY <2>4
    DEF vars, netVars, Inv, TypeOK, Fresh, Waiting, NoTrace, OnceQueued, OnceSent,
        Awaited, Sending, Recorded, PostedAtMostOnce, ShownOnce
  <2> QED BY <2>1, <2>2, <2>3, <2>4 DEF Next
<1> QED BY <1>1, PortalInit, PTL DEF Spec

\* Type correctness of a chat.
THEOREM PortalTyped == Spec => []TypeOK
<1>1. Inv => TypeOK  BY DEF Inv
<1> QED BY <1>1, PortalInvariant, PTL

\* No message written in Matrix becomes two in GroupMe, for any number of messages,
\* failures and restarts.
THEOREM PostedOnce == Spec => []PostedAtMostOnce
<1>1. Inv => PostedAtMostOnce  BY DEF Inv
<1> QED BY <1>1, PortalInvariant, PTL

\* No message is shown twice, none whose sender was told that it had been sent.
THEOREM NothingTwice == Spec => []ShownOnce
<1>1. Inv => ShownOnce  BY DEF Inv
<1> QED BY <1>1, PortalInvariant, PTL

\* The chat implements the Timeline: a message gets into the room in one step, in
\* one way, and stays.
THEOREM ImplementsTimeline == Spec => OnceInTheRoom
<1>1. Init => Room!Init
  BY MineAssumption DEF Init, Room!Init, appears
<1>2. Inv /\ [Next]_vars => [Room!Next]_appears
  <2> SUFFICES ASSUME Inv, [Next]_vars PROVE Room!Next \/ UNCHANGED appears
    OBVIOUS
  <2> USE DEF Inv
  <2>1. CASE UNCHANGED <<reply, shown>>
    BY <2>1 DEF appears
  <2>2. CASE Answered \/ Fails \/ Panics
    <3>1. at = "posting" /\ shown' = shown /\ known \subseteq known'
      BY <2>2 DEF Answered, Fails, Panics, Returns
    <3>2. PICK r \in {"ok", "error", "panic"} :
            reply' = [reply EXCEPT ![Sending] = r]
      BY <2>2 DEF Answered, Fails, Panics, Returns
    <3>3. Sending \in Mine /\ Sending \in Msg
      <4>1. Head(queue) = queue[1] /\ Head(queue) \in Event /\ 1 \in 1..Len(queue)
            /\ Head(queue).kind = "matrix"
        BY <3>1 DEF TypeOK
      <4>2. Sending \in Msg /\ Sending \in written
        BY <4>1 DEF Event, Sending, OnceQueued
      <4> QED BY <4>2 DEF TypeOK
    <3>4. reply[Sending] = "none" /\ shown[Sending] = 0
      BY <3>1 DEF Awaited
    <3>5. CASE r = "ok"
      <4>1. Room!Confirm(Sending)
        <5>1. appears[Sending] = "not"
          BY <3>3, <3>4 DEF appears
        <5>2. reply'[Sending] = "ok" /\ \A n \in Mine \ {Sending} : reply'[n] = reply[n]
          BY <3>2, <3>3, <3>5 DEF TypeOK
        <5>3. \A n \in Msg \ {Sending} : appears'[n] = appears[n]
          BY <3>1, <5>2 DEF appears
        <5>4. appears'[Sending] = "confirmed"
          BY <3>3, <5>2 DEF appears
        <5>5. appears' = [appears EXCEPT ![Sending] = "confirmed"]
          BY <3>3, <5>3, <5>4 DEF appears
        <5> QED BY <3>3, <5>1, <5>5 DEF Room!Confirm
      <4> QED BY <4>1, <3>3 DEF Room!Next
    <3>6. CASE r # "ok"
      BY <3>1, <3>2, <3>3, <3>4, <3>6 DEF appears, TypeOK
    <3> QED BY <3>5, <3>6
  <2>3. CASE Show
    <3> DEFINE s == Head(queue).msg
    <3>1. s \notin known /\ shown' = [shown EXCEPT ![s] = @ + 1] /\ reply' = reply
          /\ queue # <<>>
      BY <2>3 DEF Show, Upcoming
    <3>2. s \in Msg
      <4>1. Head(queue) \in Event  BY <3>1 DEF TypeOK
      <4> QED BY <4>1 DEF Event
    <3> HIDE DEF s
    <3>3. shown[s] = 0 /\ (s \in Mine => reply[s] # "ok")
      <4>1. shown[s] \in Nat /\ ~(shown[s] > 0)
        BY <3>1, <3>2 DEF Recorded, TypeOK
      <4> QED BY <3>1, <4>1 DEF Recorded
    <3>4. Room!Show(s)
      <4>1. appears[s] = "not"
        BY <3>2, <3>3 DEF appears
      <4>2. shown'[s] = 1 /\ \A n \in Msg \ {s} : shown'[n] = shown[n]
        BY <3>1, <3>2, <3>3 DEF TypeOK
      <4>3. \A n \in Msg \ {s} : appears'[n] = appears[n]
        BY <3>1, <4>2 DEF appears
      <4>4. appears'[s] = "shown"
        BY <3>1, <3>2, <3>3, <4>2 DEF appears
      <4>5. appears' = [appears EXCEPT ![s] = "shown"]
        BY <3>2, <4>3, <4>4 DEF appears
      <4> QED BY <4>1, <4>5 DEF Room!Show
    <3> QED BY <3>2, <3>4 DEF Room!Next
  <2> QED
    BY <2>1, <2>2, <2>3
    DEF Next, Work, Write, WriteThere, Accept, HandleTextMessage, HandleMatrixMessage,
        SkipKnown, Crash, vars
<1> QED BY <1>1, <1>2, PortalInvariant, PTL DEF Spec, Room!Spec, OnceInTheRoom

-----------------------------------------------------------------------------
(* The portal's goroutine works its queue off.                                *)

\* The steps the goroutine has to take at most for what is queued: two for an event,
\* one of them done while it awaits an answer.
WorkLeft == 2 * Len(queue) - (IF at = "posting" THEN 1 ELSE 0)

\* Whoever wrote the head of the queue, and whether its request fails or not, each step
\* of the goroutine leaves less to do; and while something is queued it has a step to
\* take that waits for nothing but GroupMe's answer (client.go:191, 213).
WorksOff ==
    [][/\ Work => WorkLeft' \in Nat /\ WorkLeft' < WorkLeft
       /\ queue # <<>> => at = "posting" \/ Upcoming("matrix") \/ Upcoming("remote")]_vars

\* No event is put back, repeated or waited for: the safety behind EverythingEnds.
THEOREM PortalWorksOff == Spec => WorksOff
<1>1. Inv => (queue # <<>> => at = "posting" \/ Upcoming("matrix") \/ Upcoming("remote"))
  <2> SUFFICES ASSUME Inv, queue # <<>>
               PROVE  at = "posting" \/ Upcoming("matrix") \/ Upcoming("remote")
    OBVIOUS
  <2>1. Head(queue) \in Event  BY DEF Inv, TypeOK
  <2> QED BY <2>1 DEF Inv, TypeOK, Event, Upcoming
<1>2. Inv /\ Work => WorkLeft' \in Nat /\ WorkLeft' < WorkLeft
  <2> SUFFICES ASSUME Inv, Work PROVE WorkLeft' \in Nat /\ WorkLeft' < WorkLeft
    OBVIOUS
  <2>1. queue # <<>> /\ TypeOK /\ Len(queue) \in Nat \ {0}
    BY DEF Inv, TypeOK, Work, HandleMatrixMessage, Answered, Fails, Panics, Show,
           SkipKnown, Upcoming
  <2>2. CASE HandleMatrixMessage
    BY <2>1, <2>2 DEF HandleMatrixMessage, Upcoming, WorkLeft
  <2>3. CASE Answered \/ Fails \/ Panics
    <3>1. at = "posting" /\ at' = "idle" /\ queue' = Tail(queue)
      BY <2>3 DEF Answered, Fails, Panics, Returns
    <3> QED BY <2>1, <3>1, QueueTail DEF WorkLeft
  <2>4. CASE Show \/ SkipKnown
    <3>1. at = "idle" /\ at' = "idle" /\ queue' = Tail(queue)
      BY <2>4 DEF Show, SkipKnown, Upcoming
    <3> QED BY <2>1, <3>1, QueueTail DEF WorkLeft
  <2> QED BY <2>2, <2>3, <2>4 DEF Work
<1> QED
  BY <1>1, <1>2, PortalInvariant, PTL DEF Spec, WorksOff
=============================================================================
