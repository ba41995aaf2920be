--------------------------- MODULE DeliveryProofs ---------------------------
(***************************************************************************)
(* Proofs about Delivery, for any messages, subscriptions and patterns.     *)
(***************************************************************************)
EXTENDS Delivery, SequenceTheorems, TLAPS

USE DEF Kinds

-----------------------------------------------------------------------------
(* Frames.                                                                    *)

\* A frame is a non-empty sequence of at most MaxFrame different messages.
LEMMA FrameIsSeq ==
    ASSUME NEW f \in Frame
    PROVE  /\ f \in Seq(Msg) /\ f # <<>>
           /\ Len(f) \in 1..MaxFrame /\ DOMAIN f = 1..Len(f)
           /\ Head(f) = f[1] /\ Head(f) \in Msg
<1>1. PICK n \in 1..MaxFrame : f \in [1..n -> Msg]
  BY DEF Frame
<1>2. n \in Nat /\ n > 0
  BY MaxFrameAssumption
<1>3. f \in Seq(Msg) /\ Len(f) = n
  BY <1>1, <1>2
<1> QED
  BY <1>1, <1>2, <1>3, HeadTailProperties

\* What is left of a frame after its first message is the frame's tail, if anything.
LEMMA RestOfFrame ==
    ASSUME NEW f \in Frame, NEW g \in Rest(f)
    PROVE  /\ g \in Frame
           /\ \A j \in DOMAIN g : j + 1 \in DOMAIN f /\ g[j] = f[j + 1] /\ g[j] # f[1]
<1>1. g = Tail(f) /\ Len(f) # 1
  BY DEF Rest
<1>2. /\ f \in Seq(Msg) /\ f # <<>>
      /\ Len(f) \in 1..MaxFrame /\ DOMAIN f = 1..Len(f)
  BY FrameIsSeq
<1>3. Len(f) - 1 \in 1..MaxFrame
  BY <1>1, <1>2, MaxFrameAssumption
<1>4. /\ g \in Seq(Msg) /\ Len(g) = Len(f) - 1
      /\ \A i \in 1..Len(g) : g[i] = f[i + 1]
  BY <1>1, <1>2, HeadTailProperties, MaxFrameAssumption
<1>5. g \in [1..Len(g) -> Msg] /\ DOMAIN g = 1..Len(g)
  BY <1>4, LenProperties
<1>6. \A i, j \in DOMAIN f : f[i] = f[j] => i = j
  BY DEF Frame
<1>7. \A j \in DOMAIN g : j + 1 \in DOMAIN f /\ g[j] = f[j + 1] /\ g[j] # f[1]
  BY <1>2, <1>3, <1>4, <1>5, <1>6, MaxFrameAssumption
<1>8. \A i, j \in DOMAIN g : g[i] = g[j] => i = j
  BY <1>3, <1>4, <1>5, <1>6, <1>7, MaxFrameAssumption
<1> QED
  BY <1>3, <1>4, <1>5, <1>7, <1>8 DEF Frame

-----------------------------------------------------------------------------
(* The inductive invariant: beside what is checked, no message is both in a   *)
(* frame and accepted, or in two frames, and what is on its way was accepted. *)

FramesFresh ==
    \A f \in frames : \A i \in DOMAIN f : f[i] \in sent \ accepted

FramesApart ==
    \A f, g \in frames : f # g =>
        \A i \in DOMAIN f, j \in DOMAIN g : f[i] # g[j]

OnlyAccepted ==
    /\ accepted \subseteq sent /\ handled \subseteq accepted
    /\ senders \subseteq accepted \X Sub
    /\ \A s \in Sub : forwarder[s] \in accepted \cup {NoMsg}
    /\ loop \in accepted \cup {NoMsg}

DeliveryInv ==
    TypeOK /\ FramesFresh /\ FramesApart /\ OnlyAccepted /\ OnItsWay /\ AtMostOneEvent

\* The ways HandleMessageLoop gets through with a message, and does not.
Done == Skip \/ HandleEvent \/ HandleRemoved
Down == RemovedFails \/ HandleUnknown

\* At the start no message has been sent.
LEMMA DeliveryInit == Init => DeliveryInv
<1> SUFFICES ASSUME Init PROVE DeliveryInv
  OBVIOUS
<1>1. TypeOK  BY DEF Init, TypeOK
<1>2. FramesFresh /\ FramesApart /\ OnlyAccepted
  BY DEF Init, FramesFresh, FramesApart, OnlyAccepted
<1>3. OnItsWay /\ AtMostOneEvent
  BY DEF Init, OnItsWay, AtMostOneEvent
<1> QED
  BY <1>1, <1>2, <1>3 DEF DeliveryInv

\* Nothing to prove again when only the list of subscriptions changes, or none.
LEMMA ListStep ==
    ASSUME DeliveryInv, Unlist \/ (\E s \in Sub : Relist(s)) \/ UNCHANGED vars
    PROVE  DeliveryInv'
<1>1. /\ UNCHANGED <<sent, frames, senders, forwarder, loop, accepted, handled,
                     events, crashed>>
      /\ listed' \subseteq Sub
  BY DEF DeliveryInv, TypeOK, Unlist, Relist, vars
<1>2. TypeOK'  BY <1>1 DEF DeliveryInv, TypeOK
<1>3. FramesFresh' /\ FramesApart' /\ OnlyAccepted'
  BY <1>1 DEF DeliveryInv, FramesFresh, FramesApart, OnlyAccepted
<1>4. OnItsWay' /\ AtMostOneEvent'
  BY <1>1 DEF DeliveryInv, OnItsWay, AtMostOneEvent, Places
<1> QED
  BY <1>2, <1>3, <1>4 DEF DeliveryInv

\* A crash moves no message: the process just ends.
LEMMA DownStep == ASSUME DeliveryInv, Down \/ ReceiveNothing PROVE DeliveryInv'
<1>1. /\ UNCHANGED <<sent, frames, listed, senders, forwarder, loop, accepted,
                     handled, events>>
      /\ crashed' = TRUE
  BY DEF Down, RemovedFails, HandleUnknown, ReceiveNothing, Crash
<1>2. TypeOK'  BY <1>1 DEF DeliveryInv, TypeOK
<1>3. FramesFresh' /\ FramesApart' /\ OnlyAccepted'
  BY <1>1 DEF DeliveryInv, FramesFresh, FramesApart, OnlyAccepted
<1>4. OnItsWay' /\ AtMostOneEvent'
  BY <1>1 DEF DeliveryInv, OnItsWay, AtMostOneEvent, Places
<1> QED
  BY <1>2, <1>3, <1>4 DEF DeliveryInv

\* A frame brings messages never sent before, so it overlaps nothing.
LEMMA ReceiveStep ==
    ASSUME DeliveryInv, NEW f \in Frame, Receive(f)
    PROVE  DeliveryInv'
<1>1. /\ sent' = sent \cup {f[i] : i \in DOMAIN f}
      /\ frames' = frames \cup {f}
      /\ \A i \in DOMAIN f : f[i] \notin sent
      /\ UNCHANGED <<listed, senders, forwarder, loop, accepted, handled, events,
                     crashed>>
  BY DEF Receive
<1>2. \A i \in DOMAIN f : f[i] \in Msg
  BY FrameIsSeq, LenProperties
<1>3. TypeOK'  BY <1>1, <1>2 DEF DeliveryInv, TypeOK
<1>4. FramesFresh' /\ FramesApart' /\ OnlyAccepted'
  BY <1>1 DEF DeliveryInv, FramesFresh, FramesApart, OnlyAccepted
<1>5. OnItsWay' /\ AtMostOneEvent'
  BY <1>1 DEF DeliveryInv, OnItsWay, AtMostOneEvent, Places
<1> QED
  BY <1>3, <1>4, <1>5 DEF DeliveryInv

\* Going on in a frame leaves the frames typed, fresh and apart, also when the
\* message gone over is accepted.
LEMMA FramesAfter ==
    ASSUME DeliveryInv, NEW f \in frames,
           frames' \subseteq (frames \ {f}) \cup Rest(f),
           accepted' \in {accepted, accepted \cup {Head(f)}}, UNCHANGED sent
    PROVE  frames' \subseteq Frame /\ FramesFresh' /\ FramesApart'
<1>1. f \in Frame  BY DEF DeliveryInv, TypeOK
<1>2. \A g \in Rest(f) :
        /\ g \in Frame
        /\ \A j \in DOMAIN g : j + 1 \in DOMAIN f /\ g[j] = f[j + 1] /\ g[j] # f[1]
  BY <1>1, RestOfFrame
<1>3. Head(f) = f[1] /\ 1 \in DOMAIN f
  BY <1>1, FrameIsSeq
<1>4. frames' \subseteq Frame  BY <1>2 DEF DeliveryInv, TypeOK
<1>5. FramesFresh'
  BY <1>2, <1>3 DEF DeliveryInv, FramesFresh, FramesApart
<1>6. \A g, h \in Rest(f) : g = h
  BY DEF Rest
<1>7. FramesApart'
  BY <1>2, <1>6 DEF DeliveryInv, FramesApart
<1> QED
  BY <1>4, <1>5, <1>7

\* A message without a subscription leaves its frame and goes nowhere.
LEMMA UnmatchedStep ==
    ASSUME DeliveryInv, NEW f \in frames, Unmatched(f)
    PROVE  DeliveryInv'
<1>1. /\ frames' = (frames \ {f}) \cup Rest(f)
      /\ UNCHANGED <<sent, listed, senders, forwarder, loop, accepted, handled,
                     events, crashed>>
  BY DEF Unmatched
<1>2. frames' \subseteq Frame /\ FramesFresh' /\ FramesApart'
  BY <1>1, FramesAfter
<1>3. TypeOK'  BY <1>1, <1>2 DEF DeliveryInv, TypeOK
<1>4. OnlyAccepted' /\ OnItsWay' /\ AtMostOneEvent'
  BY <1>1 DEF DeliveryInv, OnlyAccepted, OnItsWay, AtMostOneEvent, Places
<1> QED
  BY <1>2, <1>3, <1>4 DEF DeliveryInv

\* An accepted message leaves its frame for one sender; its frame is dropped.
LEMMA DispatchStep ==
    ASSUME DeliveryInv, NEW f \in frames, NEW s \in Sub, Dispatch(f, s)
    PROVE  DeliveryInv'
<1> DEFINE m == Head(f)
<1>1. /\ senders' = senders \cup {<<m, s>>}
      /\ accepted' = accepted \cup {m}
      /\ frames' = frames \ {f}
      /\ UNCHANGED <<sent, listed, forwarder, loop, handled, events, crashed>>
  BY DEF Dispatch
<1>2. m \in Msg /\ m \in sent /\ m \notin accepted
  BY FrameIsSeq DEF DeliveryInv, TypeOK, FramesFresh
<1> HIDE DEF m
<1>3. frames' \subseteq Frame /\ FramesFresh' /\ FramesApart'
  BY <1>1, FramesAfter DEF m
<1>4. TypeOK'  BY <1>1, <1>2, <1>3 DEF DeliveryInv, TypeOK
<1>5. OnlyAccepted'  BY <1>1, <1>2 DEF DeliveryInv, OnlyAccepted
<1>6. Places(m)' = {<<"sender", s>>}
  BY <1>1, <1>2, NoMsgAssumption DEF DeliveryInv, OnlyAccepted, Places
<1>7. ASSUME NEW n \in accepted PROVE Places(n)' = Places(n)
  BY <1>1, <1>2, <1>7 DEF Places
<1>8. m \notin handled  BY <1>2 DEF DeliveryInv, OnlyAccepted
<1>9. OnItsWay'
  BY <1>1, <1>6, <1>7, <1>8 DEF DeliveryInv, OnItsWay
<1>10. AtMostOneEvent'  BY <1>1 DEF DeliveryInv, AtMostOneEvent
<1> QED
  BY <1>3, <1>4, <1>5, <1>9, <1>10 DEF DeliveryInv

\* A message that is somewhere on its way is nowhere else, and not handled.
LEMMA OnlyPlace ==
    ASSUME DeliveryInv, NEW m \in accepted, NEW p \in Places(m)
    PROVE  Places(m) = {p} /\ m \notin handled
BY DEF DeliveryInv, OnItsWay

\* Where a message is, place by place.
LEMMA PlaceByPlace ==
    ASSUME NEW m
    PROVE  /\ \A q \in Sub : <<m, q>> \in senders <=> <<"sender", q>> \in Places(m)
           /\ \A q \in Sub : forwarder[q] = m <=> <<"forwarder", q>> \in Places(m)
           /\ loop = m <=> <<"loop", NoMsg>> \in Places(m)
BY DEF Places

\* A step that takes one message on and leaves the others alone keeps OnItsWay.
LEMMA OneMoves ==
    ASSUME OnItsWay, NEW m \in accepted, UNCHANGED accepted,
           \/ handled' = handled /\ m \notin handled /\ \E p : Places(m)' = {p}
           \/ handled' = handled \cup {m} /\ Places(m)' = {},
           \A n \in accepted : n # m => Places(n)' = Places(n)
    PROVE  OnItsWay'
<1> SUFFICES ASSUME NEW n \in accepted
             PROVE  IF n \in handled' THEN Places(n)' = {}
                    ELSE \E p \in Places(n)' : Places(n)' = {p}
  BY DEF OnItsWay
<1>1. CASE n # m
  <2>1. Places(n)' = Places(n) /\ (n \in handled' <=> n \in handled)
    BY <1>1
  <2> QED BY <2>1 DEF OnItsWay
<1>2. CASE n = m
  BY <1>2
<1> QED
  BY <1>1, <1>2

\* What the place a message is at says of the others.
LEMMA NowhereElse ==
    ASSUME NEW m
    PROVE  /\ \A s \in Sub : Places(m) = {<<"sender", s>>} =>
                /\ \A q \in Sub \ {s} : <<m, q>> \notin senders
                /\ \A q \in Sub : forwarder[q] # m
                /\ loop # m
           /\ \A s \in Sub : Places(m) = {<<"forwarder", s>>} =>
                /\ \A q \in Sub : <<m, q>> \notin senders
                /\ \A q \in Sub \ {s} : forwarder[q] # m
                /\ loop # m
           /\ Places(m) = {<<"loop", NoMsg>>} =>
                /\ \A q \in Sub : <<m, q>> \notin senders
                /\ \A q \in Sub : forwarder[q] # m
<1>1. /\ \A q, s : <<"sender", q>> # <<"forwarder", s>>
      /\ \A s : <<"sender", s>> # <<"loop", NoMsg>>
      /\ \A s : <<"forwarder", s>> # <<"loop", NoMsg>>
      /\ \A q, s : <<"sender", q>> = <<"sender", s>> => q = s
      /\ \A q, s : <<"forwarder", q>> = <<"forwarder", s>> => q = s
  OBVIOUS
<1>2. ASSUME NEW p, Places(m) = {p}
      PROVE  /\ \A q \in Sub : <<m, q>> \in senders => p = <<"sender", q>>
             /\ \A q \in Sub : forwarder[q] = m => p = <<"forwarder", q>>
             /\ loop = m => p = <<"loop", NoMsg>>
  BY <1>2, PlaceByPlace
<1>3. ASSUME NEW s \in Sub, Places(m) = {<<"sender", s>>}
      PROVE  /\ \A q \in Sub \ {s} : <<m, q>> \notin senders
             /\ \A q \in Sub : forwarder[q] # m
             /\ loop # m
  BY <1>1, <1>2, <1>3
<1>4. ASSUME NEW s \in Sub, Places(m) = {<<"forwarder", s>>}
      PROVE  /\ \A q \in Sub : <<m, q>> \notin senders
             /\ \A q \in Sub \ {s} : forwarder[q] # m
             /\ loop # m
  BY <1>1, <1>2, <1>4
<1>5. ASSUME Places(m) = {<<"loop", NoMsg>>}
      PROVE  /\ \A q \in Sub : <<m, q>> \notin senders
             /\ \A q \in Sub : forwarder[q] # m
  BY <1>1, <1>2, <1>5
<1> QED
  BY <1>3, <1>4, <1>5

\* The forwarder takes a message from its sender, and from there only.
LEMMA ForwardStep ==
    ASSUME DeliveryInv, NEW m \in Msg, NEW s \in Sub, Forward(m, s)
    PROVE  DeliveryInv'
<1>1. /\ <<m, s>> \in senders /\ forwarder[s] = NoMsg
      /\ senders' = senders \ {<<m, s>>}
      /\ forwarder' = [forwarder EXCEPT ![s] = m]
      /\ UNCHANGED <<sent, frames, listed, loop, accepted, handled, events, crashed>>
  BY DEF Forward
<1>2. forwarder \in [Sub -> Msg \cup {NoMsg}]  BY DEF DeliveryInv, TypeOK
<1>3. m \in accepted  BY <1>1 DEF DeliveryInv, OnlyAccepted
<1>4. <<"sender", s>> \in Places(m)  BY <1>1 DEF Places
<1>5. Places(m) = {<<"sender", s>>} /\ m \notin handled
  BY <1>3, <1>4, OnlyPlace
<1>6. /\ \A q \in Sub \ {s} : <<m, q>> \notin senders
      /\ \A q \in Sub : forwarder[q] # m
      /\ loop # m
  BY <1>5, NowhereElse
<1>7. Places(m)' = {<<"forwarder", s>>}
  BY <1>1, <1>2, <1>6 DEF Places
<1>8. ASSUME NEW n \in accepted, n # m PROVE Places(n)' = Places(n)
  <2>1. n # NoMsg  BY NoMsgAssumption DEF DeliveryInv, TypeOK
  <2>2. \A q \in Sub : forwarder'[q] = n <=> forwarder[q] = n
    BY <1>1, <1>2, <1>8, <2>1
  <2>3. \A q \in Sub : <<n, q>> \in senders' <=> <<n, q>> \in senders
    BY <1>1, <1>8
  <2> QED BY <1>1, <2>2, <2>3 DEF Places
<1>9. TypeOK'  BY <1>1, <1>2 DEF DeliveryInv, TypeOK
<1>10. OnlyAccepted'
  BY <1>1, <1>2, <1>3 DEF DeliveryInv, OnlyAccepted
<1>11. OnItsWay'
  BY <1>1, <1>3, <1>5, <1>7, <1>8, OneMoves DEF DeliveryInv
<1>12. FramesFresh' /\ FramesApart' /\ AtMostOneEvent'
  BY <1>1 DEF DeliveryInv, FramesFresh, FramesApart, AtMostOneEvent
<1> QED
  BY <1>9, <1>10, <1>11, <1>12 DEF DeliveryInv

\* The loop takes a message from its forwarder, and from there only.
LEMMA LoopTakeStep ==
    ASSUME DeliveryInv, NEW s \in Sub, LoopTake(s)
    PROVE  DeliveryInv'
<1>1. PICK m \in accepted :
      /\ m \in Msg /\ m = forwarder[s]
      /\ loop = NoMsg /\ m # NoMsg
      /\ loop' = m
      /\ forwarder' = [forwarder EXCEPT ![s] = NoMsg]
      /\ UNCHANGED <<sent, frames, listed, senders, accepted, handled, events,
                     crashed>>
  BY DEF LoopTake, DeliveryInv, OnlyAccepted, TypeOK
<1>2. forwarder \in [Sub -> Msg \cup {NoMsg}]  BY DEF DeliveryInv, TypeOK
<1>4. <<"forwarder", s>> \in Places(m)  BY <1>1 DEF Places
<1>5. Places(m) = {<<"forwarder", s>>} /\ m \notin handled
  BY <1>4, OnlyPlace
<1>6. /\ \A q \in Sub : <<m, q>> \notin senders
      /\ \A q \in Sub \ {s} : forwarder[q] # m
  BY <1>5, NowhereElse
<1>7. Places(m)' = {<<"loop", NoMsg>>}
  BY <1>1, <1>2, <1>6 DEF Places
<1>8. ASSUME NEW n \in accepted, n # m PROVE Places(n)' = Places(n)
  <2>1. n # NoMsg  BY NoMsgAssumption DEF DeliveryInv, TypeOK
  <2>2. \A q \in Sub : forwarder'[q] = n <=> forwarder[q] = n
    BY <1>1, <1>2, <1>8, <2>1
  <2> QED BY <1>1, <1>8, <2>1, <2>2 DEF Places
<1>9. TypeOK'  BY <1>1, <1>2 DEF DeliveryInv, TypeOK
<1>10. OnlyAccepted'
  BY <1>1, <1>2 DEF DeliveryInv, OnlyAccepted
<1>11. OnItsWay'
  BY <1>1, <1>5, <1>7, <1>8, OneMoves DEF DeliveryInv
<1>12. FramesFresh' /\ FramesApart' /\ AtMostOneEvent'
  BY <1>1 DEF DeliveryInv, FramesFresh, FramesApart, AtMostOneEvent
<1> QED
  BY <1>9, <1>10, <1>11, <1>12 DEF DeliveryInv

\* A message the loop is through with is nowhere, with its event if it has one.
LEMMA DoneStep == ASSUME DeliveryInv, Done PROVE DeliveryInv'
<1>1. PICK m \in accepted :
      /\ m \in Msg /\ m = loop /\ handled' = handled \cup {m} /\ loop' = NoMsg
      /\ UNCHANGED <<sent, frames, listed, senders, forwarder, accepted, crashed>>
      /\ events' = IF Kind[m] = "skipped" THEN events
                   ELSE [events EXCEPT ![m] = @ + 1]
  BY DEF Done, Skip, HandleEvent, HandleRemoved, At, QueueEvent, LoopDone,
         DeliveryInv, OnlyAccepted, TypeOK
<1>2. m # NoMsg  BY <1>1, NoMsgAssumption
<1>3. <<"loop", NoMsg>> \in Places(m)  BY <1>1 DEF Places
<1>4. Places(m) = {<<"loop", NoMsg>>} /\ m \notin handled
  BY <1>3, OnlyPlace
<1>5. /\ \A q \in Sub : <<m, q>> \notin senders
      /\ \A q \in Sub : forwarder[q] # m
  BY <1>4, NowhereElse
<1>6. Places(m)' = {}
  BY <1>1, <1>2, <1>5 DEF Places
<1>7. ASSUME NEW n \in accepted, n # m PROVE Places(n)' = Places(n)
  <2>1. n # NoMsg  BY NoMsgAssumption DEF DeliveryInv, TypeOK
  <2> QED BY <1>1, <1>7, <2>1 DEF Places
<1>8. events' \in [Msg -> Nat]
  BY <1>1, <1>2 DEF DeliveryInv, TypeOK
<1>9. TypeOK'  BY <1>1, <1>2, <1>8 DEF DeliveryInv, TypeOK
<1>10. OnlyAccepted'  BY <1>1, <1>2 DEF DeliveryInv, OnlyAccepted
<1>11. OnItsWay'
  BY <1>1, <1>2, <1>6, <1>7, OneMoves DEF DeliveryInv
<1>12. AtMostOneEvent'
  BY <1>1, <1>2, <1>4 DEF DeliveryInv, TypeOK, AtMostOneEvent
<1>13. FramesFresh' /\ FramesApart'
  BY <1>1 DEF DeliveryInv, FramesFresh, FramesApart
<1> QED
  BY <1>9, <1>10, <1>11, <1>12, <1>13 DEF DeliveryInv

\* So every step keeps the invariant.
LEMMA DeliveryNext == DeliveryInv /\ [Next]_vars => DeliveryInv'
<1> SUFFICES ASSUME DeliveryInv, [Next]_vars PROVE DeliveryInv'
  OBVIOUS
<1>1. CASE (\E f \in Frame : Receive(f)) \/ ReceiveNothing
  BY <1>1, ReceiveStep, DownStep
<1>2. CASE Unlist \/ (\E s \in Sub : Relist(s)) \/ UNCHANGED vars
  BY <1>2, ListStep
<1>3. CASE Carry
  BY <1>3, UnmatchedStep, DispatchStep, ForwardStep, LoopTakeStep DEF Carry
<1>4. CASE Handle
  BY <1>4, DoneStep, DownStep DEF Handle, Done, Down
<1> QED
  BY <1>1, <1>2, <1>3, <1>4 DEF Next

-----------------------------------------------------------------------------
(* The theorems.                                                              *)

\* The invariant holds in every reachable state.
THEOREM DeliveryInvariant == Spec => []DeliveryInv
<1>1. Init => DeliveryInv  BY DeliveryInit
<1>2. DeliveryInv /\ [Next]_vars => DeliveryInv'  BY DeliveryNext
<1> QED
  BY <1>1, <1>2, PTL DEF Spec

\* Every variable stays in its range.
THEOREM DeliveryTyped == Spec => []TypeOK
<1>1. DeliveryInv => TypeOK  BY DEF DeliveryInv
<1> QED
  BY <1>1, DeliveryInvariant, PTL

\* An accepted message is in one place on its way to the loop, or handled and in
\* none: neither the goroutine handleMessages starts for it (faye_client.go:470)
\* nor the channels and the forwarder behind it (real_time.go:244) lose or double it.
THEOREM NothingLost == Spec => []OnItsWay
<1>1. DeliveryInv => OnItsWay  BY DEF DeliveryInv
<1> QED
  BY <1>1, DeliveryInvariant, PTL

\* A handled message has queued one event to the bridge, or none when it was to be
\* skipped, and no other message has queued any, even if several patterns match it.
THEOREM OneEventEach == Spec => []AtMostOneEvent
<1>1. DeliveryInv => AtMostOneEvent  BY DEF DeliveryInv
<1> QED
  BY <1>1, DeliveryInvariant, PTL

\* Every step of the chain is a step of the Mailbox or leaves it alone.
LEMMA StepIsMailboxStep ==
    ASSUME DeliveryInv, [Next]_vars
    PROVE  [Box!Next]_(Box!vars)
<1>1. CASE \E f \in Frame : Receive(f)
  BY <1>1 DEF Receive, Box!vars
<1>2. CASE Unlist \/ (\E s \in Sub : Relist(s)) \/ UNCHANGED vars
  BY <1>2 DEF Unlist, Relist, vars, Box!vars
<1>3. CASE \E f \in frames : Unmatched(f)
  BY <1>3 DEF Unmatched, Box!vars
<1>4. ASSUME NEW f \in frames, NEW s \in Sub, Dispatch(f, s) PROVE Box!Next
  <2>1. Head(f) \in Msg /\ Head(f) \notin accepted
    BY FrameIsSeq DEF DeliveryInv, TypeOK, FramesFresh
  <2>2. Box!Accept(Head(f))
    BY <1>4, <2>1 DEF Dispatch, Box!Accept
  <2> QED BY <2>1, <2>2 DEF Box!Next
<1>5. CASE \E m \in Msg, s \in Sub : Forward(m, s)
  BY <1>5 DEF Forward, Box!vars
<1>6. CASE \E s \in Sub : LoopTake(s)
  BY <1>6 DEF LoopTake, Box!vars
<1>7. CASE Done
  <2>1. ~crashed /\ handled' = handled \cup {loop} /\ loop # NoMsg
        /\ UNCHANGED <<accepted, crashed>>
    BY <1>7 DEF Done, Skip, HandleEvent, HandleRemoved, At, LoopDone
  <2>2. loop \in accepted /\ loop \in Msg
    BY <2>1 DEF DeliveryInv, OnlyAccepted, TypeOK
  <2>3. <<"loop", NoMsg>> \in Places(loop)  BY DEF Places
  <2>4. loop \notin handled  BY <2>2, <2>3, OnlyPlace
  <2>5. Box!Hand(loop)  BY <2>1, <2>2, <2>4 DEF Box!Hand
  <2> QED BY <2>2, <2>5 DEF Box!Next
<1>8. CASE Down \/ ReceiveNothing
  BY <1>8
  DEF Down, RemovedFails, HandleUnknown, ReceiveNothing, At, Crash, Box!Next, Box!Fail
<1> QED
  BY <1>1, <1>2, <1>3, <1>4, <1>5, <1>6, <1>7, <1>8 DEF Next, Carry, Handle, Done, Down

\* The goroutines and channels between handleMessages and HandleMessageLoop implement
\* the Mailbox: a message is handed over at most once, and only if it was accepted.
THEOREM ImplementsMailbox == Spec => Box!Safety
<1>1. Init => Box!Init
  BY DEF Init, Box!Init
<1>2. DeliveryInv /\ [Next]_vars => [Box!Next]_(Box!vars)
  BY StepIsMailboxStep
<1> QED
  BY <1>1, <1>2, DeliveryInvariant, PTL DEF Spec, Box!Safety

-----------------------------------------------------------------------------
(* The safety behind the Mailbox's liveness.                                  *)

\* While a message is on its way somebody can take a step with one: the loop is at a
\* message, or is free and a forwarder has one for it, or a goroutine blocked on a
\* channel has a free forwarder at the other end.
ChainMoves ==
    accepted # handled =>
        \/ loop \in accepted \ handled
        \/ loop = NoMsg /\ \E s \in Sub : forwarder[s] \in accepted \ handled
        \/ \E m \in accepted \ handled, s \in Sub :
             <<m, s>> \in senders /\ forwarder[s] = NoMsg

\* The goroutines that carry messages never wait for one another in a circle, however
\* many channels there are (real_time.go:153, 245; faye_client.go:470).
THEOREM NeverStandsStill == Spec => []ChainMoves
<1>1. DeliveryInv => ChainMoves
  <2> SUFFICES ASSUME DeliveryInv, accepted # handled, ~(loop \in accepted \ handled)
               PROVE  \/ /\ loop = NoMsg
                         /\ \E s \in Sub : forwarder[s] \in accepted \ handled
                      \/ \E m \in accepted \ handled, s \in Sub :
                           <<m, s>> \in senders /\ forwarder[s] = NoMsg
    BY DEF ChainMoves
  <2>1. PICK m \in accepted : m \notin handled /\ Places(m) # {}
    BY DEF DeliveryInv, OnlyAccepted, OnItsWay
  <2>2. ASSUME NEW n \in accepted, Places(n) # {} PROVE n \notin handled
    BY <2>2 DEF DeliveryInv, OnItsWay
  <2>3. loop = NoMsg
    <3>1. loop \in accepted => loop \notin handled
      BY <2>2, PlaceByPlace
    <3> QED BY <3>1 DEF DeliveryInv, OnlyAccepted
  <2>4. CASE \E s \in Sub : forwarder[s] # NoMsg
    <3>1. PICK s \in Sub : forwarder[s] # NoMsg  BY <2>4
    <3>2. forwarder[s] \in accepted  BY <3>1 DEF DeliveryInv, OnlyAccepted
    <3>3. forwarder[s] \notin handled  BY <3>2, <2>2, PlaceByPlace
    <3> QED BY <2>3, <3>2, <3>3
  <2>5. CASE \A s \in Sub : forwarder[s] = NoMsg
    <3>1. \E s \in Sub : <<m, s>> \in senders
      BY <2>1, <2>3, <2>5, NoMsgAssumption DEF Places, DeliveryInv, TypeOK
    <3> QED BY <2>1, <2>5, <3>1
  <2> QED BY <2>4, <2>5
<1> QED
  BY <1>1, DeliveryInvariant, PTL

\* How many goroutines a message still has to pass.
Ahead(m) ==
    IF \E s \in Sub : <<m, s>> \in senders THEN 3
    ELSE IF \E s \in Sub : forwarder[s] = m THEN 2
    ELSE IF loop = m THEN 1 ELSE 0

\* A message only ever goes on, and the step that moves it leaves every other where it
\* is: with NeverStandsStill, what was accepted before the process goes down is handled
\* after three steps of its own.
OnlyForward ==
    [][\A m \in accepted :
        \/ Ahead(m)' = Ahead(m)
        \/ /\ Ahead(m)' = Ahead(m) - 1
           /\ \A n \in accepted \ {m} : Ahead(n)' = Ahead(n)]_vars

\* A step that takes message m on by one and touches no other.
Advances(m) ==
    /\ Ahead(m)' = Ahead(m) - 1
    /\ \A n \in accepted \ {m} : Ahead(n)' = Ahead(n)

\* A forwarder takes a message over from its sender.
LEMMA ForwardAdvances ==
    ASSUME DeliveryInv, NEW m \in Msg, NEW s \in Sub, Forward(m, s)
    PROVE  m \in accepted /\ Advances(m)
<1>1. /\ <<m, s>> \in senders /\ forwarder[s] = NoMsg
      /\ senders' = senders \ {<<m, s>>}
      /\ forwarder' = [forwarder EXCEPT ![s] = m] /\ loop' = loop
  BY DEF Forward
<1>2. m \in accepted /\ forwarder \in [Sub -> Msg \cup {NoMsg}]
  BY <1>1 DEF DeliveryInv, OnlyAccepted, TypeOK
<1>3. Places(m) = {<<"sender", s>>}
  <2>1. <<"sender", s>> \in Places(m)  BY <1>1, PlaceByPlace
  <2> QED BY <1>2, <2>1, OnlyPlace
<1>4. \A q \in Sub \ {s} : <<m, q>> \notin senders
  BY <1>3, NowhereElse
<1>5. Ahead(m) = 3 /\ Ahead(m)' = 2
  BY <1>1, <1>2, <1>4 DEF Ahead
<1>6. ASSUME NEW n \in accepted \ {m} PROVE Ahead(n)' = Ahead(n)
  <2>1. n # NoMsg  BY NoMsgAssumption DEF DeliveryInv, TypeOK
  <2>2. \A q \in Sub : forwarder'[q] = n <=> forwarder[q] = n
    BY <1>1, <1>2, <2>1
  <2>3. \A q \in Sub : <<n, q>> \in senders' <=> <<n, q>> \in senders
    BY <1>1
  <2> QED BY <1>1, <2>2, <2>3 DEF Ahead
<1> QED BY <1>2, <1>5, <1>6 DEF Advances

\* The loop takes a message over from its forwarder.
LEMMA LoopTakeAdvances ==
    ASSUME DeliveryInv, NEW s \in Sub, LoopTake(s)
    PROVE  \E m \in accepted : Advances(m)
<1>1. PICK m \in accepted :
        /\ m \in Msg /\ m = forwarder[s] /\ m # NoMsg
        /\ loop = NoMsg /\ loop' = m
        /\ forwarder' = [forwarder EXCEPT ![s] = NoMsg] /\ senders' = senders
  BY DEF LoopTake, DeliveryInv, OnlyAccepted, TypeOK
<1>2. forwarder \in [Sub -> Msg \cup {NoMsg}]  BY DEF DeliveryInv, TypeOK
<1>3. Places(m) = {<<"forwarder", s>>}
  <2>1. <<"forwarder", s>> \in Places(m)  BY <1>1, PlaceByPlace
  <2> QED BY <2>1, OnlyPlace
<1>4. /\ \A q \in Sub : <<m, q>> \notin senders
      /\ \A q \in Sub \ {s} : forwarder[q] # m
  BY <1>3, NowhereElse
<1>5. Ahead(m) = 2 /\ Ahead(m)' = 1
  BY <1>1, <1>2, <1>4 DEF Ahead
<1>6. ASSUME NEW n \in accepted \ {m} PROVE Ahead(n)' = Ahead(n)
  <2>1. n # NoMsg  BY NoMsgAssumption DEF DeliveryInv, TypeOK
  <2>2. \A q \in Sub : forwarder'[q] = n <=> forwarder[q] = n
    BY <1>1, <1>2, <2>1
  <2> QED BY <1>1, <2>1, <2>2 DEF Ahead
<1> QED BY <1>5, <1>6 DEF Advances

\* The loop gets through with a message.
LEMMA DoneAdvances ==
    ASSUME DeliveryInv, Done
    PROVE  \E m \in accepted : Advances(m)
<1>1. /\ loop # NoMsg /\ loop' = NoMsg /\ UNCHANGED <<senders, forwarder>>
      /\ loop \in accepted
  BY DEF Done, Skip, HandleEvent, HandleRemoved, At, LoopDone, DeliveryInv, OnlyAccepted
<1>2. Places(loop) = {<<"loop", NoMsg>>}
  <2>1. <<"loop", NoMsg>> \in Places(loop)  BY PlaceByPlace
  <2> QED BY <1>1, <2>1, OnlyPlace
<1>3. /\ \A q \in Sub : <<loop, q>> \notin senders
      /\ \A q \in Sub : forwarder[q] # loop
  BY <1>2, NowhereElse
<1>4. Ahead(loop) = 1  BY <1>3 DEF Ahead
<1>5. PICK n \in accepted : n = loop  BY <1>1
<1>6. Ahead(n)' = 0  BY <1>1, <1>3, <1>5 DEF Ahead
<1>7. ASSUME NEW k \in accepted \ {n} PROVE Ahead(k)' = Ahead(k)
  <2>1. k # NoMsg  BY NoMsgAssumption DEF DeliveryInv, TypeOK
  <2> QED BY <1>1, <1>5, <2>1 DEF Ahead
<1> QED BY <1>4, <1>5, <1>6, <1>7 DEF Advances

\* Each message passes each goroutine once and in order, and no step gives one back.
THEOREM OnlyGoesForward == Spec => OnlyForward
<1>1. DeliveryInv /\ [Next]_vars
        => [\A m \in accepted :
              \/ Ahead(m)' = Ahead(m)
              \/ /\ Ahead(m)' = Ahead(m) - 1
                 /\ \A n \in accepted \ {m} : Ahead(n)' = Ahead(n)]_vars
  <2> SUFFICES ASSUME DeliveryInv, Next
               PROVE  \A m \in accepted : Ahead(m)' = Ahead(m) \/ Advances(m)
    BY DEF Advances
  <2>1. ASSUME NEW m \in accepted, Advances(m)
        PROVE  \A n \in accepted : Ahead(n)' = Ahead(n) \/ Advances(n)
    BY <2>1 DEF Advances
  <2>2. CASE UNCHANGED <<senders, forwarder, loop>>
    BY <2>2 DEF Ahead
  <2>3. ASSUME NEW f \in frames, NEW s \in Sub, Dispatch(f, s)
        PROVE  \A m \in accepted : Ahead(m)' = Ahead(m)
    <3>1. Head(f) \notin accepted
      BY FrameIsSeq DEF DeliveryInv, TypeOK, FramesFresh
    <3> QED BY <2>3, <3>1 DEF Dispatch, Ahead
  <2>4. CASE \E m \in Msg, s \in Sub : Forward(m, s)
    BY <2>1, <2>4, ForwardAdvances
  <2>5. CASE \E s \in Sub : LoopTake(s)
    BY <2>1, <2>5, LoopTakeAdvances
  <2>6. CASE Done
    BY <2>1, <2>6, DoneAdvances
  <2> QED
    BY <2>2, <2>3, <2>4, <2>5, <2>6
    DEF Next, Carry, Handle, Done, Receive, ReceiveNothing, Unlist, Relist, Unmatched,
        RemovedFails, HandleUnknown, Crash
<1> QED
  BY <1>1, DeliveryInvariant, PTL DEF Spec, OnlyForward
=============================================================================
