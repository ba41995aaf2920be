-------------------------- MODULE ConversionProofs --------------------------
(***************************************************************************)
(* What Conversion.tla checks of messages with four attachments, for any     *)
(* number of them.                                                           *)
(***************************************************************************)
EXTENDS Conversion, SequenceTheorems, TLAPS

\* The attachments before the loop's have their parts, and no other has.
Placed ==
    /\ at # "text" =>
         \A j \in Wanted : j < next => \E k \in 1..Len(parts) : parts[k].of = j
    /\ \A k \in 1..Len(parts) : parts[k].of \in Wanted /\ parts[k].of < next

Ordered == \A k, l \in 1..Len(parts) : k < l => parts[k].of < parts[l].of

Told ==
    /\ \A j \in broken : j < next
    /\ \A k \in 1..Len(parts) :
         /\ parts[k].kind = "text" <=> parts[k].of = 0
         /\ parts[k].kind = "notice" <=> Lost(parts[k].of)

Inv ==
    /\ TypeOK /\ Placed /\ Ordered /\ Told
    /\ at = "text" => parts = <<>> /\ next = 1
    /\ at = "done" => next > Len(attachments)

-----------------------------------------------------------------------------
\* At the start there are no parts.
LEMMA ConversionInit == Init => Inv
<1> SUFFICES ASSUME Init PROVE Inv  OBVIOUS
<1>1. PICK n \in 0..MaxAttachments : attachments \in [1..n -> Type]
  BY DEF Init
<1>2. n \in Nat  BY MaxAttachmentsAssumption
<1>3. attachments \in Seq(Type)  BY <1>1, <1>2, SeqDef
<1>4. parts = <<>> /\ Len(parts) = 0  BY DEF Init
<1>5. TypeOK  BY <1>3, <1>4 DEF Init, TypeOK
<1> QED BY <1>4, <1>5 DEF Init, Inv, Placed, Ordered, Told

\* A part of the wanted kind, after all the others, for the attachment the loop
\* is at.
LEMMA AddPartKeeps ==
  ASSUME Inv, NEW kind \in {"image", "notice"}, AddPart(kind),
         at # "text", at # "done", next <= Len(attachments),
         attachments[next] # "reply",
         broken' \in {broken, broken \cup {next}},
         kind = "notice" <=> next \in broken' \/ attachments[next] = "other"
  PROVE  Inv'
<1> DEFINE p == NewPart(kind, next)
<1>1. /\ parts' = Append(parts, p) /\ next' = next + 1 /\ at' = "loop"
      /\ UNCHANGED <<text, attachments, replyTo>>
  BY DEF AddPart, message
<1>2. /\ attachments \in Seq(Type) /\ parts \in Seq(Part)
      /\ next \in 1..Len(attachments) /\ broken \subseteq 1..Len(attachments)
      /\ Len(attachments) \in Nat /\ Len(parts) \in Nat
  BY DEF Inv, TypeOK
<1>3. p \in Part /\ p.of = next /\ p.kind = kind
  BY <1>2 DEF Part, NewPart
<1>4. /\ parts' \in Seq(Part) /\ Len(parts') = Len(parts) + 1
      /\ \A k \in 1..Len(parts) : parts'[k] = parts[k]
      /\ parts'[Len(parts) + 1] = p
  BY <1>1, <1>2, <1>3, AppendProperties
<1> HIDE DEF p
<1>5. \A k \in 1..Len(parts') : k \in 1..Len(parts) \/ parts'[k] = p
  BY <1>2, <1>4
<1>6. ASSUME NEW k \in 1..Len(parts) PROVE parts[k].of \in Nat
  <2>1. parts[k] \in Part  BY <1>2, ElementOfSeq
  <2> QED BY <2>1 DEF Part
<1>7. TypeOK'
  BY <1>1, <1>2, <1>4 DEF Inv, TypeOK
<1>8. Wanted' = Wanted /\ next \in Wanted /\ Wanted \subseteq Nat
  BY <1>1, <1>2 DEF Wanted
<1>9. Placed'
  <2>1. ASSUME NEW j \in Wanted, j < next'
        PROVE  \E k \in 1..Len(parts') : parts'[k].of = j
    <3>1. CASE j = next
      <4>1. Len(parts) + 1 \in 1..Len(parts')  BY <1>2, <1>4
      <4> QED BY <1>3, <1>4, <3>1, <4>1
    <3>2. CASE j < next
      <4>1. PICK k \in 1..Len(parts) : parts[k].of = j
        BY <3>2 DEF Inv, Placed
      <4>2. k \in 1..Len(parts') /\ parts'[k] = parts[k]  BY <1>2, <1>4
      <4> QED BY <4>1, <4>2
    <3> QED BY <1>1, <1>2, <1>8, <2>1, <3>1, <3>2
  <2>2. ASSUME NEW k \in 1..Len(parts')
        PROVE  parts'[k].of \in Wanted /\ parts'[k].of < next'
    <3>1. CASE k \in 1..Len(parts)
      BY <1>1, <1>2, <1>4, <1>6, <3>1 DEF Inv, Placed
    <3>2. CASE parts'[k] = p  BY <1>1, <1>2, <1>3, <1>8, <3>2
    <3> QED BY <1>5, <3>1, <3>2
  <2> QED BY <1>8, <2>1, <2>2 DEF Placed
<1>10. Ordered'
  <2> SUFFICES ASSUME NEW k \in 1..Len(parts'), NEW l \in 1..Len(parts'), k < l
               PROVE  parts'[k].of < parts'[l].of
    BY DEF Ordered
  <2>1. k \in 1..Len(parts)  BY <1>2, <1>4
  <2>2. CASE l \in 1..Len(parts)  BY <1>4, <2>1, <2>2 DEF Inv, Ordered
  <2>3. CASE parts'[l] = p  BY <1>3, <1>4, <2>1, <2>3 DEF Inv, Placed
  <2> QED BY <1>5, <2>2, <2>3
<1>11. Told'
  <2>1. \A j \in broken' : j < next'  BY <1>1, <1>2 DEF Inv, Told
  <2>3. ASSUME NEW k \in 1..Len(parts')
        PROVE  /\ parts'[k].kind = "text" <=> parts'[k].of = 0
               /\ parts'[k].kind = "notice" <=> Lost(parts[k].of)'
    <3>1. CASE k \in 1..Len(parts)
      <4>1. parts[k].of \in Nat /\ parts[k].of # next
        BY <1>2, <1>6, <3>1 DEF Inv, Placed
      <4>2. /\ parts[k].kind = "text" <=> parts[k].of = 0
            /\ parts[k].kind = "notice" <=> Lost(parts[k].of)
        BY <3>1 DEF Inv, Told
      <4>3. parts'[k] = parts[k]  BY <1>4, <3>1
      <4> QED BY <1>1, <4>1, <4>2, <4>3 DEF Lost
    <3>2. CASE parts'[k] = p
      BY <1>1, <1>2, <1>3, <3>2 DEF Lost
    <3> QED BY <1>5, <3>1, <3>2
  <2> QED BY <2>1, <2>3 DEF Told
<1> QED BY <1>1, <1>7, <1>9, <1>10, <1>11 DEF Inv

-----------------------------------------------------------------------------
\* The text's part, if there is a text.
LEMMA TextKeeps == ASSUME Inv, Text PROVE Inv'
<1>1. /\ parts' = (IF text THEN <<NewPart("text", 0)>> ELSE <<>>)
      /\ at' = "loop" /\ next = 1
      /\ UNCHANGED <<text, attachments, next, replyTo, broken>>
  BY DEF Text, message, Inv
<1>2. /\ parts' \in Seq(Part)
      /\ Len(parts') = IF text THEN 1 ELSE 0
      /\ text => parts'[1].of = 0 /\ parts'[1].kind = "text"
  <2> DEFINE p == NewPart("text", 0)
  <2>1. p \in Part /\ p.of = 0 /\ p.kind = "text"  BY DEF Part, NewPart
  <2>2. text \in BOOLEAN /\ parts' = IF text THEN <<p>> ELSE <<>>
    BY <1>1 DEF Inv, TypeOK
  <2> HIDE DEF p
  <2>3. CASE text  BY <2>1, <2>2, <2>3
  <2>4. CASE ~text  BY <2>2, <2>4
  <2> QED BY <2>2, <2>3, <2>4
<1>3. TypeOK'  BY <1>1, <1>2 DEF Inv, TypeOK
<1>4. Wanted' = Wanted /\ (0 \in Wanted <=> text)
      /\ \A j \in Wanted : j < 1 => j = 0 /\ text
  BY <1>1 DEF Wanted, Inv, TypeOK
<1>5. Placed'
  <2>1. \A j \in Wanted' : j < next' => \E k \in 1..Len(parts') : parts'[k].of = j
    BY <1>1, <1>2, <1>4
  <2>2. \A k \in 1..Len(parts') : parts'[k].of \in Wanted' /\ parts'[k].of < next'
    BY <1>1, <1>2, <1>4
  <2> QED BY <2>1, <2>2 DEF Placed
<1>6. Ordered'  BY <1>2 DEF Ordered
<1>7. Told'  BY <1>1, <1>2 DEF Told, Lost, Inv, TypeOK
<1> QED BY <1>1, <1>3, <1>5, <1>6, <1>7 DEF Inv

\* A reply, and the way of an image: no part changes.
LEMMA LoopKeeps ==
  ASSUME Inv, Reply \/ DownloadImage \/ Downloaded PROVE Inv'
<1>1. /\ UNCHANGED <<text, attachments, parts, broken>>
      /\ at \notin {"text", "done"} /\ at' \notin {"text", "done"}
      /\ \/ next' = next
         \/ next' = next + 1 /\ next <= Len(attachments) /\ attachments[next] = "reply"
  BY DEF Reply, DownloadImage, Downloaded, AtType, message
<1>2. TypeOK'
  <2>1. CASE Reply  BY <2>1 DEF Inv, TypeOK, Reply, AtType, message
  <2>2. CASE DownloadImage
    BY <2>2 DEF Inv, TypeOK, DownloadImage, AtType, message
  <2>3. CASE Downloaded  BY <2>3 DEF Inv, TypeOK, Downloaded, message
  <2> QED BY <2>1, <2>2, <2>3
<1>3. Wanted' = Wanted /\ Wanted \subseteq 0..Len(attachments)
  BY <1>1 DEF Wanted, Inv, TypeOK
<1>4. next \in Nat /\ next \in Wanted => next' = next
  BY <1>1 DEF Wanted, Inv, TypeOK
<1>5. Len(attachments) \in Nat /\ parts \in Seq(Part) /\ next \in Nat
  BY DEF Inv, TypeOK
<1>6. ASSUME NEW k \in 1..Len(parts) PROVE parts[k].of \in Nat
  <2>1. parts[k] \in Part  BY <1>5, ElementOfSeq
  <2> QED BY <2>1 DEF Part
<1>7. Placed'
  <2>1. ASSUME NEW j \in Wanted, j < next'
        PROVE  \E k \in 1..Len(parts) : parts[k].of = j
    <3>1. j < next  BY <1>1, <1>3, <1>4, <1>5, <2>1
    <3> QED BY <1>1, <3>1 DEF Inv, Placed
  <2>2. \A k \in 1..Len(parts) : parts[k].of \in Wanted /\ parts[k].of < next'
    BY <1>1, <1>5, <1>6 DEF Inv, Placed
  <2> QED BY <1>1, <1>3, <2>1, <2>2 DEF Placed
<1>8. Ordered'  BY <1>1 DEF Inv, Ordered
<1>9. Told'
  <2>1. broken \subseteq Nat  BY <1>5 DEF Inv, TypeOK
  <2>2. \A j \in broken' : j < next'  BY <1>1, <1>5, <2>1 DEF Inv, Told
  <2>3. ASSUME NEW k \in 1..Len(parts')
        PROVE  /\ parts'[k].kind = "text" <=> parts'[k].of = 0
               /\ parts'[k].kind = "notice" <=> Lost(parts[k].of)'
    BY <1>1, <2>3 DEF Inv, Told, Lost
  <2> QED BY <2>2, <2>3 DEF Told
<1> QED BY <1>1, <1>2, <1>7, <1>8, <1>9 DEF Inv

\* The parts are numbered, and otherwise stay.
LEMMA NumberKeeps == ASSUME Inv, Number PROVE Inv'
<1>1. /\ parts' = [k \in 1..Len(parts) |-> [parts[k] EXCEPT !.id = k - 1]]
      /\ at = "loop" /\ at' = "done" /\ next > Len(attachments)
      /\ UNCHANGED <<text, attachments, next, replyTo, broken>>
  BY DEF Number, message, Inv, TypeOK
<1>2. parts \in Seq(Part) /\ Len(parts) \in Nat  BY DEF Inv, TypeOK
<1>3. ASSUME NEW k \in 1..Len(parts)
      PROVE  /\ parts'[k] \in Part
             /\ parts'[k].of = parts[k].of /\ parts'[k].kind = parts[k].kind
  <2>1. parts[k] \in Part /\ k - 1 \in Nat  BY <1>2, ElementOfSeq
  <2>2. parts'[k] = [parts[k] EXCEPT !.id = k - 1]  BY <1>1
  <2> QED BY <2>1, <2>2 DEF Part
<1>4. parts' \in Seq(Part) /\ Len(parts') = Len(parts)
  <2>1. parts' \in [1..Len(parts) -> Part]  BY <1>1, <1>3
  <2>2. parts' \in Seq(Part)  BY <1>2, <2>1, SeqDef
  <2> QED BY <1>2, <2>1, <2>2
<1>5. TypeOK'  BY <1>1, <1>4 DEF Inv, TypeOK
<1>6. Wanted' = Wanted  BY <1>1 DEF Wanted
<1>7. Placed'  BY <1>1, <1>3, <1>4, <1>6 DEF Inv, Placed
<1>8. Ordered'  BY <1>3, <1>4 DEF Inv, Ordered
<1>9. Told'
  <2>1. ASSUME NEW k \in 1..Len(parts')
        PROVE  /\ parts'[k].kind = "text" <=> parts'[k].of = 0
               /\ parts'[k].kind = "notice" <=> Lost(parts[k].of)'
    BY <1>1, <1>3, <1>4, <2>1 DEF Inv, Told, Lost
  <2> QED BY <1>1, <2>1 DEF Inv, Told
<1> QED BY <1>1, <1>5, <1>7, <1>8, <1>9 DEF Inv

-----------------------------------------------------------------------------
\* The inductive invariant of convertMessage.
THEOREM ConversionInvariant == Spec => []Inv
<1>1. Inv /\ [Next]_vars => Inv'
  <2> SUFFICES ASSUME Inv, [Next]_vars PROVE Inv'  OBVIOUS
  <2>0. next <= Len(attachments) => next \in Nat /\ (next \in broken => next < next)
    BY DEF Inv, TypeOK, Told
  <2>1. CASE Unsupported
    <3>1. /\ at = "loop" /\ next <= Len(attachments) /\ attachments[next] = "other"
          /\ broken' = broken /\ AddPart("notice")
      BY <2>1 DEF Unsupported, AtType
    <3> QED BY <3>1, AddPartKeeps
  <2>2. CASE TransferFails
    <3>1. /\ at \notin {"text", "done"}
          /\ next <= Len(attachments) /\ attachments[next] = "image"
          /\ broken' = broken \cup {next} /\ AddPart("notice")
      BY <2>2 DEF TransferFails, Inv, TypeOK
    <3> QED BY <3>1, AddPartKeeps
  <2>3. CASE Uploaded
    <3>1. /\ at \notin {"text", "done"}
          /\ next <= Len(attachments) /\ attachments[next] = "image"
          /\ broken' = broken /\ AddPart("image")
      BY <2>3 DEF Uploaded, Inv, TypeOK
    <3>2. next \notin broken  BY <2>0, <3>1
    <3> QED BY <3>1, <3>2, AddPartKeeps
  <2>4. CASE UNCHANGED vars
    BY <2>4 DEF vars, Inv, TypeOK, Placed, Ordered, Told, Wanted, Lost
  <2> QED BY <2>1, <2>2, <2>3, <2>4, TextKeeps, LoopKeeps, NumberKeeps DEF Next
<1> QED BY <1>1, ConversionInit, PTL DEF Spec

\* Type correctness of convertMessage.
THEOREM ConversionTyped == Spec => []TypeOK
<1>1. Inv => TypeOK  BY DEF Inv
<1> QED BY <1>1, ConversionInvariant, PTL

\* For any number of attachments and failed transfers: one part each, in order.
THEOREM OneEach == Spec => []OnePartEach
<1>1. Inv => OnePartEach
  <2> SUFFICES ASSUME Inv, at = "done" PROVE OnePartEach
    BY DEF OnePartEach, Done
  <2>1. DOMAIN parts = 1..Len(parts)  BY DEF Inv, TypeOK
  <2>2. \A j \in Wanted : j < next  BY DEF Inv, TypeOK, Wanted
  <2> QED BY <2>1, <2>2 DEF Inv, Placed, Ordered, OnePartEach
<1> QED BY <1>1, ConversionInvariant, PTL

\* ... and a notice in the place of what was lost, and nowhere else.
THEOREM NoticesWhereLost == Spec => []NoticeWhereLost
<1>1. Inv => NoticeWhereLost
  BY DEF Inv, TypeOK, Told, NoticeWhereLost
<1> QED BY <1>1, ConversionInvariant, PTL

-----------------------------------------------------------------------------
(* convertMessage comes to an end.                                            *)

\* The steps that are left at most: three for each attachment from the loop's on, fewer
\* by those the one that is being transferred has behind it, then the text and the
\* numbering.
StepsLeft ==
    LET ahead == 3 * (Len(attachments) + 1 - next)
    IN CASE at = "text"        -> ahead + 2
         [] at = "loop"        -> ahead + 1
         [] at = "downloading" -> ahead
         [] at = "uploading"   -> ahead - 1
         [] at = "done"        -> 0

\* The number of steps left goes down with each, and never below none.
Ends == [][StepsLeft' \in Nat /\ StepsLeft' < StepsLeft]_vars

\* Every step of convertMessage leaves fewer, failed transfers included: it returns
\* after three steps for an attachment and two more, if the requests it makes do.
THEOREM ConversionEnds == Spec => Ends
<1>1. Inv /\ Inv' /\ Next => StepsLeft' \in Nat /\ StepsLeft' < StepsLeft
  <2> SUFFICES ASSUME Inv, Inv', Next
               PROVE  StepsLeft' \in Nat /\ StepsLeft' < StepsLeft
    OBVIOUS
  <2> DEFINE n == Len(attachments)
  <2>1. /\ n \in Nat /\ next \in 1..(n + 1)
        /\ at \in {"downloading", "uploading"} => next <= n
        /\ at' \in {"downloading", "uploading"} => next' <= n'
        /\ next' \in 1..(n' + 1)
    BY DEF Inv, TypeOK
  <2>2. n' = n
    BY DEF Next, Text, Reply, Unsupported, DownloadImage, Downloaded, TransferFails,
           Uploaded, Number, AddPart, message
  <2> HIDE DEF n
  <2>3. /\ StepsLeft = LET ahead == 3 * (n + 1 - next)
                      IN CASE at = "text"        -> ahead + 2
                           [] at = "loop"        -> ahead + 1
                           [] at = "downloading" -> ahead
                           [] at = "uploading"   -> ahead - 1
                           [] at = "done"        -> 0
        /\ StepsLeft' = LET ahead == 3 * (n + 1 - next')
                       IN CASE at' = "text"        -> ahead + 2
                            [] at' = "loop"        -> ahead + 1
                            [] at' = "downloading" -> ahead
                            [] at' = "uploading"   -> ahead - 1
                            [] at' = "done"        -> 0
    BY <2>2 DEF StepsLeft, n
  <2>4. CASE Text
    <3>1. at = "text" /\ at' = "loop" /\ next' = next  BY <2>4 DEF Text
    <3> QED BY <2>1, <2>2, <2>3, <3>1
  <2>5. CASE Reply \/ Unsupported
    <3>1. at = "loop" /\ at' = "loop" /\ next' = next + 1
      BY <2>5 DEF Reply, Unsupported, AtType, AddPart
    <3> QED BY <2>1, <2>2, <2>3, <3>1
  <2>6. CASE DownloadImage
    <3>1. at = "loop" /\ at' = "downloading" /\ next' = next
      BY <2>6 DEF DownloadImage, AtType
    <3> QED BY <2>1, <2>2, <2>3, <3>1
  <2>7. CASE Downloaded
    <3>1. at = "downloading" /\ at' = "uploading" /\ next' = next
      BY <2>7 DEF Downloaded
    <3> QED BY <2>1, <2>2, <2>3, <3>1
  <2>8. CASE TransferFails \/ Uploaded
    <3>1. at \in {"downloading", "uploading"} /\ at' = "loop" /\ next' = next + 1
      BY <2>8 DEF TransferFails, Uploaded, AddPart
    <3> QED BY <2>1, <2>2, <2>3, <3>1
  <2>9. CASE Number
    <3>1. at = "loop" /\ at' = "done" /\ next' = next  BY <2>9 DEF Number
    <3> QED BY <2>1, <2>2, <2>3, <3>1
  <2> QED BY <2>4, <2>5, <2>6, <2>7, <2>8, <2>9 DEF Next
<1> QED
  BY <1>1, ConversionInvariant, PTL DEF Spec, Ends
=============================================================================
