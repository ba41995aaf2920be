----------------------------- MODULE Conversion -----------------------------
(***************************************************************************)
(* A GroupMe message becomes the parts of a Matrix message: convertMessage  *)
(* (pkg/connector/handler.go) with ConvertAttachment, DownloadImage and     *)
(* ErrorToNotice (pkg/util/media.go).                                       *)
(*                                                                          *)
(* The text, if any, is the first part. Then attachments are taken one by   *)
(* one: a reply becomes the message's reply target and no part; an image is *)
(* downloaded from GroupMe and uploaded to Matrix, and either may fail; what *)
(* fails, or is of any other type, leaves a notice in its place. At the end *)
(* the parts are numbered.                                                  *)
(***************************************************************************)
EXTENDS Naturals, Sequences

CONSTANT MaxAttachments  \* bound: attachments of the message

ASSUME MaxAttachmentsAssumption == MaxAttachments \in Nat

Type == {"image", "reply", "other"}

VARIABLES
    text,         \* whether the message has a text
    attachments,  \* the types of its attachments
    next,         \* the attachment the loop is at
    at,           \* where convertMessage is
    parts,        \* the parts so far
    replyTo,      \* the attachment ReplyTo was taken from, 0 for none
    broken        \* image attachments whose transfer failed

vars == <<text, attachments, next, at, parts, replyTo, broken>>
message == <<text, attachments>>

\* A part, and the attachment it was made of (0: the text).
Part == [kind : {"text", "image", "notice"}, of : Nat, id : Nat]

NewPart(kind, j) == [kind |-> kind, of |-> j, id |-> 0]

\* Every variable stays in its range.
TypeOK ==
    /\ text \in BOOLEAN
    /\ attachments \in Seq(Type)
    /\ next \in 1..(Len(attachments) + 1)
    /\ at \in {"text", "loop", "downloading", "uploading", "done"}
    /\ at \in {"downloading", "uploading"} =>
         next <= Len(attachments) /\ attachments[next] = "image"
    /\ parts \in Seq(Part)
    /\ replyTo \in 0..Len(attachments)
    /\ broken \subseteq 1..Len(attachments)

Init ==
    /\ text \in BOOLEAN
    /\ attachments \in UNION {[1..n -> Type] : n \in 0..MaxAttachments}
    /\ next = 1 /\ at = "text" /\ parts = <<>> /\ replyTo = 0 /\ broken = {}

-----------------------------------------------------------------------------
Text ==
    /\ at = "text"
    /\ parts' = IF text THEN <<NewPart("text", 0)>> ELSE <<>>
    /\ at' = "loop"
    /\ UNCHANGED <<message, next, replyTo, broken>>

AtType(t) == at = "loop" /\ next <= Len(attachments) /\ attachments[next] = t

\* if attachment.Type == groupmeclient.Reply: ReplyTo is set, over an earlier one.
Reply ==
    /\ AtType("reply")
    /\ replyTo' = next
    /\ next' = next + 1
    /\ UNCHANGED <<message, at, parts, broken>>

\* Mutant: the loop passes over the attachment after one that had a part.
AddPartSkips(kind) ==
    /\ parts' = Append(parts, NewPart(kind, next))
    /\ next' = next + 2 /\ at' = "loop"
    /\ UNCHANGED <<message, replyTo>>

AddPart(kind) ==
    /\ parts' = Append(parts, NewPart(kind, next))
    /\ next' = next + 1 /\ at' = "loop"
    /\ UNCHANGED <<message, replyTo>>

\* Mutant: what cannot be converted is passed over.
UnsupportedSkipped ==
    /\ AtType("other")
    /\ next' = next + 1
    /\ UNCHANGED <<message, at, parts, replyTo, broken>>

\* default: unable to handle groupme attachment type.
Unsupported == AtType("other") /\ AddPart("notice") /\ UNCHANGED broken

DownloadImage ==
    /\ AtType("image")
    /\ at' = "downloading"
    /\ UNCHANGED <<message, next, parts, replyTo, broken>>

\* Any answer is taken for the image: its status is not looked at.
Downloaded ==
    /\ at = "downloading"
    /\ at' = "uploading"
    /\ UNCHANGED <<message, next, parts, replyTo, broken>>

\* No connection, a body cut short, or Matrix refuses the upload.
TransferFails ==
    /\ at \in {"downloading", "uploading"}
    /\ broken' = broken \cup {next}
    /\ AddPart("notice")

\* Mutant: a type prefix other than image/ makes a notice of a good transfer.
UploadedAsNotice == at = "uploading" /\ AddPart("notice") /\ UNCHANGED broken

Uploaded == at = "uploading" /\ AddPart("image") /\ UNCHANGED broken

\* part.ID = strconv.Itoa(i)
Number ==
    /\ at = "loop" /\ next > Len(attachments)
    /\ parts' = [k \in DOMAIN parts |-> [parts[k] EXCEPT !.id = k - 1]]
    /\ at' = "done"
    /\ UNCHANGED <<message, next, replyTo, broken>>

-----------------------------------------------------------------------------
Next ==
    \/ Text \/ Reply \/ Unsupported \/ DownloadImage \/ Downloaded
    \/ TransferFails \/ Uploaded \/ Number

Spec == Init /\ [][Next]_vars

-----------------------------------------------------------------------------
Done == at = "done"

\* The attachments that are to have a part, the text among them as number 0.
Wanted ==
    {j \in 1..Len(attachments) : attachments[j] # "reply"}
    \cup (IF text THEN {0} ELSE {})

\* However many transfers fail, and wherever: text and attachments have one part
\* each, in the order of the message, and nothing else has one (handler.go:262-288).
OnePartEach ==
    Done =>
        /\ {parts[k].of : k \in DOMAIN parts} = Wanted
        /\ \A k, l \in DOMAIN parts : k < l => parts[k].of < parts[l].of

\* What has no part of its own kind: its transfer failed, or no part is made of it.
Lost(j) == j > 0 /\ (j \in broken \/ attachments[j] = "other")

\* A notice stands exactly where something was lost: for an attachment that cannot
\* be converted or whose transfer failed, and for no other (handler.go:279-287).
NoticeWhereLost ==
    Done =>
        \A k \in DOMAIN parts :
            /\ parts[k].kind = "text" <=> parts[k].of = 0
            /\ parts[k].kind = "notice" <=> Lost(parts[k].of)
=============================================================================
