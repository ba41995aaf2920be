------------------------------ MODULE Timeline ------------------------------
(***************************************************************************)
(* What a chat's room promises, whatever the network does: every message of *)
(* the GroupMe chat appears in it at most once, either as the Matrix        *)
(* message that made it or as one the bridge wrote there, and stays as it   *)
(* is.                                                                      *)
(***************************************************************************)
CONSTANTS
    Msg,     \* messages
    Mine     \* those written in Matrix

VARIABLE
    appears  \* how a message appears in the room as one of GroupMe's

Init == appears = [m \in Msg |-> "not"]

Confirm(m) ==
    /\ m \in Mine /\ appears[m] = "not"
    /\ appears' = [appears EXCEPT ![m] = "confirmed"]

Show(m) ==
    /\ appears[m] = "not"
    /\ appears' = [appears EXCEPT ![m] = "shown"]

Next == \E m \in Msg : Confirm(m) \/ Show(m)

Spec == Init /\ [][Next]_appears
=============================================================================
