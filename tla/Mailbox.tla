------------------------------- MODULE Mailbox -------------------------------
(***************************************************************************)
(* What the bridge promises of an incoming message, whatever goroutines and *)
(* channels carry it: once accepted it is handed to the handlers exactly    *)
(* once, in no particular order, unless the process goes down.              *)
(***************************************************************************)
CONSTANT Msg

VARIABLES
    accepted,   \* messages matched to a subscription
    handled,    \* messages the handlers have seen
    up          \* the process is alive

vars == <<accepted, handled, up>>

Init == accepted = {} /\ handled = {} /\ up = TRUE

Accept(m) ==
    /\ up /\ m \notin accepted
    /\ accepted' = accepted \cup {m}
    /\ UNCHANGED <<handled, up>>

Hand(m) ==
    /\ up /\ m \in accepted \ handled
    /\ handled' = handled \cup {m}
    /\ UNCHANGED <<accepted, up>>

Fail == up /\ up' = FALSE /\ UNCHANGED <<accepted, handled>>

Next == Fail \/ \E m \in Msg : Accept(m) \/ Hand(m)

Safety == Init /\ [][Next]_vars

Spec == Safety /\ \A m \in Msg : WF_vars(Hand(m))
=============================================================================
