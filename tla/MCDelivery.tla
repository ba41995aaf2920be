----------------------------- MODULE MCDelivery -----------------------------
(* Delivery with two subscriptions whose patterns overlap: both match m1.     *)
EXTENDS Delivery, TLC

CONSTANTS m1, m2, m3, m4, s1, s2

MCMatches ==
    {<<m, s1>> : m \in {m1, m3, m4} \cap Msg} \cup
    {<<m, s2>> : m \in {m1, m2} \cap Msg}

MCKind ==
    [m \in Msg |-> CASE m = m1 -> "event" [] m = m2 -> "removed"
                     [] m = m3 -> "unhandled" [] m = m4 -> "skipped"]
=============================================================================
