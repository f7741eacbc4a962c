-------------------------- MODULE MCAlertDelivery --------------------------
(* Instances of AlertDelivery for TLC.                                     *)
EXTENDS AlertDelivery

CONSTANTS a1, s1, w1, w2

OneAlert     == {a1}
Moderate     == [a \in AlertIds |-> "MODERATE"]
OneSub       == {s1}
OneWatch     == {w1}
TwoWatches   == {w1, w2}
AtMinor      == [s \in Subs |-> "MINOR"]

Calm   == [action |-> "NORMAL", risk |-> "LOW", alerts |-> {}, status |-> "COMPLETED"]
Danger == [action |-> "AVOID", risk |-> "HIGH", alerts |-> {a1}, status |-> "COMPLETED"]
CalmOrDanger == {Calm, Danger}

NoFault      == {}
AllFaults    == {"crash", "agent"}
=============================================================================
