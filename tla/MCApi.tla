-------------------------------- MODULE MCApi --------------------------------
(* Instances of Api for TLC.                                               *)
EXTENDS Api

CONSTANTS e1, e2, r1, a1, a2, c1, c2, s1, g1, g2

TwoEditors  == {e1, e2}
OneRun      == {r1}
TwoAskers   == {a1, a2}
TwoConsents == {c1, c2}
OneSub      == {s1}
TwoStreams  == {g1, g2}

\* The places of a trip are alike: one of them is the first.
MCApiInit == ApiInit /\ trip.place = 1
MCApiSpec == MCApiInit /\ [][ApiNext]_apiVars /\ (group = "stream" => StreamFairness)

AllGroups   == {"trips", "consents", "stream"}
=============================================================================
