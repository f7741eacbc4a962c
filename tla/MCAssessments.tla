--------------------------- MODULE MCAssessments ---------------------------
(* Instances of Assessments for TLC.                                       *)
EXTENDS Assessments, TLC

CONSTANTS r1, r2, h1, h2, k1, k2, p1, p2

OneRequest  == {r1}
TwoRequests == {r1, r2}
TwoHandlers == {h1, h2}
OneKey      == {k1}
NoKey       == {}
ReassessKey == {k2}
OnePayload  == {p1}
TwoPayloads == {p1, p2}
SystemSubmission == {k2} \X {p1, p2}
WithOrWithoutKey == {<<k1, p1>>, <<None, p1>>}
NoFault     == {}
AllFaults   == {"crash", "agent"}
Symmetry    == Permutations(Requests) \cup Permutations(Handlers)
=============================================================================
