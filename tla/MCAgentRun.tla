----------------------------- MODULE MCAgentRun -----------------------------
(* Instances of AgentRun for TLC.                                          *)
EXTENDS AgentRun, TLC

CONSTANTS r1, r2, c1, c2

OneRun        == {r1}
TwoRuns       == {r1, r2}
NoCanceller   == {}
OneCanceller  == {c1}
TwoCancellers == {c1, c2}
NoFault       == {}
AnyRequest    == [rev : Revisions, confirmed : BOOLEAN, intent : Intents]
FollowUps     == [rev : Revisions, confirmed : {TRUE}, intent : {"CURRENT", "INFORMATION"}]
RunSymmetry   == Permutations(Runs)
AllFaults     == {"crash", "redis", "save"}
=============================================================================
