\* Two follow-up runs of one conversation, at either trip revision; they may end.
SPECIFICATION Spec
CONSTANTS
  r1 = r1  r2 = r2  c1 = c1  c2 = c2  None = None
  Runs <- TwoRuns
  Cancellers <- NoCanceller
  Requests <- FollowUps
  Revisions = {1, 2}
  Actions = {"NORMAL"}
  MaxSteps = 12
  MaxToolCalls = 10
  EmergencyIds = {7}
  Faults <- NoFault
INVARIANTS RecommendationIsGrounded
SYMMETRY RunSymmetry
CHECK_DEADLOCK FALSE
