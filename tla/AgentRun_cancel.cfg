\* One run and two concurrent cancel handlers.
SPECIFICATION FairSpec
CONSTANTS
  r1 = r1  r2 = r2  c1 = c1  c2 = c2  None = None
  Runs <- OneRun
  Cancellers <- TwoCancellers
  Requests <- AnyRequest
  Revisions = {1, 2}
  Actions = {"NORMAL", "AVOID"}
  MaxSteps = 12
  MaxToolCalls = 10
  EmergencyIds = {7}
  Faults <- NoFault
INVARIANTS TypeOK StoredWasAnnounced DegradationIsShown
PROPERTIES SilentAfterTerminal ImplementsRunOutcome TaskEnds RunSettles CancellationIsStored
