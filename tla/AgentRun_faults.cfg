\* One cancel handler, a process that may crash, stores that may lose or refuse
\* anything, and a step budget that ends in the middle of the graph.
SPECIFICATION FairSpec
CONSTANTS
  r1 = r1  r2 = r2  c1 = c1  c2 = c2  None = None
  Runs <- OneRun
  Cancellers <- OneCanceller
  Requests <- AnyRequest
  Revisions = {1}
  Actions = {"NORMAL"}
  MaxSteps = 3
  MaxToolCalls = 5
  EmergencyIds = {7}
  Faults <- AllFaults
PROPERTIES ImplementsRunRow TaskEnds
