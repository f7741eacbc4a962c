\* Two handlers of every kind, one key with two payloads, with every fault.
SPECIFICATION Spec
CONSTANTS
  r1 = r1  r2 = r2  h1 = h1  h2 = h2  k1 = k1  k2 = k2  p1 = p1  p2 = p2  None = None
  Requests <- TwoRequests
  Handlers <- TwoHandlers
  Keys <- ReassessKey
  SystemKeys <- ReassessKey
  Payloads <- TwoPayloads
  Offers <- SystemSubmission
  Calls = {"start", "poll", "cancel", "watch"}
  Faults <- AllFaults
SYMMETRY Symmetry
INVARIANTS TypeOK RowReflectsAgent ReplaysAgree
PROPERTIES SettledStays
