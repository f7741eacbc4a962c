\* Two handlers without faults: a late write over a terminal row.
SPECIFICATION Spec
CONSTANTS
  r1 = r1  r2 = r2  h1 = h1  h2 = h2  k1 = k1  k2 = k2  p1 = p1  p2 = p2  None = None
  Requests <- OneRequest
  Handlers <- TwoHandlers
  Keys <- OneKey
  SystemKeys <- NoKey
  Payloads <- OnePayload
  Offers <- WithOrWithoutKey
  Calls = {"start", "poll"}
  Faults <- NoFault
PROPERTIES TerminalIsFinal
