\* Two handlers, or two connections, at a time; every fault.
SPECIFICATION MCApiSpec
CONSTANTS
  e1 = e1  e2 = e2  r1 = r1  a1 = a1  a2 = a2  c1 = c1  c2 = c2  s1 = s1  g1 = g1  g2 = g2
  None = None  Nobody = Nobody  NoStream = NoStream
  Groups <- AllGroups
  Editors <- TwoEditors
  Places = {1, 2}
  Marks = {"COMPLETED"}
  Routes = {"a"}
  Runs <- OneRun
  MaxRevision = 3
  TripFaults = {"services", "crash"}
  Askers <- TwoAskers
  ConsentIds <- TwoConsents
  Subs <- OneSub
  ConsentFaults = {"services", "crash"}
  Streams <- TwoStreams
  MaxPerUser = 2
  MaxEvents = 3
  ClockIds = {0, 2}
  MaxDrops = 1
  StreamFaults = {"publish", "start"}
INVARIANTS TypeOK RevisionsAgree NothingOutlivesConsent ReceivedInOrder SlotsMatchStreams
PROPERTIES TerminalReaches
CHECK_DEADLOCK FALSE
