\* Two overlapping evaluations, which may crash, for one subscription.
SPECIFICATION FairSpec
CONSTANTS
  a1 = a1  s1 = s1  w1 = w1  w2 = w2  None = None
  AlertIds <- OneAlert
  Official <- OneAlert
  AlertSeverity <- Moderate
  Subs <- OneSub
  Watches <- TwoWatches
  Recs <- CalmOrDanger
  Threshold <- AtMinor
  Outcomes = {"DELIVERED", "FAILED", "SKIPPED"}
  Faults <- AllFaults
  MaxRefresh = 2
  MaxClock = 1
INVARIANTS TypeOK
PROPERTIES ImplementsDeliveryOnce RevokedStaysSilent PendingIsResolved
