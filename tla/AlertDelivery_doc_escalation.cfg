\* One evaluation at a time, without faults.
SPECIFICATION Spec
CONSTANTS
  a1 = a1  s1 = s1  w1 = w1  w2 = w2  None = None
  AlertIds <- OneAlert
  Official <- OneAlert
  AlertSeverity <- Moderate
  Subs <- OneSub
  Watches <- OneWatch
  Recs <- CalmOrDanger
  Threshold <- AtMinor
  Outcomes = {"DELIVERED"}
  Faults <- NoFault
  MaxRefresh = 5
  MaxClock = 1
PROPERTIES EscalationIsDelivered
