\* Two slots, a query the adapter covers and one it does not.
SPECIFICATION FairSpec
CONSTANTS
  t1 = t1  t2 = t2  k1 = k1  k2 = k2  None = None
  Tasks <- TwoTasks
  Keys <- TwoKeys
  Idempotent <- OneKey
  Covered <- OneKey
  FailureThreshold = 2
  MaxRetries = 1
  Faults <- AllFaults
  MaxCrashes = 1
INVARIANTS TypeOK LockExcludes ProbePending
PROPERTIES CallsEnd ProviderRecovers
