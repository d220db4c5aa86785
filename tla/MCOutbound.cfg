SPECIFICATION OutboundFairSpec
CONSTANTS
  c1 = c1
  c2 = c2
  Calls <- MCCalls
  maxRetries = 1
  Threshold = 2
  Modes <- MCModes
INVARIANTS
  SentOnce
  NoBodyLeaks
  CallerHearsTruth
PROPERTIES
  QuotaStaysVisible
  DependencyRecovers
