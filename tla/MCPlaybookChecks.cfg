SPECIFICATION Spec
CONSTANTS
  f1 = f1
  f2 = f2
  h1 = h1
  h2 = h2
  h3 = h3
  Fingerprints <- MCFingerprints
  Books <- MCBooks
  Handlers <- MCHandlers
  MaxRequests = 3
INVARIANTS
  TickIsKept
  SyncedStepsHaveRows
CHECK_DEADLOCK FALSE
