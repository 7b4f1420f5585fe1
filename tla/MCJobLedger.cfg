SPECIFICATION FairSpec
CONSTANTS
  s1 = s1
  s2 = s2
  t1 = t1
  t2 = t2
  h1 = h1
  h2 = h2
  NoTech = NoTech
  SessionIds <- MCSessionIds
  Technicians <- MCTechnicians
  Handlers <- MCHandlers
  StartReputation = 100
  Reward = 5
  MaxClock = 3
INVARIANTS
  RewardMatchesFixes
  OutcomeHasResolution
  HistoryAgreesUnlessOverlap
PROPERTIES
  CloseoutIsAtomic
  CloseoutEnds
CHECK_DEADLOCK FALSE
