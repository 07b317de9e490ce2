SPECIFICATION FairSpec
CONSTANTS
  j1 = j1
  j2 = j2
  w1 = w1
  w2 = w2
  import = import
  provider = provider
  None = None
  Jobs = {j1, j2}
  Workers = {w1}
  Types = {provider}
  PhasedTypes = {provider}
  MaxAttempts = 2
  MaxFaults = 1
  MaxForgets = 1
  MaxAdmin = 0
INVARIANTS
  RepeatedLeaseClaimsOnce
PROPERTIES
  EveryJobEnds
