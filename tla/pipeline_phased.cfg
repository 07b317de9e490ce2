SPECIFICATION FairSpec
CONSTANTS
  r1 = r1
  r2 = r2
  r3 = r3
  r4 = r4
  k1 = k1
  b1 = b1
  b2 = b2
  b3 = b3
  None = None
  Requests = {r1, r2, r3}
  KeyOf <- SharedKeys
  BodyOf <- RetryBodies
  Phased = {r1, r2}
  Imports = {r3}
  Unrecorded = {r2}
  Subscribed = TRUE
  ReadsSave = TRUE
  MayAbort = TRUE
  MaxCrashes = 1
  MaxFailures = 1
INVARIANTS
  ReplayIsDurable
  HolderNeverJoins
  PublishedIsDurable
PROPERTIES
  EveryRequestEnds
CHECK_DEADLOCK FALSE
