SPECIFICATION Spec
CONSTANTS
  r1 = r1
  r2 = r2
  r3 = r3
  r4 = r4
  k1 = k1
  b1 = b1
  b2 = b2
  b3 = b3
  None = None
  Requests = {r1, r2, r3}
  KeyOf <- RetryKeys
  BodyOf <- RetryBodies
  Phased = {}
  Imports = {}
  Unrecorded = {}
  Subscribed = FALSE
  ReadsSave = FALSE
  MayAbort = TRUE
  MaxCrashes = 2
  MaxFailures = 2
INVARIANTS
  TypeOK
  GateHeld
  AcknowledgedIsDurable
  KeyedAtMostOnce
  FailureLeavesNoTrace
PROPERTIES
  ImplementsAtomicMutations
CHECK_DEADLOCK FALSE
