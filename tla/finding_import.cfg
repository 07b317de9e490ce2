SPECIFICATION Spec
CONSTANTS
  r1 = r1
  r2 = r2
  r3 = r3
  r4 = r4
  k1 = k1
  b1 = b1
  b2 = b2
  b3 = b3
  None = None
  Requests = {r1, r2}
  KeyOf <- MixedKeys
  BodyOf <- MixedBodies
  Phased = {}
  Imports = {r1}
  Unrecorded = {}
  Subscribed = FALSE
  ReadsSave = FALSE
  MayAbort = TRUE
  MaxCrashes = 0
  MaxFailures = 0
INVARIANTS
  ImportedObjectsExist
CHECK_DEADLOCK FALSE
