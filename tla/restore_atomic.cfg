SPECIFICATION Spec
CONSTANTS
  MaxRestores = 2
  MaxWrites = 2
  MaxErrors = 2
  MaxCrashes = 2
INVARIANTS
  EveryCrashHasAWayBack
PROPERTIES
  ImplementsAtomicRestore
