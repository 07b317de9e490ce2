SPECIFICATION Spec
CONSTANTS
  Records = {"scene", "map"}
  Assets = {"map"}
  Refers <- MCRefers
  MaxFaults = 1
  MaxEdits = 0
PROPERTIES
  RollbackIsRetryable
