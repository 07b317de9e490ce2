SPECIFICATION FairSpec
CONSTANTS
  Records = {"scene", "map", "portrait"}
  Assets = {"map", "portrait"}
  Refers <- MCRefers
  MaxFaults = 2
  MaxEdits = 2
INVARIANTS
  ObjectsMatchRecords
  NothingNamedIsMissing
PROPERTIES
  LaterWorkStays
  RollbackCompletes
