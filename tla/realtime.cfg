SPECIFICATION FairSpec
CONSTANTS
  MaxEvents = 3
  MaxDrops = 2
  MaxErrors = 2
INVARIANTS CursorIsHonest SyncedIsFresh
PROPERTIES AppliedNeverReverts SyncEnds
CHECK_DEADLOCK FALSE
