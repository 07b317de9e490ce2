SPECIFICATION FairSpec
CONSTANTS
  Webhooks = {1, 2}
  None = None
  MaxPending = 2
  PerWebhook = 1
  PerCampaign = 2
  MaxEvents = 1
  MaxTurns = 3
INVARIANTS
  PendingIsReserved
  LedgerMeetsQueue
  AtMostOneStaleSend
PROPERTIES
  DurableOutcomeIsFinal
  EverythingSettles
CHECK_DEADLOCK FALSE
