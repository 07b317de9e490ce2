SPECIFICATION FairSpec
CONSTANTS
  Requests = {1, 2}
  Uploads = {1, 2}
  Players = {10}
  Hosts = {21, 22}
  None = None
  MaxRequests = 2
  MaxPlayers = 1
  MaxUploadBytes = 1
  MaxAnswer = 1
  MaxAnswerBytes = 1
  MaxClients = 2
  MaxFaults = 1
INVARIANTS BudgetsAreExact SidesAgree
PROPERTIES AnswersAreWhole TunnelDrains
CHECK_DEADLOCK FALSE
