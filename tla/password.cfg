SPECIFICATION FairSpec
CONSTANTS
  Requests = {1, 2, 3}
  Cookies = {11, 12}
  Tokens = {t1}
  Original = Original
  None = None
  MaxConcurrent = 1
  MaxQueue = 1
  MaxSiblings = 2
  MaxAdmin = 2
INVARIANTS PoolInv SessionsShowThePassword DisabledMeansSignedOut UsedOnce UpgradeTakesThePlace
PROPERTIES EveryRequestAnswered
CHECK_DEADLOCK FALSE
