\* Requests to a server that may revoke tokens and fail.
CONSTANTS
  None = None
  Items <- MCItems
  RefreshAfter = 2
  TokenLife = 3
  PageLimit = 2
  MaxEmpty = 1
  MayRevoke = TRUE
  MaxClock = 4
  MaxRequests = 3
SPECIFICATION FairSpec
INVARIANTS
  RangeIsComplete
PROPERTIES
  RefusalIsOfAFreshToken
  RequestsEnd
\* After the last request nothing is left to do.
CHECK_DEADLOCK FALSE
