CONSTANTS
  Nobody = Nobody
  Agents = {a1}
  Role = "guest"
  Persist = TRUE
  Ttl = FALSE
  Unregisters = FALSE
  MaxLen = 2
  MaxMsgs = 2
  MaxPeers = 1
  MaxBreaks = 2
  MaxCrashes = 0

SPECIFICATION Spec
INVARIANT PromiseKept
CHECK_DEADLOCK FALSE
