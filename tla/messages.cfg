CONSTANTS
  t1 = t1
  t2 = t2
  t3 = t3
  a1 = a1
  a2 = a2
  l1 = l1
  l2 = l2
  l3 = l3
  Nobody = Nobody
  Stranger = Stranger
  Agents <- TwoAgents
  Role = "host"
  Persist = TRUE
  Ttl = FALSE
  Unregisters = TRUE
  MaxLen = 2
  MaxMsgs = 3
  MaxPeers = 2
  MaxBreaks = 1
  MaxCrashes = 1

SPECIFICATION MCSpec
INVARIANT TypesOK
INVARIANT FlushedInOrder
INVARIANT PromisesAreKept
INVARIANT ReportsAreTrue
INVARIANT ReadersMissNothing
INVARIANT FramesFindTheirs
CHECK_DEADLOCK FALSE
