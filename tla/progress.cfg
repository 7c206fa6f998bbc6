CONSTANTS
  Guests = {g1}
  Dials = {d1, d2}
  Links = {l1}
  Nobody = Nobody
  Joined <- NoJoin
  OneThread = TRUE
  Threads = {t1, t2}
  Retries = 2
  MaxSockets = 2
  MaxDead = 2
  MaxTries = 2
  MaxListens = 1
  MaxOthers = 1
  MaxPublished = 1
  Readers = {r1, r2}
  Limits = {1, 2}
  PageLimit = 1
  QueueMax = 2
  MaxSlices = 1
  MaxAsks = 2
  MaxIn = 3
  p1 = p1
  s1 = s1
  w1 = w1
  k1 = k1

SPECIFICATION MCSpec
INVARIANT TypesOK
INVARIANT OnePeerPerLink
INVARIANT NoGhostPeer
INVARIANT CountIsRight
INVARIANT PunchIsSound
INVARIANT TakenOnce
INVARIANT SearchIsRight
PROPERTY EveryWaitEnds
CHECK_DEADLOCK FALSE
