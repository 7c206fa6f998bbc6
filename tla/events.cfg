CONSTANTS
  p1 = p1
  p2 = p2
  s1 = s1
  w1 = w1
  w2 = w2
  k1 = k1
  Publishers <- TwoPublishers
  Streams <- OneStream
  Watchers <- OneWatcher
  Tasks <- OneTask
  Watched <- WatchFirst
  Finals = {TRUE}
  LogMax = 1
  MaxEvents = 2
  MaxLeaves = 1
  Connections = {c1}
  Urls = {u1}
  Registrars = {g1, g2}
  Sinces = {1, Never}
  Never = Never
  Free = Free
  MaxHookCalls = 4
  Submitters = {b1, b2}
  QueueMax = 1
  MaxEntries = 3
  WsLogMax = 2
  FrameEvents = 3
  HookEvents = 2
  HookPublishers = {p1}
  Followers = {w1, w2}
  Requests = {1, 2}
  MaxBody = 1
  MaxData = 2
SPECIFICATION MCSpec
INVARIANT TypesOK
INVARIANT SeqIsUnique
INVARIANT StreamIsComplete
INVARIANT FollowersMissNone
INVARIANT RequestsAreAnswered
CHECK_DEADLOCK FALSE
