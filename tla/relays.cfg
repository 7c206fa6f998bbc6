CONSTANTS
  t1 = t1
  Tokens = {t1, t2}
  Ids = {i1}
  Slots = {r1, r2}
  Guests = {g}
  Cursors = {c}
  Nothing = Nothing
  MsgLimit = 2
  PageLimit = 1
  MaxRooms = 1
  MaxRequests = 3
  MaxNow = 2
  a1 = a1
  Agents = {a1}
  Sockets = {s1, s2}
  AgentOf <- OneAgent
  Nobody = Nobody
  Batch = 1
  MaxMsgs = 2
  MaxBreaks = 2
  Members = {m1, m2, m3}
  Founder = m1
  MaxOps = 3
  MaxLinks = 1
  MaxLate = 1
  MaxDown = 1
  Names = {n1, n2}
  Fetches = {f1, f2, f3}
  MaxRecords = 3
  Links = {l1}
  Callers = {c1, c2}
  Locals = {q1}
  None = None
  MaxRows = 2
  MaxRoutes = 1
  MaxFeds = 2
  Uses = {"ask", "auto", "stream"}
  Take = 2
  QueueMax = 4
  Chunk = 3
  Sizes = {1, 2}
  MaxCalls = 1
  MaxIn = 3
  MaxOut = 1
  Never = Never
  h1 = h1
  h2 = h2

SPECIFICATION SpecAll
INVARIANT TypesOK
INVARIANT RelayKeeps
INVARIANT GatewayDelivers
INVARIANT GroupsAgree
INVARIANT FederationIsSound
INVARIANT YieldedIsPrefix
INVARIANT LanIsSeen
CHECK_DEADLOCK FALSE
