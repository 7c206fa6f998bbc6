CONSTANTS
  h1 = h1
  loop = loop
  c1 = c1
  c2 = c2
  k1 = k1
  Loop = loop
  Tasks <- OneTask
  Handlers <- OneHandler
  Cancellers <- TwoCancellers
  OtherStates <- OneUnknown
  UpdateStates <- AgentUpdates
  Unpreempted <- SwitchAtCalls
  MaxRequests = 3
  Pagers = {g1}
  Waiters = {x1, x2}
  Limits = {1, 2}
  MaxTasks = 4
  MaxStamps = 2
  MaxLists = 1
  MaxPolls = 1
  WorkerIds = {v1, v2}
  Callers = {q1, q2}
  Skills = {s1}
  None = None
  MaxRegs = 2
  MaxQueued = 2
SPECIFICATION MCSpec
INVARIANT TypeOK
INVARIANT LogBalancesStatus
INVARIANT ClientsAreToldTrue
INVARIANT DispatchIsTrue
PROPERTY TerminalStaysTerminal
PROPERTY SerialCancelCompletes
CHECK_DEADLOCK FALSE
