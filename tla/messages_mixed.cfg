CONSTANTS
  Readers = {r1}
  Clients = {"pager"}
  Limits = {1}
  PageLimit = 1
  QueueMax = 3
  MaxSlices = 1
  MaxAsks = 1
  MaxIn = 2
  MaxOut = 2

SPECIFICATION Spec
INVARIANT MessagesAreListed
CHECK_DEADLOCK FALSE
