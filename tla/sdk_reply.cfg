CONSTANTS
  Uses = {"ask", "auto", "stream"}
  Take = 2
  QueueMax = 4
  Chunk = 3
  Sizes = {1, 2}
  MaxCalls = 1
  MaxIn = 3
  MaxOut = 1

SPECIFICATION SSpec
INVARIANT ReplyIsTheirs
CHECK_DEADLOCK FALSE
