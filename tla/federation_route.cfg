CONSTANTS
  Links = {l1}
  Callers = {c1, c2}
  Locals = {q1}
  None = None
  MaxRows = 2
  MaxRoutes = 1
  MaxFeds = 2

SPECIFICATION Spec
INVARIANT RouteGoesOut
CHECK_DEADLOCK FALSE
