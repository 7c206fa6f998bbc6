CONSTANTS
  p1 = p1
  p2 = p2
  s0 = s0
  s2 = s2
  s3 = s3
  Unknown = Unknown
  Nobody = Nobody
  NoLimit = NoLimit
  Absent = Absent
  Roots = {r1}
  NoRoot = NoRoot
  Principals = {d1, d2, d3}
  t1 = t1
  Threads = {t1, t2}
  MaxNow = 2
  MaxRequests = 4
  MaxEvents = 1
  Jtis = {j1}
  Foreign = {f1}
  Subjects = {a1}
  CardSkills = {k1, k2}
  Anyone = Anyone
  AnySkill = AnySkill
  Ttls = {0, 1}
  Reasons = {x1, x2}
  Delegators = {g1, g2}
  Clerks = {c1, c2}
  MaxTime = 2
  MaxJobs = 3
  Editors = {e1, e2}
  Lists = {"chain"}
  Maps = {"agent"}
  Keys = {k1, k2}
  MaxNew = 4
  MaxLimits = 2
  MaxAvail = 3
  MaxClock = 3

SPECIFICATION Spec
INVARIANT TypeOK
INVARIANT TiersAreEarned
INVARIANT GatesHold
INVARIANT TokensStand
INVARIANT CardIsTrue
CHECK_DEADLOCK FALSE
