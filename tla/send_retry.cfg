CONSTANTS
  t1 = t1
  t2 = t2
  i1 = i1
  i2 = i2
  Threads = {t1, t2}
  Ids <- TwoIds
  Home <- AClientEach
  Uses <- TheirIds
  Modes <- Kinds
  SeenMax = 1
  MaxReqs = 3
  MaxExpire = 1
  MaxBreaks = 1

SPECIFICATION Spec
INVARIANT TypeOK
INVARIANT AnswersAreTrue
PROPERTY ImplementsMailbox
CHECK_DEADLOCK FALSE
