SPECIFICATION AtOnceSpec
CONSTANTS
  x1 = x1
  x2 = x2
  x3 = x3
  r1 = r1
  r2 = r2
  c1 = c1
  c2 = c2
  Command = {c1, c2}
  Run = {x1, x2, x3}
  Request = {r1}
  Text = {txt}
  Noise = {c1, c2}
  Research = {c1, c2}
  Durable = {}
  Evidence = {}
  Long = {}
  EventId <- MCEventId
  Ask <- AskContest
  Named <- NamedFrontier
  INTENT_SUBJECT = INTENT_SUBJECT
  FRONTIER_SUBJECT = FRONTIER_SUBJECT
  NONE = NONE
  WORKER = WORKER
  PRUNER = PRUNER
  QueueCapacity = 1
  BacklogBatch = 1
  PruneBatch = 2
  HasModel = FALSE
  LastStamp = 4
  MaxCrashes = 1
SYMMETRY Symmetric
INVARIANTS
  PruningIsInvisible
  NothingIsLost
CHECK_DEADLOCK FALSE
