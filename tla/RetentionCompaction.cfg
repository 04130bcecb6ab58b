SPECIFICATION Spec
CONSTANTS
  x1 = x1
  x2 = x2
  x3 = x3
  r1 = r1
  r2 = r2
  c1 = c1
  c2 = c2
  Command = {c1}
  Run = {x1}
  Request = {r1}
  Text = {txt}
  Noise = {}
  Research = {}
  Durable = {}
  Evidence = {}
  Long = {r1}
  EventId <- MCEventId
  Ask <- AskIntent
  Named <- NamedFrontier
  INTENT_SUBJECT = INTENT_SUBJECT
  FRONTIER_SUBJECT = FRONTIER_SUBJECT
  NONE = NONE
  WORKER = WORKER
  PRUNER = PRUNER
  QueueCapacity = 1
  BacklogBatch = 1
  PruneBatch = 2
  HasModel = FALSE
  LastStamp = 2
  MaxCrashes = 1
INVARIANT AuthoredClaimsSurvive
CHECK_DEADLOCK FALSE
