SPECIFICATION FairSpec
CONSTANTS
  x1 = x1
  x2 = x2
  x3 = x3
  r1 = r1
  r2 = r2
  c1 = c1
  c2 = c2
  Command = {}
  Run = {x1, x2}
  Request = {}
  Text = {txt}
  Noise = {}
  Research = {}
  Durable = {}
  Evidence = {"filesystem", "note"}
  Long = {x1}
  EventId <- MCEventId
  Ask <- AskIntent
  Named <- NamedFrontier
  INTENT_SUBJECT = INTENT_SUBJECT
  FRONTIER_SUBJECT = FRONTIER_SUBJECT
  NONE = NONE
  WORKER = WORKER
  PRUNER = PRUNER
  QueueCapacity = 1
  BacklogBatch = 1
  PruneBatch = 2
  HasModel = TRUE
  LastStamp = 2
  MaxCrashes = 2
PROPERTIES
  EveryRowAnalysed
  EveryRowEnriched
CHECK_DEADLOCK FALSE
