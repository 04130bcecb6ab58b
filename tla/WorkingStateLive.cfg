SPECIFICATION FairSpec
CONSTANTS
  x1 = x1
  x2 = x2
  r1 = r1
  r2 = r2
  c1 = c1
  c2 = c2
  Command = {c1}
  Run = {x1, x2}
  Request = {r1}
  Text = {txt}
  Noise = {}
  EventId <- MCEventId
  Ask <- AskLive
  Named <- NamedContest
  INTENT_SUBJECT = INTENT_SUBJECT
  FRONTIER_SUBJECT = FRONTIER_SUBJECT
  NONE = NONE
  STARTUP = STARTUP
  BusCapacity = 1
  MaxCrashes = 1
PROPERTIES
  RequestsAnswered
  Recovers
CHECK_DEADLOCK FALSE
