SPECIFICATION MCSpec
CONSTANTS
  x1 = x1
  x2 = x2
  n1 = n1
  n2 = n2
  r1 = r1
  here = here
  there = there
  t1 = t1
  t2 = t2
  Command <- MCCommand
  Line <- MCLine
  Run = {x1, x2}
  Request = {r1}
  Note = {n1, n2}
  Text = {t1, t2}
  EventId <- MCEventId
  Ask <- Asks
  Named <- Names
  Saying <- SayingAll
  Report <- ReportSafety
  INTENT_SUBJECT = INTENT_SUBJECT
  FRONTIER_SUBJECT = FRONTIER_SUBJECT
  NONE = NONE
  AHEAD = 2
  LastStamp = 6
  MaxCrashes = 1
SYMMETRY Symmetric
INVARIANTS
  RemovedForAReason
  RerunAddsNothing
PROPERTIES
  ReportMatchesView
CHECK_DEADLOCK FALSE
