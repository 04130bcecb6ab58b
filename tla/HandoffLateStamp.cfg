SPECIFICATION MCSpec
CONSTANTS
  x1 = x1
  x2 = x2
  n1 = n1
  n2 = n2
  r1 = r1
  here = here
  there = there
  t1 = t1
  t2 = t2
  Command <- MCCommand
  Line <- MCLine
  Run = {x1}
  Request = {r1}
  Note = {n1}
  Text = {t1, t2}
  EventId <- MCEventId
  Ask <- Asks
  Named <- Names
  Saying <- SayingLate
  Report <- ReportFails
  INTENT_SUBJECT = INTENT_SUBJECT
  FRONTIER_SUBJECT = FRONTIER_SUBJECT
  NONE = NONE
  AHEAD = 2
  LastStamp = 9
  MaxCrashes = 0
INVARIANTS
  RetractedIsGone
CHECK_DEADLOCK FALSE
