SPECIFICATION MCSpec
CONSTANTS
  x1 = x1
  x2 = x2
  x3 = x3
  r1 = r1
  r2 = r2
  r3 = r3
  c1 = c1
  c2 = c2
  e1 = e1
  e2 = e2
  e3 = e3
  Command = {c1, c2}
  Run = {x1, x2, x3}
  Request = {r1, r2}
  Text = {"t"}
  EventId <- MCEventId
  Ask <- MCAsk
  Named = {}
  INTENT_SUBJECT = INTENT_SUBJECT
  FRONTIER_SUBJECT = FRONTIER_SUBJECT
  NONE = NONE
  Budget = {0, 4, 20}
  MaxRows = 5
  Event = {e1, e2, e3}
  Matching = {e2, e3}
  Distance <- MCDistance
  Stamp <- MCStamp
  Limit = {1, 2, 3}
  MaxChanges = 3
SYMMETRY Symmetric
INVARIANTS
  NothingFailsUnseen
  PassesAreTold
  CutsAreTold
  SearchIsHonest
CHECK_DEADLOCK FALSE
