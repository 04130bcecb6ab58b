SPECIFICATION Spec
CONSTANTS
  x1 = x1
  x2 = x2
  r1 = r1
  r2 = r2
  c1 = c1
  c2 = c2
  Command = {c1, c2}
  Run = {x1, x2}
  Request = {r1, r2}
  Text = {txt}
  Noise = {c2}
  EventId <- MCEventId
  Ask <- AskContest
  Named <- NamedContest
  INTENT_SUBJECT = INTENT_SUBJECT
  FRONTIER_SUBJECT = FRONTIER_SUBJECT
  NONE = NONE
  STARTUP = STARTUP
  BusCapacity = 1
  MaxCrashes = 1
SYMMETRY Symmetric
INVARIANTS
  TypeOK
  RebuildNeverWedges
  LatestExitIsReality
  FrontierOnlyWhileFailing
  UserClaimsKept
  AckIsDurable
PROPERTIES
  NothingIsForgotten
  ImplementsBoard
CHECK_DEADLOCK FALSE
