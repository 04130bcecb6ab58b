SPECIFICATION MCSpec
CONSTANTS
  e1 = e1
  e2 = e2
  e3 = e3
  e4 = e4
  Event = {e1, e2, e3, e4}
  Observed = {e2}
  Noise = {e4}
  Source <- MCSource
  Stamp <- MCStamp
  Thing <- MCThing
  Error <- MCError
  CAPACITY = 2
  HORIZON = 2
  CO_OCCURRENCE_WINDOW = 2
  RECENT_ENTITY_WINDOW = 2
  MaxCrashes = 1
  MaxUnreadable = 1
  NONE = NONE
  Observation <- MCObservation
INVARIANTS
  RecentIsComplete
  WeightIsEarned
  RelatedIsStrongest
  NothingStoredIsDropped
  CompactionIsInvisible
PROPERTIES
  DiskGrows
CHECK_DEADLOCK FALSE
