SPECIFICATION PartSpec
CONSTANTS
  main = main
  linked = linked
  Tree = {main, linked}
  Installer = {p1, p2}
  Common <- MCCommon
  HooksPath <- MCHooksPath
  Override <- MCOverride
  Inherited <- MCInherited
  Version = {v1, v2}
  Foreign = {f1, f2}
  UserLine = {l1, l2}
  NotUtf8 = {l2}
  MaxEdits = 4
  MaxDeaths = 2
  NONE = NONE
SYMMETRY Symmetric
INVARIANTS
  TheirsIsKept
  InstalledHookWorks
PROPERTIES
  ProfileIsTheUsers
CHECK_DEADLOCK FALSE
