SPECIFICATION MCSpec
CONSTANTS
  a1 = a1
  a2 = a2
  Call = {a1, a2}
  ChannelSize = 1
  MaxDeaths = 1
  bash = bash
  zsh = zsh
  fish = fish
  c1 = c1
  c2 = c2
  Shell = {bash, zsh, fish}
  Kind <- MCKind
  Command = {c1, c2}
  Status = {0, 1}
  Daemon = {d1, d2}
  MaxTyped = 3
  MaxOpens = 2
  MaxStarts = 2
  Pid = {i1, i2}
  TARGET_PROCESSES = {"cargo"}
  OtherProgram = {"other"}
  MIN_LIFETIME = 2
  MaxTime = 5
  MaxBirths = 2
  MaxExecs = 1
  MaxClockSteps = 1
  NONE = NONE
  NoProcess = NoProcess
INVARIANTS
  NotedMeansStored
  NewCommandsAreSent
  LoneDaemonIsReached
  EndsAreOfStarts
PROPERTIES
  CallsEnd
  SendersEnd
CHECK_DEADLOCK FALSE
