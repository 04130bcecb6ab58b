SPECIFICATION Spec
CONSTANTS
  Root <- MCRoot
  DirPath <- MCDirs
  FilePath <- MCFiles
  IGNORED_DIRECTORIES = {"target"}
  IGNORED_FILENAMES = {}
  ManifestName = {"m"}
  NodeModules = "node_modules"
  OwnPaths <- MCOwn
  DbPath <- MCDb
  WatchLimit = 3
  BusCapacity = 2
  MaxOps = 3
INVARIANTS
  NoFeedback
  SettledIsWatched
  ChangesAreReported
  ManifestFollows
CHECK_DEADLOCK FALSE
