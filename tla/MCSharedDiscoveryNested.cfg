SPECIFICATION Spec
CONSTANTS
  Tree <- NestedTree
  Directories <- NestedDirectories
  Links <- NoLinks
  Bare = {}
  Staging <- NestedStaging
  TempRoots <- NestedTemps
  Home <- h
  RootChoices <- OnlyHome
  Boundaries = {"_cacache"}
  Fleeting = {}
  MaxChanges = 0
INVARIANT StagingIsMatched
CHECK_DEADLOCK FALSE
