SPECIFICATION Spec
CONSTANTS
  Tree <- MCTree
  Directories <- MCDirectories
  Links <- MCLinks
  Bare <- MCBare
  Staging <- MCStaging
  TempRoots <- MCTemps
  Home <- h
  RootChoices <- MCChoices
  Boundaries = {"_cacache"}
  Fleeting <- MCFleeting
  MaxChanges = 1
INVARIANTS AtMostOnce KeepsItsPruning StagingIsMatched NothingIsMissedSilently
CHECK_DEADLOCK FALSE
