SPECIFICATION FairSpec
CONSTANTS
  main = main  linked = linked  other = other
  c1 = c1  c2 = c2
  commit = commit  rev1 = rev1  rev2 = rev2  dropper = dropper  known = known  big = big  huge = huge
  Paths <- MCPaths
  Discoveries <- Orders
  Common <- CommonOf
  History <- Histories
  Losable <- AnySingle
  Commons = {c1, c2}
  Objects <- MCObjects
  Blobs <- MCBlobs
  Published = {known}
  Sized = {dropper, known, huge}
  Named = {rev1, rev2, dropper, big}
  Large = {big, huge}
  Payload = {dropper}
  Indicators = {"signature"}
  Carries <- MCCarries
  NoObject = NoObject
  NoRepo = NoRepo
INVARIANTS FailuresAreListed HitsAreReported CleanMeansWhole
INVARIANTS ScannedIsComplete BodiesAreTheirs NoFalseAlarm
PROPERTY ScanEnds
CHECK_DEADLOCK FALSE
