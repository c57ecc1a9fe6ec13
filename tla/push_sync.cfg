\* Two calls, each of push or of sync; one request fails.
SPECIFICATION BothSpec
CONSTANTS
  Path <- PathP
  Content <- Contents
  Torn = "torn"
  Size <- Sizes
  mtimeSlack = 0
  Caller = {c1, c2}
  MaxFaults = 1
  TempOf <- TempOfP
  HasPosixRename = TRUE
  Skew = 0
  InitLocal <- LocalP
  InitRemote <- RemoteP
  InitRules <- RulesP
  DryRuns = {FALSE}
  MaxNow = 0
  MaxEdits = 0
  MaxIntrusions = 0
  MaxCrashes = 0
  Requests <- Pushes
SYMMETRY Callers
INVARIANTS
  WholeWhenMoved
PROPERTIES
  LostRacesAreNoErrors
  BothImplement
