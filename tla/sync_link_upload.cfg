\* A local directory in the place of a remote link.
SPECIFICATION Spec
CONSTANTS
  Path <- Path1
  Content <- Contents
  Torn = "torn"
  Size <- Sizes
  mtimeSlack = 0
  Caller = {c1}
  MaxFaults = 0
  TempOf <- TempOf1
  HasPosixRename = TRUE
  Skew = 0
  InitLocal <- LocalL
  InitRemote <- RemoteL
  InitRules <- RulesF
  DryRuns = {FALSE}
  MaxNow = 0
  MaxEdits = 0
  MaxIntrusions = 0
  MaxCrashes = 0
INVARIANTS
  NothingPlannedThroughLinks
