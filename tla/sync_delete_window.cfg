\* A file to delete; others may put a link in the place of its directory.
SPECIFICATION Spec
CONSTANTS
  Path <- Path1
  Content <- Contents
  Torn = "torn"
  Size <- Sizes
  mtimeSlack = 0
  Caller = {c1}
  MaxFaults = 0
  TempOf <- TempOf1
  HasPosixRename = TRUE
  Skew = 0
  InitLocal <- LocalW
  InitRemote <- RemoteW
  InitRules <- RulesF
  DryRuns = {FALSE}
  MaxNow = 0
  MaxEdits = 0
  MaxIntrusions = 1
  MaxCrashes = 0
PROPERTIES
  DeletesStayInside
