\* One caller calls sync again and again; a fault, a crash and an edit.
SPECIFICATION RepeatSpec
CONSTANTS
  Path <- PathR
  Content <- Contents
  Torn = "torn"
  Size <- SameSize
  mtimeSlack = 1
  Caller = {c1}
  MaxFaults = 1
  TempOf <- TempOfR
  HasPosixRename = TRUE
  Skew = 0
  InitLocal <- LocalR
  InitRemote <- RemoteR
  InitRules <- RulesF
  DryRuns = {FALSE}
  MaxNow = 2
  MaxEdits = 1
  MaxIntrusions = 0
  MaxCrashes = 1
INVARIANTS
  NoTornFile
PROPERTIES
  Converges
  CallsEnd
