\* One call at a time; two of these happen at any point: a request fails, a process
\* dies, the project is edited, somebody else changes the VM.
SPECIFICATION BothSpec
CONSTANTS
  Path <- PathD
  Content <- Contents
  Torn = "torn"
  Size <- Sizes
  mtimeSlack = 0
  Caller = {c1}
  MaxFaults = 1
  TempOf <- TempOfD
  HasPosixRename = FALSE
  Skew = 0
  InitLocal <- LocalD
  InitRemote <- RemoteD
  InitRules <- RulesD
  DryRuns = {FALSE}
  MaxNow = 0
  MaxEdits = 1
  MaxIntrusions = 1
  MaxCrashes = 1
  Requests <- Pushes
CONSTRAINT TwoDisturbances
INVARIANTS
  AllTypeOK
  PushAccounting
  Accounting
  PushStaysInside
  NoLitter
PROPERTIES
  PushedLanded
  ReportedLanded
  ExcludedFilesUntouched
  DeletesAreChecked
