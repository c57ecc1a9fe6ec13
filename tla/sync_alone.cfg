\* One call, nothing disturbs it, every pair of small trees.
SPECIFICATION Spec
CONSTANTS
  Path <- Path1
  Content <- Contents
  Torn = "torn"
  Size <- Sizes
  mtimeSlack = 0
  Caller = {c1}
  MaxFaults = 0
  TempOf <- TempOf1
  HasPosixRename = TRUE
  Skew = 0
  InitLocal <- AllLocal1
  InitRemote <- AllRemote1
  InitRules <- SomeRules
  DryRuns = {TRUE, FALSE}
  MaxNow = 0
  MaxEdits = 0
  MaxIntrusions = 0
  MaxCrashes = 0
INVARIANTS
  TypeOK
  CleanMeansMirrored
PROPERTIES
  DryRunWritesNothing
  Implements
  OverwriteIsAtomic
