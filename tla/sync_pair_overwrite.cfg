\* Two calls replace the same file on a server with posix-rename.
SPECIFICATION Spec
CONSTANTS
  Path <- Path2
  Content <- Contents
  Torn = "torn"
  Size <- Sizes
  mtimeSlack = 0
  Caller = {c1, c2}
  MaxFaults = 0
  TempOf <- TempOf2
  HasPosixRename = TRUE
  Skew = 0
  InitLocal <- Local2
  InitRemote <- Remote2
  InitRules <- RulesF
  DryRuns = {FALSE}
  MaxNow = 0
  MaxEdits = 0
  MaxIntrusions = 0
  MaxCrashes = 0
SYMMETRY Callers
PROPERTIES
  OverwriteIsAtomic
