\* Launches good and bad, and calls of all five tools.
SPECIFICATION ToolsSpec
CONSTANTS
  Launches <- Starts
  VMNames = {"m", "z"}
  Globs <- MCGlobs
  Rank <- Ranks
  Calls <- Asked
INVARIANTS
  ToolsTypeOK
  BaseConfined
  PushConfined
  VerdictsAreEnough
  IgnoresAsGit
  MatchIsSplit
  ExecAsAsked
  ListedAsDeclared
CHECK_DEADLOCK FALSE
