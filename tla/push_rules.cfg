\* One push of three files on which the rules and git's disagree.
SPECIFICATION ToolsSpec
CONSTANTS
  Launches <- OddStart
  VMNames = {"m", "z"}
  Globs <- MCGlobs
  Rank <- Ranks
  Calls <- OddPush
INVARIANTS
  PushRespectsIgnore
CHECK_DEADLOCK FALSE
