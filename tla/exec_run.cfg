\* One command that may write up to, exactly and beyond the cap, and a window
\* that one stream alone can fill.
SPECIFICATION FairSpec
CONSTANTS
  MaxOutput = 1
  Window = 2
  MaxWritten = 4
INVARIANTS
  TypeOK
  NoSilentLoss
  TruncatedIsTrue
PROPERTIES
  ReturnedIsFinal
  RunReturns
CHECK_DEADLOCK FALSE
