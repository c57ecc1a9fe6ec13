\* Three calls for the two slots of one VM, which may never answer.
SPECIFICATION FairSpec
CONSTANTS
  VM = {v1}
  Call = {c1, c2, c3}
  MaxConcurrentPerVM = 2
  Channel = {s1}
  NoChannel = NoChannel
PROPERTIES
  WaitingEnds
