\* Three calls contend for the two slots of either VM; contexts end, VMs may stay silent.
SPECIFICATION FairSpec
CONSTANTS
  VM = {v1, v2}
  Call = {c1, c2, c3}
  MaxConcurrentPerVM = 2
  Channel = {s1, s2}
  NoChannel = NoChannel
INVARIANTS
  TypeOK
  SlotsHeld
  ConnectionsCovered
  OneSemaphore
  ConnectionsCapped
PROPERTIES
  CapSpec
  OnlySilenceBlocks
