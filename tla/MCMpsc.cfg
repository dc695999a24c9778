SPECIFICATION FairSpec
CONSTANTS
  Producers = {p1, p2}
  Items = {1, 2}
  Addrs = {n1, n2, n3}
  Null = null
  Spurious = TRUE
INVARIANTS
  NoDanglingNode NoLostWakeup
PROPERTIES
  ImplementsMailbox PostedIsTaken
