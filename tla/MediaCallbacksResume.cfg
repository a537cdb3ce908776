\* Two programs read and write, no call is made while a callback runs.
SPECIFICATION FairSpec
CONSTANTS
  m1 = m1
  m2 = m2
  SHIM = SHIM
  NONE = NONE
  MPE = {m1, m2}
  Users = {m1, m2}
  Booted = {m1, m2}
  MINIBIOS = m2
  BLOCK = 1
  MaxBlocks = 2
  Requests = {1, 2}
  MaxDepth = 1
  Overlaps = {}
INVARIANTS TypeOK ToldHasArrived
PROPERTIES ResumesExactly NotificationsArrive
