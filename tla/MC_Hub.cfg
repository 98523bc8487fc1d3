SPECIFICATION Spec
CONSTANTS
  Clients = {c1, c2}
  Broadcasters = {b1}
  SendCap = 2
  BroadcastCap = 1
  MaxMessages = 3
SYMMETRY ClientSymmetry
INVARIANTS TypeOK NoPanic Attached DrainReady NoneMissed
PROPERTIES ImplementsFeed
CHECK_DEADLOCK FALSE
