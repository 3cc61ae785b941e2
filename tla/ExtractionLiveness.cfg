SPECIFICATION FairSpec
CONSTANTS
  Archives = {a1, a2}
  Workers = {w1, w2}
  Admins = {x1}
  Nobody = nobody
  Results = {r1}
  MaxEvents = 3
  Faults = {}

CHECK_DEADLOCK FALSE
PROPERTIES TaskEnds
