SPECIFICATION Spec
CONSTANTS
  Archives = {a1, a2}
  Workers = {w1, w2}
  Admins = {x1}
  Nobody = nobody
  Results = {r1}
  MaxEvents = 3
  Faults = {"crash", "ack", "kafka", "adminCrash"}
SYMMETRY MCSymmetry
CHECK_DEADLOCK FALSE
INVARIANTS TypeOK CompletedIsIndexed ProcessingIsDelivered OneMemoryPerCandidate
PROPERTIES ResultKept
