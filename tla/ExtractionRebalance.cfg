SPECIFICATION Spec
CONSTANTS
  Archives = {a1}
  Workers = {w1, w2}
  Admins = {x1}
  Nobody = nobody
  Results = {r1, r2}
  MaxEvents = 2
  Faults = {"rebalance", "abort", "skip"}
SYMMETRY MCSymmetry
CHECK_DEADLOCK FALSE
INVARIANTS PendingIsAnnounced CommitsOnlyEnded
PROPERTIES CompletedIsFinal
