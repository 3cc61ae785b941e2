SPECIFICATION Spec
CONSTANTS
  Proc = {p1, p2}
  NoProc = none
  MaxMessages = 4
  Cum <- MCUnit
  MaxWorkingMemory = 3
  Trigger = 2
  Target = 1
  Preferred = 2
  AbsoluteMin = 1
  ArchiveCap = 2
  MaxRounds = 2
  SummarySizes = {1}
  Faults = {}
SYMMETRY MCSymmetry
INVARIANT ClosedIsArchived
