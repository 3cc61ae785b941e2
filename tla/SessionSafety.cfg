SPECIFICATION Spec
CONSTANTS
  Proc = {p1, p2}
  NoProc = none
  MaxMessages = 3
  Cum <- MCUnit
  MaxWorkingMemory = 3
  Trigger = 2
  Target = 1
  Preferred = 2
  AbsoluteMin = 1
  ArchiveCap = 2
  MaxRounds = 2
  SummarySizes = {1}
  Faults = {"crash", "llm", "mongo", "mongoAck", "lease"}
SYMMETRY MCSymmetry
INVARIANTS TypeOK TokenAccounting SummaryComplete TrimmedIsPublished EventHasArchive ReadsStaySound
PROPERTIES PendingOnlyFolded ImplementsLog
