SPECIFICATION ConsolidationFair
CONSTANTS
  Ids = {1, 2, 3}
  Users = {"u1", "u2"}
  Evidence = {"e1", "e2"}
  ArchiveOf <- MCArchiveOf
  SubjectIds = {"tom"}
  BaseImportance = 70
  MaxTime = 2
  Initial <- MCInitial
  Slots = {"s1", "s2"}
  BatchSize = 1
  Recency <- MCRecency
  EvidenceScore <- MCEvidenceScore
  BonusWeight = 20
  HalfLife = 2
  SupersededHalfLife = 1
  MinImportance = 5
  ConflictedMinImportance = 20
  MaxImportance = 95
  MaxVersion = 2
  Touched = {1, 3}
  SourceTimes = {1}
CHECK_DEADLOCK FALSE
INVARIANTS ConsolidationTypeOK OneRunAtATime ScanComplete
PROPERTIES ImportanceFromCurrent StoreSpec MutexComesFree
