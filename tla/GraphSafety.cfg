SPECIFICATION GraphSpec
CONSTANTS
  Ids = {1, 2, 3, 4, 5}
  Users <- MCUsers
  Evidence <- MCEvidence
  ArchiveOf <- MCArchiveOf
  SubjectIds <- MCSubjectIds
  BaseImportance = 70
  MaxTime = 3
  Archive = {"a1", "a2"}
  Workers = {"w1"}
  User = "u1"
  Self = "user"
  Name <- MCName
  Alias <- MCAlias
  Initial <- MCInitial
  SourceTime <- MCSourceTime
  Claim <- MCClaim
  Texts = {"t1", "t2"}
  MaxAliases = 1
  IdRank <- MCIdRank
  RecallLimit = 2
  Faults = {"crash", "fail", "ack"}
CHECK_DEADLOCK FALSE
INVARIANTS GraphTypeOK StaleIsUnfinished EvidenceOnce RelationsHold
PROPERTIES AliasesKept StoreSpec
