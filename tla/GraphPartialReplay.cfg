SPECIFICATION GraphSpec
CONSTANTS
  Ids = {1, 2, 3, 4, 5}
  Users <- MCUsers
  Evidence <- MCEvidence
  ArchiveOf <- MCArchiveOf
  SubjectIds <- MCSubjectIds
  BaseImportance = 70
  MaxTime = 3
  Archive = {"a1", "a2"}
  Workers = {"w1"}
  User = "u1"
  Self = "user"
  Name <- MCNameUser
  Alias <- MCAliasNone
  Initial <- MCInitial
  SourceTime <- MCSourceTime
  Claim <- MCClaim
  Texts = {"t1", "t2"}
  MaxAliases = 1
  IdRank <- MCIdRank
  RecallLimit = 2
  Faults = {"crash", "skip"}
CHECK_DEADLOCK FALSE
INVARIANTS StaleIsUnfinished
