SPECIFICATION RetrievalFair
CONSTANTS
  Ids = {1, 2, 3}
  Users = {"u1"}
  Evidence = {"e1", "e2"}
  ArchiveOf <- MCArchiveOf
  SubjectIds = {"tom", "self"}
  BaseImportance = 70
  MaxTime = 1
  Initial <- MCInitial
  InitialDoc <- MCInitialDoc
  Requests = {"r1"}
  Queries <- MCQueries
  MaxAttempts = 2
  SourceEnd <- MCSourceEnd
  MaxSources = 1
  TopN = 2
  RerankTopN = 2
  Relevance = {20, 90}
  UserEntity = "self"
  MaxVersion = 2
  Touched = {2}
  RrfWeight <- MCRrfWeight
  FusedTopN = 2
  ExpandPerSeed = 1
  MaxGraphCandidates = 2
  GraphDecay = 60
  RetrievalWeight = 60
  ImportanceWeight = 20
  FrequencyWeight = 10
  RecencyWeight = 10
  FrequencyScore <- MCFrequencyScore
  RecencyScore <- MCRecencyScore
  StatusPenalty <- MCStatusPenalty
  TopK = 2
  Faults = {"search", "graph", "rerank", "stats"}
CHECK_DEADLOCK FALSE
INVARIANTS RetrievalTypeOK AnswersWhatWasAsked StatisticsMatchAnswers FusionRespectsChannels
PROPERTIES MissingChannelIsTold RequestIsAnswered
