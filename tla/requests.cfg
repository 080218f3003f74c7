\* One request with any short conversation, or two short requests at once, with
\* and without a debug log, trimming and remembered truncations.
SPECIFICATION Spec
CONSTANTS
  r1 = r1
  r2 = r2
  Nobody = Nobody
  Requests <- MCRequests
  Scenarios <- MCScenarios
  WebSearchTool <- NoTools
  MaxChunks = 1
  FakeReasoningEnabled = TRUE
  FakeReasoningModels <- MCFake
  FakeReasoningMaxTokens = 4
  FakeReasoningBudgetCap = 6
  TruncationRecoveryEnabled = TRUE
  LimitToolDescriptions = TRUE
  NativeModels <- MCNative
  ModelCaps <- MCCaps
  DefaultBudget = DefaultBudget
INVARIANTS
  TypeOK
  RolesAlternate
  NothingLost
  ResultsFollowCalls
  SystemPromptFirst
  TrimsNoMoreThanNeeded
  ReasoningOfThisTurn
  NoticesReachKiro
  OneNoticePerRecord
  DumpsOnlyContemporaries
  LoneDumpComplete
CHECK_DEADLOCK FALSE
