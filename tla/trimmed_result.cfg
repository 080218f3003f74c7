\* Trimmed requests alone, with the web search tool added to each.
SPECIFICATION Spec
CONSTANTS
  r1 = r1
  r2 = r2
  Nobody = Nobody
  Requests <- MCRequests
  Scenarios <- TrimScenarios
  WebSearchTool <- MCWebSearch
  MaxChunks = 1
  FakeReasoningEnabled = TRUE
  FakeReasoningModels <- MCFake
  FakeReasoningMaxTokens = 4
  FakeReasoningBudgetCap = 6
  TruncationRecoveryEnabled = TRUE
  LimitToolDescriptions = TRUE
  NativeModels <- MCNative
  ModelCaps <- MCCaps
  DefaultBudget = DefaultBudget
INVARIANTS
  OrphanTextKept
CHECK_DEADLOCK FALSE
