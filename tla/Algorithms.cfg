CONSTANTS
  Questions <- MCQuestions
  Answers <- MCAnswers
  MaxAsks = 2
  MaxSplitSize = 5
  Configurations <- MCConfigurations
  Overrides <- MCOverrides
  MaxOverrides = 2
SPECIFICATION MCSpec
CHECK_DEADLOCK FALSE
INVARIANTS
  FilterIsQuery
  SplitsKeepText
  RequestIsConfigured
  StoredDocumentIsWhole
  SummaryCoversSources
  MemoryIsConversation
