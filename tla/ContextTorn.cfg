SPECIFICATION Spec
CONSTANTS
  ContextWindows = {20, 14}
  Limits = {0, 40}
  OutputReserve = 2
  RecentRounds = 2
  CompactTrigger = 85
  CompactTarget = 60
  SummaryTokens = 3
  ToolSizes = {1, 5}
  SystemTokens = 3
  MaxModelTurns = 4
  MaxTurns = 5
INVARIANT PairsAreAtomic
CHECK_DEADLOCK FALSE
