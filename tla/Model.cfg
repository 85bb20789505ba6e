SPECIFICATION MCSpec
CONSTANTS
  ContextWindows = {20, 14}
  Limits = {0, 40}
  OutputReserve = 2
  RecentRounds = 2
  CompactTrigger = 85
  CompactTarget = 60
  SummaryTokens = 3
  ToolSizes = {1, 5}
  SystemTokens = 3
  MaxModelTurns = 4
  MaxTurns = 5
  Lines = 3
  LineSizes = {3, 12}
  Versions = {1, 2}
  ContextBytes = 11
  MarkerBytes = 1
  ReferenceBytes = 3
  MaxParts = 3
  Requests = {q1, q2}
  Models = {"local", "far"}
  Windows = {12}
  Tiers <- MCTiers
  TTL <- MCTTL
  MaxEntries = 1
  Configured <- MCConfigured
  IsLocal <- MCLocal
  Listed <- MCListed
  CatalogWindow = 32
  MaxClock = 2
  MaxCalls = 2
  MaxFaults = 1
  ProviderOutputs <- MCOutputs
  FlushAt = 2
  MaxRequests = 3
  MaxSystemChanges = 1
  Setups <- MCSetups
  Responses <- MCResponses
  ModelIds = {1, 7, 8}
  MaxUses = 2
  ParallelLimit = 2
  MaxBatchQueries = 10
  MaxRounds = 2
  MaxChanges = 1
INVARIANTS ContextHolds ReferencesAreBacked LimitsHold HostHearsRight ProviderReadsTheConversation WebToolsHold
SYMMETRY SymmetricRequests
CHECK_DEADLOCK FALSE
