SPECIFICATION MCSpec
CONSTANTS
  Event <- MCEvent
  Structured <- MCStructured
  LegacyLogs <- MCLegacyLogs
  ShortWrites = FALSE
  MaxBatch = 2
  MaxLog = 4
  Providers = {"p", "q"}
  Values = {2}
  Sessions = {"tui"}
  Commands = {"cli"}
  Starts <- MCStarts
  MaxUpdates = 2
  Installers = {"i1", "i2"}
  Skills = {"s1", "s2"}
  MaxVersion = 2
  MaxFailures = 3
  MaxInstalls = 3
  Callers = {"a1", "a2", "b1"}
  ProcessOf <- MCProcessOf
  Logins = {"command", "sdk"}
  MaxTokens = 2
  MaxClients = 2
  MaxCalls = 3
  MaxFaults = 1
  Files = {1, 2}
  Calls = {1, 2, 3}
  Plans <- MCPlans
  MaxCache = 3
  MaxOutside = 1
  MaxCancels = 1
INVARIANTS LogKeepsItsWord SettingsHold InstallationsHold CredentialsHold FileToolsAreTrue
PROPERTY ImplementsDurableLog
CHECK_DEADLOCK FALSE
