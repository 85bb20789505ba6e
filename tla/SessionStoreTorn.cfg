SPECIFICATION Spec
CONSTANTS
  Event <- MCEvent
  Structured <- MCStructured
  LegacyLogs <- MCLegacyLogs
  ShortWrites = TRUE
  MaxBatch = 2
  MaxLog = 3
INVARIANT SequenceFollowsLog
CHECK_DEADLOCK FALSE
