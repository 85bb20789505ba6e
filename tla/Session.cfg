SPECIFICATION MCSpec
CONSTANTS
  Event <- MCEvent
  Structured <- MCStructured
  LegacyLogs <- MCLegacyLogs
  ShortWrites = TRUE
  MaxBatch = 2
  MaxLog = 3
  LastTurn = 3
  Background = 1
  Between <- MCBetween
  MaxTrouble = 2
INVARIANTS LogIsSound RecordSurvives EvidenceSurvives SessionGoesOn
PROPERTY ValidRecordsKept
