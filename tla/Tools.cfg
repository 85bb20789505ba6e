SPECIFICATION MCFairSpec
CONSTANTS
  p = p
  q = q
  NoPath = NoPath
  Path = {p, q}
  Batches <- MCBatches
  BatchSize = 3
  Limit = 2
  Together = TRUE
  Caller = {"x", "y", "z"}
  Name <- MCName
  WorkspacePaths <- MCWorkspace
  Submitted <- MCSubmitted
INVARIANTS EffectsAreOrdered ReportIsTrue BatchIsClosed NoRace NoOvertaking
PROPERTIES BatchesReturn EveryWaitEnds
