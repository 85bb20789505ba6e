SPECIFICATION FairSpec
CONSTANTS
  LastRun = 1
  LastCall = 1
  MaxModelCalls = 2
  LastObject = 2
  MaxCrash = 1
  ModelResult = {"tools", "text", "length", "unpriced"}
  ToolResult = {"applied", "unknown"}
  RestoreOverStart = FALSE
INVARIANTS CheckpointRestores LedgerIsTrue
PROPERTIES NoDispatchAfterInterrupt StoppedRunEnds
CHECK_DEADLOCK FALSE
