SPECIFICATION MCFairSpec
CONSTANTS
  Servers = {s1}
  MaxOp = 2
  None = None
  MaxRetries = 1
  Budgets <- MCBudgets
  MaxMessages = 4
  Tries = 5
  Buffer = 2
INVARIANTS SessionsAreOwned CatalogFollows StreamResumes
PROPERTY OperationsReturn
CHECK_DEADLOCK FALSE
