SPECIFICATION MCFairSpec
CONSTANTS
  MaxTask = 2
  Slots = 1
  TaskBudgets <- MCTaskBudgets
  Operations = {1, 2}
  Modes = {"plan", "auto"}
  Capacity = 1
  Budgets <- MCBudgets
  Agents = {"a", "b"}
  MaxEntries = 2
  MaxChanges = 1
  MaxOpens = 2
INVARIANTS TasksAreHonest OperationIsHeld TimelineAscends
PROPERTIES TasksEnd CancelledReturns
CHECK_DEADLOCK FALSE
