SPECIFICATION Spec
CONSTANTS
  MaxTasks = 2
  MaxIterations = 3
  MaxRetries = 2
  Window = 2
INVARIANTS DoneInOrder RetryIsAccepted RetriesWithinBudget PlansAreRemembered SuccessIsConfirmed
PROPERTIES RepairIsPartial LoopEnds
