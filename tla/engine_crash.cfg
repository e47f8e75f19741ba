CONSTANTS
    MaxGoals = 1
    MaxRuns = 1
    MaxTasks = 2
    MaxSlot = 1
    MaxRetries = 1
    MaxConcurrent = 2
    MaxCrashes = 2
    Drafts <- AllDrafts
    Requests <- AllRequests
SPECIFICATION Spec
INVARIANTS DependencyOrder FailureIsJustified VerdictIsTruthful
PROPERTIES ImplementsLifecycle
