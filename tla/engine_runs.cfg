CONSTANTS
    MaxGoals = 1
    MaxRuns = 3
    MaxTasks = 3
    MaxSlot = 2
    MaxRetries = 0
    MaxConcurrent = 2
    MaxCrashes = 0
    Drafts <- SingleTask
    Requests <- RunRequests
SPECIFICATION Spec
INVARIANTS NumbersAreUnique
PROPERTIES CronRunsDoNotOverlap
