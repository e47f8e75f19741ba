CONSTANTS
    MaxGoals = 1
    MaxRuns = 1
    MaxTasks = 1
    MaxSlot = 0
    MaxRetries = 1
    MaxConcurrent = 1
    MaxCrashes = 1
    Drafts <- SingleTask
    Requests <- NoRequests
SPECIFICATION FairSpec
PROPERTY
    RunsFinish
