CONSTANTS
    MaxGoals = 2
    MaxRuns = 2
    MaxTasks = 2
    MaxSlot = 1
    MaxRetries = 1
    MaxConcurrent = 1
    MaxCrashes = 0
    Drafts <- ShortDrafts
    Requests <- Pauses
SPECIFICATION FairSpec
INVARIANTS StatusAgrees
PROPERTIES  DueGoalsFire SlotFiresOnce
