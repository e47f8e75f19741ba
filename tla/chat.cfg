SPECIFICATION Spec
CONSTANTS
    Plans <- MCPlans
    MaxSends = 2
    MaxPieces = 1
    Ahead <- MCAhead
    MaxSwitches = 1
INVARIANTS ShownAsSaid 
PROPERTIES StreamsEnd
CHECK_DEADLOCK FALSE
