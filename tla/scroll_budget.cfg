SPECIFICATION Spec
CONSTANTS
    Element = {1, 2}
    Inner = {2}
    Shadow = {}
    Call = {c1, c2}
    Parallel = FALSE
    Budget = 2
    MaxChanges = 3
INVARIANTS ScrollsAreLimited
CHECK_DEADLOCK FALSE
