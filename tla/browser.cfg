SPECIFICATION AllSpec
CONSTANTS
    Element = {1, 2, 3}
    Inner = {3}
    Shadow = {}
    Call = {c1, c2}
    Parallel = TRUE
    Budget = 2
    MaxChanges = 1
    Field = {f1}
    Button = {b1}
    Length = 1
    BadKeys = TRUE
    File = {d1}
    Agent = {a1, a2}
    MaxAsked = 2
    None = None
    Conv = {k1}
    Sub = {s1}
    MaxContexts = 2
    MaxChromes = 2
    MaxNodes = 5
    MaxMatches = 4
    ReadBudget = 4
    Header = 1
INVARIANTS   NotClosedUnderUse  
PROPERTIES  FilledAsAsked GetsEnd
CHECK_DEADLOCK FALSE
