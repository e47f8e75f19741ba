SPECIFICATION AllSpec
CONSTANTS
    Agent = {a1, a2, a3}
    Base = 100
    None = None
    Call = {c1, c2}
    MaxFailures = 1
    Tool <- MCTool
    Server = {p1, p2, p3}
    MaxStarts = 2
    Client = {g1, g2}
    Pid = {q1, q2, q3}
    Model <- MCModel
    Weights <- MCWeights
    Nothing = Nothing
INVARIANTS DisplaysAreExclusive  MadeByItsWeights
 
CHECK_DEADLOCK FALSE
