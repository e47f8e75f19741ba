SPECIFICATION AllSpec
CONSTANTS
    Tool = {"a", "b"}
    Reply <- MCReply
    Sizes = {2, 3}
    Limit = 4
    KeepGroups = 1
    ChunkTarget = 2
    MaxIterations = 2
    LoopThreshold = 2
    ResultCap = 2
    Parallel = TRUE
    Retries = 1
    MaxMessages = 5
    Api = {"openai", "responses", "ollama", "anthropic"}
    Answers <- MCAnswers
    Id = {i1}
    Access = {"r", "rw"}
    Absent = Absent
    Reader = {t1}
    Op = {o1}
    MaxDeaths = 1
    MaxServed = 2
    Flow = {f1, f2}
    MaxReq = 2
    MaxRestarts = 1
    Call = {c1, c2}
    Folder = {"inbox", "work"}
    Missing = "typo"
    Configured = {"imap", "smtp"}
    MaxSpawns = 2
    MaxDrops = 1
    Moving <- MCMoving
    Label = {"INBOX", "work", "old"}
    LabelId = {"L1"}
    Scoped = {"email"}
    NoLabel = NoLabel
    MaxRelabels = 1
INVARIANTS  WireIsMatched StreamedAsWhole LoadedCacheAgrees ShownIsAdded OkMeansDone
PROPERTIES CallsEnd
CHECK_DEADLOCK FALSE
