SPECIFICATION FairSpec
CONSTANTS
    Procs = {p1, p2}
    NoProc = NoProc
    EvalPrograms <- SharedPrograms
    BindPrograms <- BoundOrEndless
    SendPrograms <- OnlyOneCall
    Apis = {"eval", "bind", "call", "send", "destroy"}
    Outcomes = {"value", "error"}
    Timeouts = {TRUE}
    MaxRequests = 1
    HistoryBound = 0
    SerialUse = FALSE
INVARIANTS
    HeapIsExclusive
    TimerIsOwned
    IndexFollowsCode
PROPERTIES
    EveryRequestAnswered
