SPECIFICATION Spec
CONSTANTS
    Procs = {p1, p2}
    NoProc = NoProc
    EvalPrograms <- SerialPrograms
    BindPrograms <- OnlyBoundCalls
    SendPrograms <- CallFreeSends
    Apis = {"eval", "bind", "call", "send", "destroy"}
    Outcomes = {"value", "error"}
    Timeouts = {TRUE}
    MaxRequests = 2
    HistoryBound = 3
    SerialUse = TRUE
SYMMETRY Symmetry
INVARIANTS
    TypeOK
    OwnCalls
    PendingTermsLive
PROPERTIES
    SuspensionKept
    ImplementsSyncEval
