SPECIFICATION Spec
CONSTANTS
    Procs = {p1, p2}
    NoProc = NoProc
    EvalPrograms <- OnlyOneCall
    BindPrograms <- NoPrograms
    SendPrograms <- NoPrograms
    Apis = {"eval"}
    Outcomes = {"value"}
    Timeouts = {FALSE}
    MaxRequests = 1
    HistoryBound = 1
    SerialUse = FALSE
INVARIANTS
    OwnAnswers
