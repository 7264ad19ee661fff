SPECIFICATION Spec
CONSTANTS
    Apis <- EvalOnly
    Timeouts <- OneTimeout
    Unlimited <- Never
    Returns <- PlainOnly
    Throws <- OnlyErrors
    InterruptEvery = 3
    TicksPerMs = 2
    MaxAge = 5
    MaxTries = 1
    MaxArgs = 0
INVARIANT ValidAfterTimeout
