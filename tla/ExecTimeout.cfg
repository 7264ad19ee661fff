SPECIFICATION FairSpec
CONSTANTS
    Apis <- AllApis
    Timeouts <- SomeTimeouts
    Unlimited <- Never
    Returns <- PlainOrGetter
    Throws <- AllThrows
    InterruptEvery = 3
    TicksPerMs = 2
    MaxAge = 5
    MaxTries = 2
    MaxArgs = 2
INVARIANTS TypeOK LeavesNothing TimeoutIsTrue DeadlineIsFinal
PROPERTY TimedRunEnds
