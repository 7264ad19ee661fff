SPECIFICATION Spec
CONSTANTS
    Blocks = {b1, b2}
    SizeMax = 7
    Header = 2
    Failing = {"lock", "heap"}
    MaxAllocs = 5
    MaxCalls = 3
SYMMETRY Symmetry
INVARIANTS
    TypeOK
    MetricsAreExact
    BlocksHold
    NoMisuse
    NothingLeaks
