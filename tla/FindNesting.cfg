SPECIFICATION Spec
CONSTANTS
    Terms <- NoTerms
    Values <- OneLoop
    Parts <- NoTerms
    Convertible <- NoTerms
    IsIolist <- Iolist
    Flat <- Flattened
    IntBits = 6
    Significand = 3
    MaxDepth = 100
    Reserve = 112
INVARIANT NestingIsSafe
