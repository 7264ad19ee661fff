SPECIFICATION Spec
CONSTANTS
    Terms <- AllTerms
    Values <- AllValues
    Parts <- SomeParts
    Convertible <- SomeConvertible
    IsIolist <- Iolist
    Flat <- Flattened
    IntBits = 6
    Significand = 3
    MaxDepth = 3
    Reserve = 112
INVARIANTS TypeOK WholeOrNothing ComesBack KeepsPlain
