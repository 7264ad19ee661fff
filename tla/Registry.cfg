SPECIFICATION Spec
CONSTANTS
    Procs = {p1, p2}
    Ctxs = {"c1", "c2"}
    Hash <- OwnHash
    Names <- SomeNames
    Atoms <- SomeAtoms
    Bytes <- PlainBytes
    NoBytes = "no bytes"
    KeyAtom <- SomeKeys
    BytesOf <- SomeReads
    AtomOf <- PlainLatin1
    Results = {"value", "error", "undefined", "unfit", "raise"}
    NoProc = NoProc
    NoCtx = NoCtx
    MaxRegisters = 2
SYMMETRY Symmetry
INVARIANTS TypeOK RunsRegistered ResultsArrive
CHECK_DEADLOCK FALSE
