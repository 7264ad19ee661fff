SPECIFICATION Spec
CONSTANTS
    Ids = {a, b, toString}
    NoId = NoId
    Inherited = {toString}
    Sources <- CallFreeBodies
    Unparsable = Unparsable
    NoSource = NoSource
    EvalPrograms <- CallingEvals
    MaxRegisters = 3
    MaxRequires = 1
    MaxEvals = 1
INVARIANTS
    TypeOK
    LoadingIsOnStack
    LoadsNest
PROPERTIES
    SameExports
