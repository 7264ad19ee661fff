SPECIFICATION FairSpec
CONSTANTS
    Letters = {"a", "b"}
    Limit = 12
    ReqIds <- ShortIds
    MaxLength = 4
    MaxRequires = 2
INVARIANTS
    TypeOK
    AssertionsHold
    UnreadIntact
    CanonicalIds
PROPERTIES
    Ends
    ImplementsPath
