SPECIFICATION Spec
CONSTANTS
    Statements <- SomeStatements
    Programs <- SomePrograms
    Names <- TwoNames
    Known <- KnownLevels
INVARIANTS TypeOK EffectsAsWritten CallsOnce TermsLive
