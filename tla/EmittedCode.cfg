SPECIFICATION Spec
CONSTANTS
    Instructions <- MCInstructions
    KnownSets <- MCKnown
    KnownContents <- MCKnownContents
    VariablesOf <- MCVariablesOf
    Contents <- MCContents
INVARIANTS
    TypeOK
    EmittedAsExecuted
    OutputsDeclared
    InputsDeclared
    ConstantsHold
