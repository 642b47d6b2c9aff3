SPECIFICATION LayeredSpec
CONSTANTS
    None = None
    Kids <- MCKids
    Keys <- MCKeys
    Hashes <- MCHashes
    Contents <- MCContents
    Scopes <- MCExportScopes
    IdempotencyKeys <- MCIdempotencyKeys
    Names <- MCNames
    OperatorNames = {}
    Nodes <- MCNodes
    Bundles <- MCBundles
    Sizes <- MCSizes
    Answers <- MCAnswers
    Calls <- MCCalls
    Exports <- MCExports
INVARIANTS
    TypeOK
    ProvedEventsAreCommitted
    ValidMeansValidated
    ExitAgreesWithVerdict
PROPERTIES
    ImplementsExportJudge
\* The call returns and the behaviour ends.
CHECK_DEADLOCK FALSE
