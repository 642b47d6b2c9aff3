SPECIFICATION LayeredSpec
CONSTANTS
    None = None
    Kids <- MCKids
    Keys <- MCKeys
    Hashes <- MCHashes
    Contents <- MCContents
    Scopes <- MCExportScopes
    IdempotencyKeys <- MCIdempotencyKeys
    Names <- MCNames
    OperatorNames = {}
    Nodes <- MCNodes
    Bundles <- MCBundles
    Sizes <- MCSizes
    Answers <- MCAnswers
    Calls <- MCFewCalls
    Exports <- MCExports
INVARIANTS
    ValidatorsSeeVerifiedEvents
\* The call returns and the behaviour ends.
CHECK_DEADLOCK FALSE
