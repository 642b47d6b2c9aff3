SPECIFICATION Spec
CONSTANTS
    None = None
    Kids <- MCKids
    Keys <- MCKeys
    Hashes <- MCHashes
    Contents <- MCContents
    Scopes <- MCScopes
    IdempotencyKeys <- MCIdempotencyKeys
    Names <- MCNames
    OperatorNames = {"urn:trellis:operator:x"}
    Calls <- LinkCalls
    Inputs <- LinkInputs
INVARIANTS
    VerifiedPassesContinuity
\* The call returns and the behaviour ends.
CHECK_DEADLOCK FALSE
