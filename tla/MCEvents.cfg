SPECIFICATION FairSpec
CONSTANTS
    None = None
    Kids <- MCKids
    Keys <- MCKeys
    Hashes <- MCHashes
    Contents <- MCContents
    Scopes <- MCScopes
    IdempotencyKeys <- MCIdempotencyKeys
    Names <- MCNames
    OperatorNames = {"urn:trellis:operator:x"}
    Calls <- MCCalls
    Inputs <- MCInputs
INVARIANTS
    TypeOK
    VerifiedSkipsNothing
    VerifiedLinksPassContinuity
    OutcomesLeaveFailures
    NoUnattestedUpgrade
    VerifiedCertificatesRestOnSignedEvents
PROPERTIES
    NothingIsForgotten
    ImplementsJudge
\* The call returns and the behaviour ends.
CHECK_DEADLOCK FALSE
