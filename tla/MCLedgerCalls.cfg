SPECIFICATION FairSpec
CONSTANTS
    None = None
    Kids <- MCKids
    Keys <- MCKeys
    Hashes = {"g", "a"}
    Contents = {"content"}
    Scopes <- MCScopes
    IdempotencyKeys = {"i1", "i2"}
    Names = {"CM-A"}
    OperatorNames = {}
    Calls <- MCCalls
    Requests <- MCRequests
INVARIANTS
    TypeOK
    VerifiedUnderListedKeys
PROPERTIES
    ImplementsCallJudge
\* The call returns and the behaviour ends.
CHECK_DEADLOCK FALSE
