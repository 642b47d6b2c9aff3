SPECIFICATION Spec
CONSTANTS
    None = None
    Kids <- MCKidSet
    Keys <- MCKeys
    Methods <- MCMethods
    WithoutMark <- MCWithoutMark
    OwnMethods <- MCOwn
    Requests <- MCRequests
    Registries <- MCRegistries
    Resolvers <- MCResolvers
    Inserts <- MCInserts
    MaxBinds = 1
INVARIANTS
    TypeOK
    VerdictsAreChecked
    VerifiedIsSigned
    AdaptersAgree
    NoUnsignedReceipt
PROPERTIES
    BothAnswer
\* Both calls return and the behaviour ends.
CHECK_DEADLOCK FALSE
