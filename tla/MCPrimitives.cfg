SPECIFICATION FairSpec
CONSTANTS
    None = None
    Wrappers = {w1, w2}
    Recipients = {"recipient", "low order"}
    LowOrder = {"low order"}
    MaxDraws = 2
    MaxCalls = 3
    Sealers = {s1, s2}
    SigningKeys = {"K1", "K2"}
    SealRequests <- MCSealRequests
    MalformedKid = "malformed"
    NUL = "NUL"
    CodeUnits = {"d", "1", "NUL"}
    CoSigners = {c1, c2}
    Answers = {"yes", "no"}
    Algorithms = {"sha-256"}
    UnknownAlgorithm = "md5"
    Maximum = 512
    Headers <- MCHeaders
    HeaderItems <- MCHeaderItems
    Payloads = {"p", "q"}
    Owners = {"K1", "K2"}
    Prefixes = {"urn:sig", "urn:receipt"}
    MaxEdits = 2
    MaxU16 = 2
    MaxU32 = 400
    Entries <- MCEntries
    MaxEntries = 3
    FieldValues <- MCFieldValues
    MaxSize = 7
    ProofQuestions <- MCProofQuestions
    MaxDepth = 3
    Questions <- MCQuestions
    CommandLines <- MCCommandLines
    Flags = {"--format", "--bogus", "--help", "-h"}
INVARIANTS
    WrapsAreFresh
    FailuresAreOwn
    OneHashOneRequest
    AcceptedUnderRequestedKey
    CoSignaturesStand
    EncodedIsRead
    CodecsReadAlike
    OnlyTheSignedVerifies
    PackedIsRead
    EditsAreCaught
    OnlyTheAuditPathProves
    OnlyOneHistoryIsConsistent
    OneMeaningOneEncoding
    JsonSurvives
    ExitZeroIsTheWholeReport
PROPERTIES
    CallsReturn
\* The numbers of calls, edits and entries are bounded; a question has one answer.
CHECK_DEADLOCK FALSE
