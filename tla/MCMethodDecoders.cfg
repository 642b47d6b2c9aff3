SPECIFICATION Spec
CONSTANTS
    None = None
    Wrappers = {w1, w2}
    Recipients = {"recipient", "low order"}
    LowOrder = {"low order"}
    MaxDraws = 2
    MaxCalls = 0
    Sealers = {s1, s2}
    SigningKeys = {"K1", "K2"}
    SealRequests <- MCSealRequests
    MalformedKid = "malformed"
    NUL = "NUL"
    CodeUnits = {"d", "1", "NUL"}
    CoSigners = {c1, c2}
    Answers = {"yes", "no"}
    Algorithms = {"sha-256"}
    UnknownAlgorithm = "md5"
    Maximum = 512
    Headers <- MCHeaders
    HeaderItems <- MCHeaderItems
    Payloads = {"p", "q"}
    Owners = {"K1", "K2"}
    Prefixes = {"urn:sig", "urn:receipt"}
    MaxEdits = 2
    MaxU16 = 2
    MaxU32 = 400
    Entries = {}
    MaxEntries = 0
    FieldValues <- MCFieldValues
    MaxSize = 7
    ProofQuestions = {}
    MaxDepth = 1
    Questions = {}
    CommandLines = {}
    Flags = {"--format"}
INVARIANTS
    MethodDecodersMirror
\* The number of edits is bounded.
CHECK_DEADLOCK FALSE
