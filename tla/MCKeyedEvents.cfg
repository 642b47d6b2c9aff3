SPECIFICATION Spec
CONSTANTS
    None = None
    Payloads <- MCPayloads
    Calls <- MCCalls
    Inputs <- MCInputs
INVARIANTS
    KeyedEventsWereVerified
\* The call returns and the behaviour ends.
CHECK_DEADLOCK FALSE
