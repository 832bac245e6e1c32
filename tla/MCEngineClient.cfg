\* Requests, progress, deadlines, throws and dispose in every order.
SPECIFICATION FairEngineSpec
CONSTANTS
    null = null
    MaxRequests = 3
    MaxProgress = 1
    Timeout = 2
    MaxFaults = 1
CHECK_DEADLOCK FALSE
INVARIANTS
    EngineInvariant
PROPERTIES
    OutcomeIsFinal
    RequestsSettle
