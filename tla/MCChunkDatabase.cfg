\* Sessions, migration and fallback in two Workers.
SPECIFICATION FairDatabaseSpec
CONSTANTS
    null = null
    t1 = t1
    t2 = t2
    Tabs <- MCTabs
    LegacyStates <- MCLegacyStates
    torn = torn
    Kinds = {"sync", "read", "reset"}
    MaxSequence = 1
    MaxCalls = 3
    MaxFaults = 1
    MicrotaskCalls = FALSE
CHECK_DEADLOCK FALSE
INVARIANTS
    DatabaseInvariant
PROPERTIES
    ResetIsTotal
    CallsAnswered
