\* A Worker dies between two removals of the migration.
SPECIFICATION DatabaseSpec
CONSTANTS
    null = null
    t1 = t1
    t2 = t2
    Tabs <- MCTabs
    LegacyStates <- MCLegacyStates
    torn = torn
    Kinds = {"sync", "read", "reset"}
    MaxSequence = 1
    MaxCalls = 2
    MaxFaults = 1
    MicrotaskCalls = FALSE
CHECK_DEADLOCK FALSE
INVARIANT
    MigrationIsRepeatable
