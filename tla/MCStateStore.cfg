\* Two tabs, four or five calls, one failure: conditional changes, imports and
\* dispose in every order.
SPECIFICATION FairStateStoreSpec
CONSTANTS
    null = null
    t1 = t1  t2 = t2  k1 = k1  v1 = v1  v2 = v2
    Tabs = {t1, t2}
    Keys = {k1}
    Values = {v1, v2}
    Batches <- BatchSet
    Foreign <- FileSet
    MaxSafe = 5
    MaxCalls = 5
    MaxPending = 2
    MaxFaults = 1
CHECK_DEADLOCK FALSE
INVARIANTS
    StateStoreInvariant
PROPERTIES
    ConditionalChange
    CommitsWhatWasStaged
    StoreSettles
