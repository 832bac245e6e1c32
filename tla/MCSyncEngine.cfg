\* Every path of a sync, with up to two adverse events.
SPECIFICATION SyncSpec
CONSTANTS
    null = null
    c1 = c1
    c2 = c2
    m1 = m1
    m2 = m2
    A = A
    B = B
    Chunks <- MCChunks
    Manifests <- MCManifests
    ChunksOf <- MCChunksOf
    Content <- MCContent
    Caps <- MCCaps
    Pointers <- MCPointers
    Releases <- MCReleases
    Hostile <- MCHostile
    TrustRoots <- MCTrustRoots
    LegacySlots <- MCLegacySlots
    LegacyChunks = {}
    LegacyManifests = {}
    WantedPaths <- MCWanted
    ExpectedIds = {"any", "app"}
    FlushChunks = 2
    MaxClock = 1
    MaxFaults = 2
INVARIANTS
    ResultNeverRollsBack
    ServedUnderPolicy
    DeliveredReadable
    FailureKeepsRelease
    
PROPERTIES
    StoreSpec
