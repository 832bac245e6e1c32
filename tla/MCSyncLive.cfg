\* An application that keeps syncing everything; faults stop.
SPECIFICATION LiveSpec
CONSTANTS
    null = null
    c1 = c1
    c2 = c2
    m1 = m1
    m2 = m2
    A = A
    B = B
    Chunks <- MCChunks
    Manifests <- MCManifests
    ChunksOf <- MCChunksOf
    Content <- MCContent
    Caps <- MCCaps
    Pointers <- MCPointers
    Releases <- MCReleases
    Hostile = {}
    TrustRoots <- MCTrustRoots
    LegacySlots <- MCLegacySlots
    LegacyChunks = {}
    LegacyManifests = {}
    WantedPaths <- Everything
    ExpectedIds = {"any"}
    FlushChunks = 2
    MaxClock = 1
    MaxFaults = 2
PROPERTIES
    EventuallyCurrent
