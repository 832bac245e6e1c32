\* Every operation of the store, crashes and damage at rest included.
SPECIFICATION Spec
CONSTANTS
    null = null
    c1 = c1
    c2 = c2
    m1 = m1
    m2 = m2
    Chunks <- MCChunks
    Manifests <- MCManifests
    ChunksOf <- MCChunksOf
    Pointers <- MCPointers
    LegacySlots <- MCLegacySlots
    LegacyChunks <- MCLegacyChunks
    LegacyManifests <- MCLegacyManifests
    FlushChunks = 2
INVARIANTS
    
    ServedIsNewest
    
PROPERTIES
    RegisterSpec
