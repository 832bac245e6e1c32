SPECIFICATION SqliteSpec
CONSTANTS
    SqlNull = SqlNull
    north = north
    east = east
    nan = nan
    short = short
    Ids = {1, 2, 3, 4}
    Vectors = {north, east, nan, short}
    Dim <- MCDim
    Finite = {north, east, short}
    Queries = {north, nan, short}
    Distance <- MCDistance
    Batches <- MCBatches
    Filters <- MCFilters
    IdLists <- MCIdLists
    DeleteLists <- MCDeleteLists
    Limits = {0, 2}
    LookupQueries <- MCLookups
    Frequencies = {1, 2}
    Persistent = TRUE
    MaxBind = 10
    MaxQueryKeys = 2
    MaxRowid = 4
    MaxFaults = 1
INVARIANTS
    SqliteInvariant
PROPERTIES
    RefinesFlat
