\* Plain calls and transactions in line, late statements, failing statements
\* and COMMITs, a Worker's death and close() at every moment.
SPECIFICATION FairSqlSpec
CONSTANTS
    null = null
    MaxCalls = 3
    MaxStatements = 2
    MaxFaults = 1
CHECK_DEADLOCK FALSE
INVARIANTS
    SqlInvariant
    OutcomeIsTrue
PROPERTIES
    CloseSettles
    CallsSettle
