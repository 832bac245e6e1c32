SPECIFICATION FairSahSpec
CONSTANTS
  k1 = k1
  k2 = k2
  k3 = k3
  t1 = t1
  t2 = t2
  null = null
  Conns = {k1, k2, k3}
  Temps = {t1, t2}
  InitialCapacity = 3
  MaxSlots = 6
INVARIANTS
    SahInvariant
    ReadsCommitted
PROPERTIES
    DatabaseFileSurvives
    WriterGetsItsTurn
