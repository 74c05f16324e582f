CONSTANTS
  None = None
  MaxAppends = 5
  MaxDepth = 2
  MaxTx = 3
  Mems = {m1, m2, m3}
  Searchers = {p1, p2}
  Nobody = Nobody
  Chunk = 2
  MaxEntries = 4
  Conns = {p1, p2}
  Bodies = {b1}
  Values = {v1, v2}
  Plain = Plain
  NoConn = NoConn
  MaxRows = 2
  Openers = {p1, p2}
  Starters = {s1, s2}
  NoStarter = NoStarter
  Latest = 2
  MaxTries = 2
SPECIFICATION StoreSpec
SYMMETRY Symmetry
INVARIANTS StoreTypeOK HandlesTellTheTruth ExemptionIsExact FoldIsReplay NamesResolve ImportIsExact MergeMovesAllMass MarkerTellsTheTruth MigratedOnce
CHECK_DEADLOCK FALSE
