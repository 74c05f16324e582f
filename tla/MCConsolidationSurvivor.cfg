CONSTANTS
  a = a
  b = b
  c = c
  d = d
  Ids = {a, b, c, d}
  None = None
  Key <- KeyOf
  Part <- PartOf
  Rank <- RankOf
  Near <- NearOf
  Listing <- Order
  Starts <- StartsOf
  Runs = {r}
  MaxBatch = 2
  MaxEntries = 3
SPECIFICATION Spec
PROPERTIES SurvivorIsLive
CHECK_DEADLOCK FALSE
