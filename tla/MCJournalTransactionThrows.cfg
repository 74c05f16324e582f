CONSTANTS
  None = None
  MaxAppends = 3
  MaxDepth = 2
  MaxTx = 3
SPECIFICATION Spec
INVARIANTS InFlightMeansUnsettled
