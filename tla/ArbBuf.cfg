SPECIFICATION BufSpec
CONSTANTS
  N = 2
  Depth = 2
  InDepth = 2
  Data <- MCData
INVARIANTS BoundedBypass InOrder
PROPERTIES RefinesQueue GrantStable Delivered
