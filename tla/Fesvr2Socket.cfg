SPECIFICATION Spec
CONSTANTS
  chunk_align = 2
  chunk_max_size = 4
  MemBase = 4
  Ops <- MCOps
  MaxOps = 2
  Unit <- MCUnit
  tohost_addr = 8
  fromhost_addr = 10
  BurstCap = 2
INVARIANTS TransfersExact ResponseAwaited BurstFits
PROPERTIES TransfersEnd
