SPECIFICATION Spec
CONSTANTS
  i0 = i0  i1 = i1  t0 = t0  t1 = t1  t2 = t2
  Idx = {i0}
  Tag = {t0, t1, t2}
  NWay = 2
  NMshr = 2
  Last = 2
  Reqs <- WayReqs
SYMMETRY Sym
INVARIANTS ReadsCoherent OneWayPerLine
CHECK_DEADLOCK FALSE
