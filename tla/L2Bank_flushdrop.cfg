SPECIFICATION Spec
CONSTANTS
  i0 = i0  i1 = i1  t0 = t0  t1 = t1  t2 = t2
  Idx = {i0, i1}
  Tag = {t0, t1}
  NWay = 1
  NMshr = 1
  Last = 2
  Reqs <- RwfReqs
SYMMETRY Sym
PROPERTY FlushTreatedAsMiss
CHECK_DEADLOCK FALSE
