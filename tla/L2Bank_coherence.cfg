SPECIFICATION Spec
CONSTANTS
  i0 = i0  i1 = i1  t0 = t0  t1 = t1  t2 = t2
  Idx = {i0, i1}
  Tag = {t0, t1}
  NWay = 1
  NMshr = 2
  Last = 2
  Reqs <- CoReqs
INVARIANTS ReadsCoherent IndexExclusive ResponsesDoNotCollide CleanMeansInMemory
CHECK_DEADLOCK FALSE
