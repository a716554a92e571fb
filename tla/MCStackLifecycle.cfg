CONSTANTS
  p1 = p1  p2 = p2  p3 = p3  p4 = p4  p5 = p5
  w1 = w1  w2 = w2
  Pids = {p1, p2, p3, p4}
  Inventory <- OneWorker
  Reuse = TRUE
SPECIFICATION Spec
SYMMETRY Symmetric
INVARIANTS Owned ProvedByFreshWorker
PROPERTIES LegacyOnRecord
