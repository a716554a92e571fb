\* What does not hold of two workers on one host, WorkersCoexist, nor of a host that reuses
\* process ids, StrangersSpared.  TLC stops at the first: leave one property at a time.
CONSTANTS
  p1 = p1  p2 = p2  p3 = p3  p4 = p4  p5 = p5
  w1 = w1  w2 = w2
  Pids = {p1, p2, p3, p4, p5}
  Inventory <- TwoWorkers
  Reuse = TRUE
SPECIFICATION Spec
SYMMETRY Symmetric
PROPERTIES WorkersCoexist StrangersSpared
