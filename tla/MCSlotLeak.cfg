\* A slot that is never given back.
SPECIFICATION Spec
CONSTANTS
  Requests = {r1, r2}
  w1 = w1
  w2 = w2
  Workers = {w1, w2}
  Capacity <- OneSlotEach
  QueueLimit = 1
INVARIANT SlotsReleased
