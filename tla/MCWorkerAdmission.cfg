\* Safety, refinement and liveness of the admission queue.
SPECIFICATION FairSpec
CONSTANTS
  Requests = {r1, r2, r3}
  w1 = w1
  w2 = w2
  Workers = {w1, w2}
  Capacity <- OneSlotEach
  QueueLimit = 1
INVARIANTS CountersExact NobodyOverOrUnder
PROPERTIES ImplementsSlots RequestsAnswered
