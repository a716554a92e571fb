\* Two instances in one: constraint Instance.  It may stop: no reload is left by the
\* bound, and no thread when all the clients have gone at the wrong moment.
SPECIFICATION ReloadSpec
CONSTANTS
  Requests = {r1, r2, r3}
  w1 = w1
  w2 = w2
  Workers = {w1, w2}
  Capacity <- OneSlotEach
  Capacities <- OneOrTwo
  QueueLimit = 1
  Reloaders = {s1, s2}
  MaxReloads = 2
SYMMETRY Interchangeable
CONSTRAINT Instance
INVARIANTS CountsKept ReloadedOverOrUnder
CHECK_DEADLOCK FALSE
