\* Queueing off, as by default.  It may stop: when the client of every request has
\* gone at the wrong moment, no thread is left.
CONSTANTS
  w1 = w1  w2 = w2  w3 = w3  w4 = w4  m1 = m1  m2 = m2
  Requests = {r1, r2}
  Workers = {w1, w2}
  Capacity <- OneSlotEach
  QueueLimit = 0
  Inventory <- One
  ModelOf <- Models
  Asks <- Every
  Views = {"unready", "idle", "busy", "unknown", "stalled"}
  Wheel = 2
SPECIFICATION RankedSpec
INVARIANTS EqualScoresRotate
PROPERTIES AnyOrder LightestFirst
CHECK_DEADLOCK FALSE
