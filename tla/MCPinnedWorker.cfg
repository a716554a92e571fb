\* One request after the other, for two models in turn.
CONSTANTS
  w1 = w1  w2 = w2  w3 = w3  w4 = w4  m1 = m1  m2 = m2
  Requests = {r1}
  Workers = {w1, w2, w3, w4}
  Capacity <- OneSlotEach
  QueueLimit = 0
  Inventory <- Two
  ModelOf <- Models
  Asks <- BothCold
  Views = {"idle"}
  Wheel = 2
SPECIFICATION RankedFairSpec
PROPERTIES NobodyPinned
CHECK_DEADLOCK FALSE
