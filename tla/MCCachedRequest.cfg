\* Two requests, with and without other traffic on the slots.
SPECIFICATION Spec
CONSTANTS
  r1 = r1
  r2 = r2
  k1 = k1
  k2 = k2
  q1 = q1
  q2 = q2
  Requests = {q1, q2}
  Routers = {r1, r2}
  Workers = {w1, w2}
  Keys = {k1, k2}
  Asks <- MCAsks
  Appends = TRUE
  Faults = TRUE
INVARIANTS FiledUnderOwnPrefix QuarantinedOnlyChecked CountedOnce
PROPERTIES AnswersRefined
CHECK_DEADLOCK FALSE
