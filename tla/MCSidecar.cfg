\* Two handlers on one slot file with two contents.
SPECIFICATION FairSpec
CONSTANTS
  Files = {slot}
  Contents = {x, y}
  Handlers = {h1, h2}
  Ttls = {1}
  None = None
  MaxLeases = 2
  Horizon = 2
INVARIANT HeldBytesStay
PROPERTIES EvictsWhatItNames RequestsFinish
