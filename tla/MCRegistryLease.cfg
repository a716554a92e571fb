\* Leases of two keys between two routers.
SPECIFICATION Spec
CONSTANTS
  Routers = {a, b}
  Keys = {k1, k2}
  TTL = 2
  Horizon = 5
  MaxRestarts = 1
SYMMETRY Interchangeable
INVARIANTS LeasesExclude NothingLeftBehind
PROPERTY OnlyOwnerEnds
