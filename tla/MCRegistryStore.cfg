\* One router that may die between any two writes.
SPECIFICATION FairSpec
CONSTANTS
  Routers = {a}
  Keys = {k1, k2}
  Blobs = {b1, b2}
  DiskFaults = TRUE
INVARIANT NothingDangles
PROPERTIES PublishedStays QuarantineSticks PreparedRecovered
