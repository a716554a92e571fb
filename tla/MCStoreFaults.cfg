\* What does not hold of two routers on one cache root, PublishedStays (a published row is
\* lost), nor of one, BlobsImmutable (a build that fails overwrites a good blob).  TLC stops
\* at the first: leave one property at a time.
SPECIFICATION Spec
CONSTANTS
  Routers = {a, b}
  Keys = {k1, k2}
  Blobs = {b1, b2}
  DiskFaults = FALSE
PROPERTIES PublishedStays BlobsImmutable
