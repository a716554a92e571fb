\* What does not hold of the offline tool next to a running router: ReferencedStay (a blob
\* uploaded before its manifest is written is collected), DeletedStaysOut (a tombstone filed
\* by --write-registry is a row a router uses).  TLC stops at the first: leave one at a time.
SPECIFICATION MaintenanceSpec
CONSTANTS
  k1 = k1
  k2 = k2
  t1 = t1
  t2 = t2
  Routers = {a}
  Keys = {k1, k2}
  Blobs = {b1, b2}
  DiskFaults = FALSE
  TenantOf <- MCTenantOf
  Offline = FALSE
PROPERTIES ReferencedStay DeletedStaysOut
