\* The offline tool, while the router is down; both may be killed at any step.
SPECIFICATION MaintenanceSpec
CONSTANTS
  k1 = k1
  k2 = k2
  t1 = t1
  t2 = t2
  Routers = {a}
  Keys = {k1, k2}
  Blobs = {b1, b2}
  DiskFaults = TRUE
  TenantOf <- MCTenantOf
  Offline = TRUE
SYMMETRY Symmetric
PROPERTIES ReferencedStay TenantRowsLeaveLast NoRouterResurrects CollectedMeansGone
