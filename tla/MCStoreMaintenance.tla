-------------------------- MODULE MCStoreMaintenance --------------------------
(* Two keys of two tenants, and two blobs: a blob may be shared by the tenant *)
(* that is deleted and the one that is not.                                   *)
EXTENDS StoreMaintenance, TLC

CONSTANTS k1, k2, t1, t2

Symmetric == Permutations(Blobs)

MCTenantOf == k1 :> t1 @@ k2 :> t2
=============================================================================
