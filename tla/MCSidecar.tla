------------------------------ MODULE MCSidecar ------------------------------
(* A small instance of Sidecar: two requests at a time on one filename, which *)
(* is all that shares a lock, with leases that outlive each other.            *)
EXTENDS Sidecar
=============================================================================
