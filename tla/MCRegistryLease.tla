--------------------------- MODULE MCRegistryLease ---------------------------
(* A small instance of RegistryLease.  The horizon is past two lease times, so *)
(* a lease can expire under its holder, be pruned and be taken by another      *)
(* router that in turn loses it; each router may die once.                     *)
EXTENDS RegistryLease, TLC

Interchangeable == Permutations(Routers) \union Permutations(Keys)
=============================================================================
