----------------------------- MODULE MCInventory -----------------------------
(* A small instance of Inventory: the file is edited three times, once into   *)
(* something that is not valid, under two threads that reload and probe.      *)
EXTENDS Inventory

All == Versions
AllButTwo == Versions \ {2}
=============================================================================
