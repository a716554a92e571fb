--------------------------- MODULE MCRegistryStore ---------------------------
(* Small instances of RegistryStore: two keys and two blobs, so that a refresh *)
(* can replace another key and a build can store the blob another key names.   *)
EXTENDS RegistryStore
=============================================================================
