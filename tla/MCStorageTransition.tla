------------------------- MODULE MCStorageTransition -------------------------
(* Small instances of StorageTransition for TLC: documents of the library   *)
(* (lib) and external ones (ext), one warmup client and library readers.  *)
EXTENDS StorageTransition

CONSTANTS c1, lib, ext, r1, r2
=============================================================================
