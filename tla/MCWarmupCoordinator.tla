------------------------- MODULE MCWarmupCoordinator -------------------------
(* A small instance of WarmupCoordinator for TLC: two views that want a     *)
(* document of the library (lib) and an external one (ext).                  *)
EXTENDS WarmupCoordinator

CONSTANTS c1, c2, lib, ext
=============================================================================
