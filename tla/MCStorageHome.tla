---------------------------- MODULE MCStorageHome ----------------------------
(* LibraryStartup on two libraries and three directories.                  *)
EXTENDS LibraryStartup, TLC

Symmetry == Permutations(Roots \ {Default}) \cup Permutations(Libraries)
==============================================================================
