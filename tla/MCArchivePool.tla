---------------------------- MODULE MCArchivePool ----------------------------
(* Small instances of ArchivePool for TLC. *)
EXTENDS ArchivePool, TLC

LeaseSymmetry == Permutations(Leases)
PageSymmetry  == Permutations(Pages)
Symmetry      == LeaseSymmetry \cup PageSymmetry
=============================================================================
