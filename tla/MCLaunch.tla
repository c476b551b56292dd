------------------------------- MODULE MCLaunch -------------------------------
(* Small instances of Launch for TLC: a few processes of one profile.        *)
EXTENDS Launch, TLC

Symmetry == Permutations(Procs)
=============================================================================
