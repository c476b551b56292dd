------------------------------ MODULE MCLibrary ------------------------------
(* Small instances of LibraryFiles for TLC: every source is repackaged into *)
(* the same bytes, as two archives of the same pages are.                   *)
EXTENDS LibraryFiles, TLC

CONSTANTS i1, i2, i3, c1, c2, zip, bad

MCCanon == [c \in Sources |-> zip]

\* Neither the identifiers nor the two sources are told apart.
Symmetry == {p @@ q : p \in Permutations(Ids), q \in Permutations(Sources)}
=============================================================================
