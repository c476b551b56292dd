---------------------------- MODULE MCReaderPages ----------------------------
(* A small instance of ReaderPages for TLC: a book of two pages that is      *)
(* opened again after a prompt.                                              *)
EXTENDS ReaderPages
=============================================================================
