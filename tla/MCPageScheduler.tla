--------------------------- MODULE MCPageScheduler ---------------------------
(* Small instances of PageScheduler for TLC: a library reader with a body   *)
(* (b1) and a strip (t1), and external readers (b2, b3).                     *)
EXTENDS PageScheduler

CONSTANTS b1, b2, b3, t1, library, unscoped

MCGroup == [o \in Owners |-> IF o = t1 THEN b1 ELSE o]
MCExec  == [o \in Owners |-> IF o \in {b1, t1} THEN library ELSE unscoped]
=============================================================================
