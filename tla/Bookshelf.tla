------------------------------ MODULE Bookshelf ------------------------------
(***************************************************************************)
(* What the managed library promises its user, without rows, paths,        *)
(* journals or crashes: a book opens to the bytes it was given when it     *)
(* was added until the user removes the book or alters a file himself.     *)
(* Nothing the application does for its own sake -- an audit, a repair, a  *)
(* recovery, a restart, the removal of another book -- shows, except on    *)
(* books gone astray: the file of one may be gone or be found no more.     *)
(* Books go astray one file at a time, and only while a removal is being   *)
(* carried out or after an alteration that an audit has to follow.         *)
(***************************************************************************)
EXTENDS Naturals

CONSTANTS Books, Contents

VARIABLES
  shelf,        \* shelf[b]: the bytes book b opens to, "absent" or "lost"
  astray,       \* the books the promise no longer covers
  leaving,      \* is the removal of a book still being carried out?
  edits         \* alterations of files by the user so far

Init == shelf = [b \in Books |-> "absent"] /\ astray = {} /\ leaving = FALSE /\ edits = 0

Present == {b \in Books : shelf[b] # "absent"}
OneFile(S) == \A a, b \in S \cap Present : shelf[a] = shelf[b]

Add(b, c) ==
  /\ b \notin Present /\ (c = "lost" => b \in astray)
  /\ shelf' = [shelf EXCEPT ![b] = c] /\ UNCHANGED <<astray, leaving, edits>>

Remove(b) ==
  /\ b \in Present
  /\ shelf' = [shelf EXCEPT ![b] = "absent"]
  /\ astray' \in {astray, astray \ {b}} /\ leaving' \in {leaving, TRUE} /\ UNCHANGED edits

\* The removals are carried out, or given up.
Removed == leaving' = FALSE /\ UNCHANGED <<shelf, astray, edits>>

\* One file altered or removed: the books that open to it, and no others.
Alter(S, v) ==
  /\ OneFile(S) /\ S \subseteq Present
  /\ shelf' = [b \in Books |-> IF b \in S THEN v ELSE shelf[b]]
  /\ edits' = edits + 1 /\ UNCHANGED <<astray, leaving>>

\* The books of one file, or one that is being added, go astray.
GoAstray(S, v) ==
  /\ OneFile(S) /\ (leaving \/ edits > 0)
  /\ shelf' = [b \in Books |-> IF b \in S \cap Present THEN v ELSE shelf[b]]
  /\ astray' = astray \cup S /\ leaving' \in {leaving, FALSE} /\ UNCHANGED edits

\* A book astray is lost, turns up, is found again.
Wander ==
  /\ shelf' \in [Books -> Contents \cup {"lost", "absent"}]
  /\ \A b \in Books : shelf'[b] = shelf[b] \/ (b \in astray \cap Present /\ shelf'[b] # "absent")
  /\ astray' \subseteq astray /\ leaving' \in {leaving, FALSE} /\ UNCHANGED edits

Next ==
  \/ Wander \/ Removed
  \/ \E b \in Books : Remove(b)
  \/ \E b \in Books, c \in Contents \cup {"lost"} : Add(b, c)
  \/ \E S \in SUBSET Books, v \in Contents \cup {"lost"} : Alter(S, v) \/ GoAstray(S, v)

Spec == Init /\ [][Next]_<<shelf, astray, leaving, edits>>
=============================================================================
