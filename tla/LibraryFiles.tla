----------------------------- MODULE LibraryFiles -----------------------------
(***************************************************************************)
(* The managed library: imports, audits, recoveries, deletions, the user's *)
(* own hand on the files, and crashes, over one database and one folder.   *)
(***************************************************************************)
EXTENDS LibraryMaintenance

Next ==
  \/ ImportStep \/ MaintenanceStep
  \/ \E b \in Ids : DeleteBook(b)
  \/ \E p \in Path : DeleteFile(p)
  \/ \E p \in Path, c \in Edits \cup {"none"} : AlterFile(p, c)
  \/ Crash

Spec == Init /\ [][Next]_libraryVars

-----------------------------------------------------------------------------
TypeOK ==
  /\ rows \in [Ids -> Row \cup {NoRow}] /\ books \in [Ids -> Ids \cup {"none"}]
  /\ disk \in [Path -> Contents \cup {"none"}]
  /\ staging \subseteq Ids \X {"copy", "canonical"} /\ journal \subseteq Rename
  /\ unlinks \subseteq Path /\ used \subseteq Ids /\ edited \subseteq Contents
  /\ touched \subseteq Ids /\ raced \subseteq Ids /\ unrecorded \subseteq Ids
  /\ \A b \in Ids : books[b] # "none" => rows[books[b]] # NoRow

(* "One row of book_files owns exactly one file.  No two rows ever share a *)
(* physical artifact" (storage_layout.py): every deletion, merge and sweep *)
(* unlinks on that ground, without looking for other owners.               *)
NoSharedFile ==
  \A i, j \in Stored : rows[i].path = rows[j].path => i = j

(* Import and maintenance agree where an artifact belongs, whatever was    *)
(* edited, moved, merged or interrupted: the path a row records is the one *)
(* storage_target derives from it.                                         *)
PathFollowsKind ==
  \A i \in Stored : rows[i].path = Target(rows[i].kind, rows[i].stored, i)

(* The integrity baseline: the hash a row records is the hash of the file  *)
(* at its path, unless the user has altered that file or the late unlink   *)
(* of a deletion has taken it (_delete_managed_artifacts, which asks       *)
(* nobody); nothing else that the application does, completes or leaves    *)
(* half done breaks it.                                                    *)
BaselineExact == Damaged \subseteq touched \cup raced

(* A rename that was begun is finished, taken back or left to the next     *)
(* start, which settles it before anything else runs: an entry of the      *)
(* journal outlives that only when a deletion has taken its row, when the  *)
(* update of the row failed after the rename, or when neither place has    *)
(* the file any more.                                                      *)
JournalSettled ==
  step \notin {"down", "recovering", "renaming", "renamed"}
    => \A j \in journal :
         \/ rows[j.file] = NoRow \/ j.file \in unrecorded
         \/ disk[j.from] = "none" /\ disk[j.to] = "none"

(* What a book opens to: the file its row names, or the one that a rename  *)
(* has moved and whose row has not caught up.                              *)
Opens(i) ==
  LET moved == {j \in journal : j.file = i /\ disk[j.to] # "none"}
  IN IF disk[rows[i].path] # "none" THEN disk[rows[i].path]
     ELSE IF moved # {} THEN disk[(CHOOSE j \in moved : TRUE).to]
     ELSE "lost"

(* Astray is a book whose file the late unlink of a deletion took, from    *)
(* its row or from the import that is about to make it, and one whose row  *)
(* could not be updated after the rename of its file.                      *)
Shelf == INSTANCE Bookshelf WITH
  Books <- Ids,
  shelf   <- [b \in Ids |-> IF books[b] = "none" THEN "absent" ELSE Opens(books[b])],
  astray  <- {b \in Ids : IF books[b] = "none" THEN b \in raced \cap {artifact.id}
                          ELSE books[b] \in raced \cup unrecorded},
  leaving <- unlinks # {}

(* The library keeps the promise of Bookshelf: neither an audit nor a      *)
(* merge nor a crash in the middle of a move, nor the removal of another   *)
(* book, changes the bytes a book opens to; what goes astray does so only  *)
(* in a step where an unlink takes a file, where a repair fails or where   *)
(* duplicates are merged, and then all books of one file together.         *)
KeepsPromise == Shelf!Spec
=============================================================================
