---------------------------- MODULE LibraryImport ----------------------------
(***************************************************************************)
(* ImportService: one batch at a time, under the gate.  Each item is       *)
(* copied into Books/.staging while it is hashed, looked up by what the    *)
(* user handed over, inspected, perhaps converted, published at the one    *)
(* path its row owns, and only then given its row and its book.            *)
(***************************************************************************)
EXTENDS LibraryStore

Known(c) == \E i \in Stored : rows[i].source = c

Copy(i)       == <<i, "copy">>
Conversion(i) == <<i, "canonical">>
Own           == {Copy(artifact.id), Conversion(artifact.id)}

\* import_items takes the gate and clears what a dead process left behind.
ImportStart ==
  /\ Free /\ step' = "batch" /\ staging' = {}
  /\ UNCHANGED <<db, disk, work, unlinks, spent>>

\* copy_with_hash; the item's name is fresh.
ImportCopy(i, c) ==
  /\ step = "batch" /\ i \notin used
  /\ EditsImported \/ c \notin edited
  /\ used' = used \cup {i} /\ staging' = staging \cup {Copy(i)}
  /\ artifact' = [id |-> i, source |-> c, stored |-> c, kind |-> "verbatim", created |-> FALSE]
  /\ step' = "copied"
  /\ UNCHANGED <<db, disk, repair, plan, unlinks, user, crashes, audits, marks>>

\* The item ends without a book, its staged files removed.
Dropped ==
  /\ staging' = staging \ Own /\ artifact' = NoArtifact /\ step' = "batch"
  /\ UNCHANGED <<db, disk, repair, plan, unlinks, spent>>

(* A failed or cancelled copy, a source that changed under it, a known     *)
(* source, a refused archive, a cancelled or failed conversion.            *)
ImportStops == step \in {"copied", "checked", "converting", "staged"} /\ Dropped

(* The second lookup or the inspection raises something else than a        *)
(* cancellation: the item is recorded as failed, its copy stays.           *)
ImportRaises ==
  /\ step = "copied" /\ artifact' = NoArtifact /\ step' = "batch"
  /\ UNCHANGED <<db, files, repair, plan, unlinks, spent>>

\* A source no row was made from, that the inspection accepts.
ImportAccept ==
  /\ step = "copied" /\ ~Known(artifact.source) /\ step' = "checked"
  /\ UNCHANGED <<db, files, work, unlinks, spent>>

\* _stage_artifact, without and with a conversion.
ImportVerbatim ==
  /\ step = "checked" /\ step' = "staged"
  /\ UNCHANGED <<db, files, work, unlinks, spent>>

ImportConvert ==
  /\ step = "checked" /\ step' = "converting"
  /\ staging' = staging \cup {Conversion(artifact.id)}
  /\ UNCHANGED <<db, disk, work, unlinks, spent>>

ImportConverted ==
  /\ step = "converting" /\ step' = "staged"
  /\ staging' = staging \ {Copy(artifact.id)}
  /\ artifact' = [artifact EXCEPT !.kind = "canonical", !.stored = Canon[artifact.source]]
  /\ UNCHANGED <<db, disk, repair, plan, unlinks, spent>>

ImportUnconverted ==
  /\ step = "converting" /\ step' = "staged"
  /\ staging' = staging \ {Conversion(artifact.id)}
  /\ UNCHANGED <<db, disk, work, unlinks, spent>>

(* _publish_staging: the target is taken, adopted when it already holds    *)
(* the same bytes, or refused.                                             *)
ImportPublish ==
  /\ step = "staged" /\ disk[Home] \in {"none", artifact.stored}
  /\ disk' = [disk EXCEPT ![Home] = artifact.stored]
  /\ staging' = staging \ Own
  /\ artifact' = [artifact EXCEPT !.created = disk[Home] = "none"]
  /\ step' = "published"
  /\ UNCHANGED <<db, repair, plan, unlinks, spent>>

ImportRefused == step = "staged" /\ disk[Home] \notin {"none", artifact.stored} /\ Dropped

\* _insert_imported_book.  What follows (tags, the report) changes no file and no row.
ImportInsert ==
  /\ step = "published" /\ ~Known(artifact.source)
  /\ rows' = [rows EXCEPT ![artifact.id] =
       [path |-> Home, source |-> artifact.source, stored |-> artifact.stored,
        kind |-> artifact.kind, state |-> "healthy"]]
  /\ books' = [books EXCEPT ![artifact.id] = artifact.id]
  /\ artifact' = NoArtifact /\ step' = "batch"
  /\ UNCHANGED <<journal, files, repair, plan, unlinks, spent>>

\* The transaction fails: only a file this import created is taken back.
ImportInsertFails ==
  /\ step = "published"
  /\ disk' = IF artifact.created THEN [disk EXCEPT ![Home] = "none"] ELSE disk
  /\ artifact' = NoArtifact /\ step' = "batch"
  /\ UNCHANGED <<db, staging, repair, plan, unlinks, spent>>

ImportEnd ==
  /\ step = "batch" /\ step' = "idle"
  /\ UNCHANGED <<db, files, work, unlinks, spent>>

ImportStep ==
  \/ ImportStart \/ (\E i \in Ids, c \in Sources : ImportCopy(i, c))
  \/ ImportStops \/ ImportRaises \/ ImportAccept \/ ImportVerbatim
  \/ ImportConvert \/ ImportConverted \/ ImportUnconverted
  \/ ImportPublish \/ ImportRefused \/ ImportInsert \/ ImportInsertFails \/ ImportEnd
=============================================================================
