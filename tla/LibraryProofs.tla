---------------------------- MODULE LibraryProofs ----------------------------
(***************************************************************************)
(* Proofs about LibraryFiles for any sets of identifiers and contents and  *)
(* any number of edits, crashes and audits.  The first part holds whatever *)
(* the flags allow: where an artifact lies is the same to an import, a     *)
(* repair and a recovery, and two rows share a file only when both were    *)
(* recorded with the same bytes.  A plan and a journal outlive the rows    *)
(* they were made from; that they are never applied to another row of the  *)
(* same identifier is what its invariant carries besides the types.        *)
(*                                                                         *)
(* The second part is about a careful user: no two rows share a file, no   *)
(* step but the late unlink of a deletion breaks the integrity baseline,   *)
(* every rename settles unless its row could not be updated, and the       *)
(* library implements the Bookshelf.  Its invariant, Tidy, says what each  *)
(* stage of an import, an audit, a repair and a recovery leaves true of    *)
(* the folder, and of what is remembered about it, whatever deletions do   *)
(* meanwhile.                                                              *)
(***************************************************************************)
EXTENDS LibraryFiles, TLAPS

Kind  == {"verbatim", "canonical"}
Item  == [id : Ids, path : Path, recorded : Contents, kind : Kind, healthy : BOOLEAN,
          observed : Contents \cup {"none", "unread"}]
Draft == [id : Ids, source : Sources, stored : Contents, kind : Kind, created : BOOLEAN]
Job   == [id : Ids, path : Path, stored : Contents, goal : Path, twin : Ids \cup {"none"}]
Plan  == [items : SUBSET Item, orphans : SUBSET Path,
          staged : SUBSET (Ids \X {"copy", "canonical"}), ready : BOOLEAN]

Importing == {"copied", "checked", "converting", "staged", "published"}
Mending   == {"merging", "unlinking", "renaming", "renamed"}

\* The work in hand.
WorkOK ==
  /\ plan \in Plan
  /\ step \in Importing => artifact \in Draft
  /\ step \in Mending => repair \in Job
  /\ step = "merging" => repair.twin \in Ids \ {repair.id}

\* An identifier is given out once: whatever outlives its row never meets another.
Fresh ==
  /\ Stored \subseteq used
  /\ \A t \in plan.items : t.id \in used
  /\ \A j \in journal : j.file \in used
  /\ step \in Importing =>
       /\ artifact.id \in used /\ rows[artifact.id] = NoRow
       /\ \A t \in plan.items : t.id # artifact.id
       /\ \A j \in journal : j.file # artifact.id

\* What a plan, an entry and a repair remember of a row is still true of it.
Remembered ==
  /\ \A t \in plan.items : rows[t.id] # NoRow => t.kind = rows[t.id].kind
  /\ \A j \in journal : rows[j.file] # NoRow => j.to = Target(rows[j.file].kind, j.hash, j.file)
  /\ step \in {"renaming", "renamed"} /\ rows[repair.id] # NoRow
       => repair.goal = Target(rows[repair.id].kind, repair.stored, repair.id)

Inv == TypeOK /\ WorkOK /\ Fresh /\ Remembered /\ PathFollowsKind

-----------------------------------------------------------------------------
(* What all steps but five have in common: no row appears or changes its   *)
(* kind, and the work in hand is carried on or dropped.                    *)
RowsEvolve ==
  /\ rows' \in [Ids -> Row \cup {NoRow}]
  /\ \A i \in Ids : rows'[i] # NoRow =>
       /\ rows[i] # NoRow /\ rows'[i].kind = rows[i].kind
       /\ rows'[i].path = Target(rows[i].kind, rows'[i].stored, i)
  /\ books' \in [Ids -> Ids \cup {"none"}]
  /\ \A b \in Ids : books'[b] # "none" => rows'[books'[b]] # NoRow
  /\ journal' \subseteq journal /\ used' = used

DiskTyped ==
  /\ disk' \in [Path -> Contents \cup {"none"}]
  /\ staging' \subseteq Ids \X {"copy", "canonical"}
  /\ unlinks' \subseteq Path /\ edited' \subseteq Contents /\ touched' \subseteq Ids
  /\ raced' \subseteq Ids /\ unrecorded' \subseteq Ids

Carried ==
  /\ plan' \in Plan /\ plan'.items \subseteq plan.items
  /\ step' \in Importing => step \in Importing /\ artifact' \in Draft /\ artifact'.id = artifact.id
  /\ step' \in Mending => repair' \in Job
  /\ step' = "merging" => repair'.twin \in Ids \ {repair'.id}
  /\ step' \in {"renaming", "renamed"}
       => step \in {"renaming", "renamed"} /\ repair' = repair

LEMMA StepKeeps ==
  ASSUME Inv, RowsEvolve, DiskTyped, Carried
  PROVE  Inv'
<1>1. TypeOK'
  BY DEF Inv, TypeOK, RowsEvolve, DiskTyped
<1>2. WorkOK'
  BY DEF Inv, WorkOK, Carried
<1>3. Fresh'
  <2>1. Stored' \subseteq Stored
    BY DEF Stored, RowsEvolve
  <2>2. step' \in Importing => rows'[artifact'.id] = NoRow
    BY DEF Inv, WorkOK, Draft, Fresh, RowsEvolve, Carried
  <2> QED
    BY <2>1, <2>2 DEF Inv, Fresh, RowsEvolve, Carried
<1>4. Remembered'
  <2>1. \A t \in plan'.items : rows'[t.id] # NoRow => t.kind = rows'[t.id].kind
    BY DEF Inv, WorkOK, Plan, Item, Remembered, RowsEvolve, Carried
  <2>2. \A j \in journal' : rows'[j.file] # NoRow => j.to = Target(rows'[j.file].kind, j.hash, j.file)
    BY DEF Inv, TypeOK, Rename, Remembered, RowsEvolve
  <2>3. step' \in {"renaming", "renamed"} /\ rows'[repair'.id] # NoRow
          => repair'.goal = Target(rows'[repair'.id].kind, repair'.stored, repair'.id)
    BY DEF Inv, WorkOK, Mending, Job, Remembered, RowsEvolve, Carried
  <2> QED
    BY <2>1, <2>2, <2>3 DEF Remembered
<1>5. PathFollowsKind'
  BY DEF PathFollowsKind, Stored, RowsEvolve
<1> QED
  BY <1>1, <1>2, <1>3, <1>4, <1>5 DEF Inv

LEMMA RowsStay ==
  ASSUME Inv, UNCHANGED <<db, used>>
  PROVE  RowsEvolve
BY DEF Inv, TypeOK, PathFollowsKind, Stored, RowsEvolve, db

LEMMA DiskStays ==
  ASSUME Inv, UNCHANGED <<staging, unlinks, user, marks>>, disk' \in [Path -> Contents \cup {"none"}]
  PROVE  DiskTyped
BY DEF Inv, TypeOK, DiskTyped, user, marks

\* A row that a deletion or an audit changes stays where its kind puts it.
LEMMA RowsKeep ==
  ASSUME Inv, UNCHANGED <<books, used>>, journal' \subseteq journal,
         NEW i \in Ids, NEW r \in Row, rows[i] # NoRow, rows' = [rows EXCEPT ![i] = r],
         r.kind = rows[i].kind, r.path = Target(r.kind, r.stored, i)
  PROVE  RowsEvolve
<1>1. r # NoRow
  BY LibraryAssumption DEF Row, NoRow, Path
<1>2. \A k \in Ids : rows'[k] # NoRow =>
        /\ rows[k] # NoRow /\ rows'[k].kind = rows[k].kind
        /\ rows'[k].path = Target(rows[k].kind, rows'[k].stored, k)
  BY DEF Inv, TypeOK, PathFollowsKind, Stored
<1>3. \A b \in Ids : books'[b] # "none" => rows'[books'[b]] # NoRow
  BY <1>1 DEF Inv, TypeOK
<1> QED
  BY <1>2, <1>3 DEF Inv, TypeOK, RowsEvolve

LEMMA RowTyped ==
  ASSUME Inv, NEW i \in Ids, rows[i] # NoRow
  PROVE  rows[i] \in Row
BY DEF Inv, TypeOK

LEMMA MarkedKeeps ==
  ASSUME Inv, UNCHANGED <<books, journal, used>>, NEW i \in Ids, NEW state \in States,
         rows' = Marked(i, state)
  PROVE  RowsEvolve
<1>1. CASE rows[i] = NoRow
  BY <1>1, RowsStay DEF Marked, db
<1>2. CASE rows[i] # NoRow
  <2> DEFINE r == [rows[i] EXCEPT !.state = state]
  <2>1. rows[i] \in Row /\ rows[i].path = Target(rows[i].kind, rows[i].stored, i)
    BY <1>2, RowTyped DEF Inv, PathFollowsKind, Stored
  <2>2. r \in Row /\ r.kind = rows[i].kind /\ r.path = Target(r.kind, r.stored, i)
    BY <2>1 DEF Row
  <2>3. rows' = [rows EXCEPT ![i] = r]
    BY <1>2 DEF Marked
  <2> HIDE DEF r
  <2> QED
    BY <1>2, <2>2, <2>3, RowsKeep
<1> QED
  BY <1>1, <1>2

LEMMA UpdatedKeeps ==
  ASSUME Inv, UNCHANGED <<books, used>>, journal' \subseteq journal,
         NEW i \in Ids, NEW stored \in Contents, NEW path \in Path,
         rows' = Updated(i, stored, path),
         rows[i] # NoRow => path = Target(rows[i].kind, stored, i)
  PROVE  RowsEvolve
<1>1. CASE rows[i] = NoRow
  <2>1. rows' = rows
    BY <1>1 DEF Updated
  <2> QED
    BY <2>1 DEF Inv, TypeOK, PathFollowsKind, Stored, RowsEvolve
<1>2. CASE rows[i] # NoRow
  <2> DEFINE r == [rows[i] EXCEPT !.path = path, !.stored = stored, !.state = "healthy"]
  <2>1. rows[i] \in Row
    BY <1>2, RowTyped
  <2>2. r \in Row /\ r.kind = rows[i].kind /\ r.path = Target(r.kind, r.stored, i)
    BY <1>2, <2>1 DEF Row, States
  <2>3. rows' = [rows EXCEPT ![i] = r]
    BY <1>2 DEF Updated
  <2> HIDE DEF r
  <2> QED
    BY <1>2, <2>2, <2>3, RowsKeep
<1> QED
  BY <1>1, <1>2

-----------------------------------------------------------------------------
(* Imports.  Only two steps bring something new: the copy an identifier,   *)
(* the insertion a row.                                                    *)
LEMMA DraftHome ==
  ASSUME Inv, step \in Importing
  PROVE  artifact \in Draft /\ Home \in Path /\ Home = Target(artifact.kind, artifact.stored, artifact.id)
BY DEF Inv, WorkOK, Draft, Home, Target, Path

LEMMA CopyKeeps ==
  ASSUME Inv, NEW i \in Ids, NEW c \in Sources, ImportCopy(i, c)
  PROVE  Inv'
<1>1. UNCHANGED <<db, disk, repair, plan, unlinks, user, marks>> /\ used' = used \cup {i} /\ i \notin used
  BY DEF ImportCopy
<1>2. artifact' \in Draft /\ artifact'.id = i
  BY LibraryAssumption DEF ImportCopy, Draft, Kind
<1>3. TypeOK'
  BY <1>1 DEF ImportCopy, Copy, Inv, TypeOK, db, user, marks
<1>4. WorkOK'
  BY <1>1, <1>2 DEF ImportCopy, Inv, WorkOK, Importing, Mending
<1>5. Fresh'
  BY <1>1, <1>2 DEF Inv, Fresh, Stored, db
<1>6. Remembered' /\ PathFollowsKind'
  BY <1>1 DEF ImportCopy, Inv, Remembered, PathFollowsKind, Stored, db
<1> QED
  BY <1>3, <1>4, <1>5, <1>6 DEF Inv

LEMMA InsertKeeps ==
  ASSUME Inv, ImportInsert
  PROVE  Inv'
<1> DEFINE i == artifact.id
           r == [path |-> Home, source |-> artifact.source, stored |-> artifact.stored,
                 kind |-> artifact.kind, state |-> "healthy"]
<1>1. artifact \in Draft /\ Home \in Path /\ Home = Target(artifact.kind, artifact.stored, i)
  BY DraftHome DEF ImportInsert, Importing
<1>2. i \in Ids /\ r \in Row /\ r.path = Target(r.kind, r.stored, i)
  BY <1>1, LibraryAssumption DEF Draft, Row, States, Kind
<1>3. r # NoRow
  BY <1>2, LibraryAssumption DEF Row, NoRow, Path
<1>4. /\ rows' = [rows EXCEPT ![i] = r] /\ books' = [books EXCEPT ![i] = i]
      /\ step' = "batch" /\ UNCHANGED <<journal, files, repair, plan, unlinks, spent>>
  BY DEF ImportInsert
<1>5. /\ i \in used /\ rows[i] = NoRow
      /\ \A t \in plan.items : t.id # i
      /\ \A j \in journal : j.file # i
  BY DEF ImportInsert, Importing, Inv, Fresh
<1> HIDE DEF i, r
<1>6. TypeOK'
  BY <1>2, <1>3, <1>4 DEF Inv, TypeOK, files, spent, marks, user
<1>7. WorkOK'
  BY <1>4 DEF Inv, WorkOK, Importing, Mending
<1>8. Fresh'
  BY <1>4, <1>5 DEF Inv, TypeOK, Fresh, Stored, Importing, spent, marks
<1>9. Remembered'
  BY <1>4, <1>5 DEF Inv, Remembered, WorkOK, TypeOK, Plan, Item, Rename
<1>10. PathFollowsKind'
  BY <1>2, <1>4 DEF Inv, TypeOK, PathFollowsKind, Stored
<1> QED
  BY <1>6, <1>7, <1>8, <1>9, <1>10 DEF Inv

LEMMA ImportKeeps ==
  ASSUME Inv, ImportStep
  PROVE  Inv'
<1>1. CASE ImportStart
  <2>1. RowsEvolve
    BY <1>1, RowsStay DEF ImportStart, spent, marks
  <2>2. DiskTyped
    BY <1>1 DEF ImportStart, Inv, TypeOK, DiskTyped, spent, marks, user, files
  <2>3. Carried
    BY <1>1 DEF ImportStart, Inv, WorkOK, Carried, Importing, Mending, work, files, spent, marks
  <2> QED
    BY <2>1, <2>2, <2>3, StepKeeps
<1>2. CASE ImportStops
  <2>1. RowsEvolve
    BY <1>2, RowsStay DEF ImportStops, Dropped, spent, marks
  <2>2. DiskTyped
    BY <1>2 DEF ImportStops, Inv, TypeOK, DiskTyped, spent, marks, user, files, Dropped, Own, Copy, Conversion
  <2>3. Carried
    BY <1>2 DEF ImportStops, Inv, WorkOK, Carried, Importing, Mending, work, files, spent, marks, Dropped, Own, Copy, Conversion
  <2> QED
    BY <2>1, <2>2, <2>3, StepKeeps
<1>3. CASE ImportRaises
  <2>1. RowsEvolve
    BY <1>3, RowsStay DEF ImportRaises, spent, marks
  <2>2. DiskTyped
    BY <1>3 DEF ImportRaises, Inv, TypeOK, DiskTyped, spent, marks, user, files
  <2>3. Carried
    BY <1>3 DEF ImportRaises, Inv, WorkOK, Carried, Importing, Mending, work, files, spent, marks
  <2> QED
    BY <2>1, <2>2, <2>3, StepKeeps
<1>4. CASE ImportAccept
  <2>1. RowsEvolve
    BY <1>4, RowsStay DEF ImportAccept, spent, marks
  <2>2. DiskTyped
    BY <1>4 DEF ImportAccept, Inv, TypeOK, DiskTyped, spent, marks, user, files
  <2>3. Carried
    BY <1>4 DEF ImportAccept, Inv, WorkOK, Carried, Importing, Mending, work, files, spent, marks
  <2> QED
    BY <2>1, <2>2, <2>3, StepKeeps
<1>5. CASE ImportVerbatim
  <2>1. RowsEvolve
    BY <1>5, RowsStay DEF ImportVerbatim, spent, marks
  <2>2. DiskTyped
    BY <1>5 DEF ImportVerbatim, Inv, TypeOK, DiskTyped, spent, marks, user, files
  <2>3. Carried
    BY <1>5 DEF ImportVerbatim, Inv, WorkOK, Carried, Importing, Mending, work, files, spent, marks
  <2> QED
    BY <2>1, <2>2, <2>3, StepKeeps
<1>6. CASE ImportEnd
  <2>1. RowsEvolve
    BY <1>6, RowsStay DEF ImportEnd, spent, marks
  <2>2. DiskTyped
    BY <1>6 DEF ImportEnd, Inv, TypeOK, DiskTyped, spent, marks, user, files
  <2>3. Carried
    BY <1>6 DEF ImportEnd, Inv, WorkOK, Carried, Importing, Mending, work, files, spent, marks
  <2> QED
    BY <2>1, <2>2, <2>3, StepKeeps
<1>7. CASE ImportRefused
  <2>1. RowsEvolve
    BY <1>7, RowsStay DEF ImportRefused, Dropped, spent, marks
  <2>2. DiskTyped
    BY <1>7 DEF ImportRefused, Inv, TypeOK, DiskTyped, spent, marks, user, files, Dropped
  <2>3. Carried
    BY <1>7 DEF ImportRefused, Inv, WorkOK, Carried, Importing, Mending, work, files, spent, marks, Dropped
  <2> QED
    BY <2>1, <2>2, <2>3, StepKeeps
<1>8. CASE ImportUnconverted
  <2>1. RowsEvolve
    BY <1>8, RowsStay DEF ImportUnconverted, spent, marks
  <2>2. DiskTyped
    BY <1>8 DEF ImportUnconverted, Inv, TypeOK, DiskTyped, spent, marks, user, files
  <2>3. Carried
    BY <1>8 DEF ImportUnconverted, Inv, WorkOK, Carried, Importing, Mending, work, files, spent, marks
  <2> QED
    BY <2>1, <2>2, <2>3, StepKeeps
<1>9. CASE ImportConvert
  <2>1. RowsEvolve
    BY <1>9, RowsStay DEF ImportConvert, spent, marks
  <2>2. DiskTyped
    BY <1>9, DraftHome DEF ImportConvert, Conversion, Draft, Importing, Inv, TypeOK, DiskTyped, spent, marks, user
  <2>3. Carried
    BY <1>9 DEF ImportConvert, Inv, WorkOK, Carried, Importing, Mending, work
  <2> QED
    BY <2>1, <2>2, <2>3, StepKeeps
<1>10. CASE ImportConverted
  <2>1. RowsEvolve
    BY <1>10, RowsStay DEF ImportConverted, spent, marks
  <2>2. DiskTyped
    BY <1>10 DEF ImportConverted, Inv, TypeOK, DiskTyped, spent, marks, user
  <2>3. artifact' \in Draft /\ artifact'.id = artifact.id
    <3>1. artifact \in Draft
      BY <1>10, DraftHome DEF ImportConverted, Importing
    <3>2. Canon[artifact.source] \in Contents
      BY <3>1, LibraryAssumption DEF Draft
    <3> QED
      BY <1>10, <3>1, <3>2 DEF ImportConverted, Draft, Kind
  <2>4. Carried
    BY <1>10, <2>3 DEF ImportConverted, Inv, WorkOK, Carried, Importing, Mending
  <2> QED
    BY <2>1, <2>2, <2>4, StepKeeps
<1>11. CASE ImportPublish
  <2>1. RowsEvolve
    BY <1>11, RowsStay DEF ImportPublish, spent, marks
  <2>2. artifact \in Draft /\ Home \in Path
    BY <1>11, DraftHome DEF ImportPublish, Importing
  <2>3. DiskTyped
    BY <1>11, <2>2 DEF ImportPublish, Draft, Inv, TypeOK, DiskTyped, spent, marks, user
  <2>4. artifact' \in Draft /\ artifact'.id = artifact.id
    BY <1>11, <2>2 DEF ImportPublish, Draft
  <2>5. Carried
    BY <1>11, <2>4 DEF ImportPublish, Inv, WorkOK, Carried, Importing, Mending
  <2> QED
    BY <2>1, <2>3, <2>5, StepKeeps
<1>12. CASE ImportInsertFails
  <2>1. RowsEvolve
    BY <1>12, RowsStay DEF ImportInsertFails, spent, marks
  <2>2. DiskTyped
    BY <1>12, DraftHome DEF ImportInsertFails, Inv, TypeOK, DiskTyped, spent, marks, user, files
  <2>3. Carried
    BY <1>12 DEF ImportInsertFails, Inv, WorkOK, Carried, Importing, Mending, work, files, spent, marks
  <2> QED
    BY <2>1, <2>2, <2>3, StepKeeps
<1>13. CASE \E i \in Ids, c \in Sources : ImportCopy(i, c)
  BY <1>13, CopyKeeps
<1>14. CASE ImportInsert
  BY <1>14, InsertKeeps
<1> QED
  BY <1>1, <1>2, <1>3, <1>4, <1>5, <1>6, <1>7, <1>8, <1>9, <1>10, <1>11, <1>12, <1>13, <1>14 DEF ImportStep

-----------------------------------------------------------------------------
\* What a valid item of the plan is: its kind is its row's, its goal a path.
LEMMA ItemFacts ==
  ASSUME Inv, NEW t \in plan.items
  PROVE  /\ t \in Item /\ t.id \in used
         /\ rows[t.id] # NoRow => t.kind = rows[t.id].kind
         /\ Now(t) \in Contents \cup {"none"}
         /\ Changed(t) => t.observed \in Contents /\ Goal(t) \in Path
<1>1. t \in Item /\ t.id \in used /\ (rows[t.id] # NoRow => t.kind = rows[t.id].kind)
  BY DEF Inv, WorkOK, Plan, Fresh, Remembered
<1>2. Now(t) \in Contents \cup {"none"}
  BY <1>1 DEF Inv, TypeOK, Now, Item
<1>3. Changed(t) => t.observed \in Contents
  BY <1>2 DEF Changed, Valid, Unmoved
<1> QED
  BY <1>1, <1>2, <1>3 DEF Goal, Target, Path, Item

LEMMA QuickKeeps ==
  ASSUME Inv, NEW t \in plan.items, Quick(t)
  PROVE  /\ plan' \in Plan /\ plan'.items \subseteq plan.items
         /\ step = "applying" /\ step \notin Importing \cup Mending
BY DEF Inv, WorkOK, Plan, Quick, Importing, Mending

\* Items whose repair takes one transaction.
LEMMA ShortItemKeeps ==
  ASSUME Inv, NEW t \in plan.items, ItemSkipped(t) \/ ItemMarked(t) \/ ItemInPlace(t)
  PROVE  Inv'
<1>1. Quick(t) /\ UNCHANGED <<books, journal, files, artifact, repair, step, unlinks, spent>>
  BY DEF ItemSkipped, ItemMarked, ItemInPlace, db
<1>2. RowsEvolve
  <2>1. CASE ItemSkipped(t)
    BY <2>1, RowsStay DEF ItemSkipped, spent, marks
  <2>2. CASE ItemMarked(t)
    <3>1. t.id \in Ids
      BY ItemFacts DEF Item
    <3>2. \E state \in States : rows' = Marked(t.id, state)
      BY <2>2 DEF ItemMarked, States
    <3> QED
      BY <1>1, <3>1, <3>2, MarkedKeeps DEF spent, marks
  <2>3. CASE ItemInPlace(t)
    <3>1. Changed(t) /\ Goal(t) = t.path /\ rows' = Updated(t.id, t.observed, t.path)
      BY <2>3 DEF ItemInPlace
    <3>2. /\ t.id \in Ids /\ t.observed \in Contents /\ t.path \in Path
          /\ rows[t.id] # NoRow => t.path = Target(rows[t.id].kind, t.observed, t.id)
      BY <3>1, ItemFacts DEF Item, Goal
    <3> QED
      BY <1>1, <3>1, <3>2, UpdatedKeeps DEF spent, marks
  <2> QED
    BY <2>1, <2>2, <2>3
<1>3. DiskTyped
  BY <1>1, DiskStays DEF Inv, TypeOK, files, spent, marks
<1>4. Carried
  BY <1>1, QuickKeeps DEF Carried, Importing, Mending
<1> QED
  BY <1>2, <1>3, <1>4, StepKeeps

LEMMA JobTyped ==
  ASSUME Inv, NEW t \in plan.items, Changed(t), NEW twin \in Ids \cup {"none"}
  PROVE  Repairing(t, twin) \in Job
BY ItemFacts DEF Repairing, Job, Item

LEMMA TwinKeeps ==
  ASSUME Inv, NEW t \in plan.items, ItemTwin(t)
  PROVE  Inv'
<1>1. Quick(t) /\ Changed(t) /\ step' = "merging" /\ UNCHANGED <<db, files, artifact, unlinks, spent>>
  BY DEF ItemTwin
<1>2. PICK i \in Twins(t) : repair' = Repairing(t, i)
  BY DEF ItemTwin
<1>3. i \in Ids \ {t.id}
  BY <1>2 DEF Twins, Stored
<1>4. repair' \in Job /\ repair'.twin \in Ids \ {repair'.id}
  BY <1>1, <1>2, <1>3, JobTyped DEF Repairing
<1>5. RowsEvolve
  BY <1>1, RowsStay DEF spent, marks
<1>6. DiskTyped
  BY <1>1, DiskStays DEF Inv, TypeOK, files, spent, marks
<1>7. Carried
  BY <1>1, <1>4, QuickKeeps DEF Carried, Importing
<1> QED
  BY <1>5, <1>6, <1>7, StepKeeps

LEMMA AdoptsKeeps ==
  ASSUME Inv, NEW t \in plan.items, ItemAdopts(t)
  PROVE  Inv'
<1>1. /\ Quick(t) /\ Changed(t) /\ step' = "unlinking" /\ repair' = Repairing(t, "none")
      /\ rows' = Updated(t.id, t.observed, Goal(t))
      /\ UNCHANGED <<books, journal, files, artifact, unlinks, spent>>
  BY DEF ItemAdopts
<1>2. RowsEvolve
  <2>1. /\ t.id \in Ids /\ t.observed \in Contents /\ Goal(t) \in Path
        /\ rows[t.id] # NoRow => Goal(t) = Target(rows[t.id].kind, t.observed, t.id)
    BY <1>1, ItemFacts DEF Item, Goal
  <2> QED
    BY <1>1, <2>1, UpdatedKeeps DEF spent, marks
<1>3. DiskTyped
  BY <1>1, DiskStays DEF Inv, TypeOK, files, spent, marks
<1>4. Carried
  BY <1>1, JobTyped, QuickKeeps DEF Carried, Importing
<1> QED
  BY <1>2, <1>3, <1>4, StepKeeps

\* The one step that adds an entry.
LEMMA JournalledKeeps ==
  ASSUME Inv, NEW t \in plan.items, ItemJournalled(t)
  PROVE  Inv'
<1>1. /\ Quick(t) /\ Changed(t) /\ step' = "renaming" /\ repair' = Repairing(t, "none")
      /\ journal' = journal \cup {Entry(repair')}
      /\ UNCHANGED <<rows, books, files, artifact, unlinks, spent>>
  BY DEF ItemJournalled
<1> DEFINE e == Entry(repair')
<1>2. /\ e \in Rename /\ e.file = t.id /\ e.file \in used
      /\ rows[e.file] # NoRow => e.to = Target(rows[e.file].kind, e.hash, e.file)
  BY <1>1, ItemFacts DEF Entry, Repairing, Rename, Item, Goal
<1>3. repair' \in Job
  BY <1>1, JobTyped
<1>4. plan' \in Plan /\ plan'.items \subseteq plan.items
  BY <1>1, QuickKeeps
<1>5. repair'.id = e.file /\ repair'.goal = e.to /\ repair'.stored = e.hash
  BY DEF Entry
<1>6. journal' = journal \cup {e}
  BY <1>1
<1> HIDE DEF e
<1>7. TypeOK'
  BY <1>1, <1>2, <1>6 DEF Inv, TypeOK, files, spent, marks, user
<1>8. WorkOK'
  BY <1>1, <1>3, <1>4 DEF WorkOK, Importing
<1>9. Fresh'
  BY <1>1, <1>2, <1>4, <1>6 DEF Inv, Fresh, Stored, Importing, spent, marks
<1>10. Remembered'
  BY <1>1, <1>2, <1>4, <1>5, <1>6 DEF Inv, Remembered
<1>11. PathFollowsKind'
  BY <1>1 DEF Inv, PathFollowsKind, Stored
<1> QED
  BY <1>7, <1>8, <1>9, <1>10, <1>11 DEF Inv

-----------------------------------------------------------------------------
\* The scan: its items are what the rows are now.
LEMMA ScanRowsKeeps ==
  ASSUME Inv, ScanRows
  PROVE  Inv'
<1>1. /\ step = "idle" /\ step' = "scanning" /\ used' = used
      /\ UNCHANGED <<db, files, artifact, repair, unlinks, user, marks>>
  BY DEF ScanRows, Free
<1>2. /\ plan'.orphans = {} /\ plan'.staged = {} /\ plan'.ready = FALSE
      /\ plan' = [items |-> plan'.items, orphans |-> {}, staged |-> {}, ready |-> FALSE]
      /\ plan'.items = {[id |-> i, path |-> rows[i].path, recorded |-> rows[i].stored,
           kind |-> rows[i].kind, healthy |-> rows[i].state = "healthy", observed |-> "unread"]
           : i \in Stored}
  BY DEF ScanRows, NoPlan
<1>3. \A t \in plan'.items : t \in Item /\ rows[t.id] # NoRow /\ t.kind = rows[t.id].kind
  <2> TAKE t \in plan'.items
  <2>1. PICK i \in Stored :
          t = [id |-> i, path |-> rows[i].path, recorded |-> rows[i].stored,
               kind |-> rows[i].kind, healthy |-> rows[i].state = "healthy", observed |-> "unread"]
    BY <1>2
  <2>2. i \in Ids /\ rows[i] # NoRow /\ rows[i] \in Row
    BY RowTyped DEF Stored
  <2> QED
    BY <2>1, <2>2 DEF Item, Row, Kind
<1>4. plan' \in Plan
  BY <1>2, <1>3 DEF Plan
<1>5. TypeOK'
  BY <1>1 DEF Inv, TypeOK, db, files, user, marks
<1>6. WorkOK'
  BY <1>1, <1>4 DEF WorkOK, Importing, Mending
<1>7. Fresh'
  <2>1. \A t \in plan'.items : t.id \in used
    BY <1>3 DEF Inv, Fresh, Stored, Item
  <2> QED
    BY <1>1, <2>1 DEF Inv, Fresh, Stored, Importing, db
<1>8. Remembered' /\ PathFollowsKind'
  BY <1>1, <1>3 DEF Inv, Remembered, PathFollowsKind, Stored, db
<1> QED
  BY <1>5, <1>6, <1>7, <1>8 DEF Inv

LEMMA ScanFilesKeeps ==
  ASSUME Inv, ScanFiles
  PROVE  Inv'
<1>1. /\ step' = "idle" /\ UNCHANGED <<db, files, artifact, repair, unlinks, spent>>
      /\ plan' = [items |-> {[t EXCEPT !.observed = disk[t.path]] : t \in plan.items},
                  orphans |-> {p \in Path : disk[p] # "none"} \ {t.path : t \in plan.items},
                  staged |-> staging, ready |-> TRUE]
  BY DEF ScanFiles
<1>2. \A t \in plan.items : LET u == [t EXCEPT !.observed = disk[t.path]] IN
        /\ u \in Item /\ u.id \in used
        /\ rows[u.id] # NoRow => u.kind = rows[u.id].kind
  BY ItemFacts DEF Now, Item
<1>3. \A u \in plan'.items :
        u \in Item /\ u.id \in used /\ (rows[u.id] # NoRow => u.kind = rows[u.id].kind)
  <2> TAKE u \in plan'.items
  <2>1. plan'.items = {[t EXCEPT !.observed = disk[t.path]] : t \in plan.items}
    BY <1>1
  <2>2. PICK t \in plan.items : u = [t EXCEPT !.observed = disk[t.path]]
    BY <2>1
  <2> QED
    BY <1>2, <2>2
<1>4. plan' \in Plan
  <2>1. /\ plan'.items \subseteq Item /\ plan'.ready \in BOOLEAN
        /\ plan'.orphans \subseteq Path /\ plan'.staged \subseteq Ids \X {"copy", "canonical"}
    BY <1>1, <1>3 DEF Inv, TypeOK
  <2> QED
    BY <1>1, <2>1 DEF Plan
<1>5. TypeOK'
  BY <1>1 DEF Inv, TypeOK, db, files, spent, marks, user
<1>6. WorkOK'
  BY <1>1, <1>4 DEF WorkOK, Importing, Mending
<1>7. Fresh'
  BY <1>1, <1>3 DEF Inv, Fresh, Stored, Importing, db, spent, marks
<1>8. Remembered' /\ PathFollowsKind'
  BY <1>1, <1>3 DEF Inv, Remembered, PathFollowsKind, Stored, db
<1> QED
  BY <1>5, <1>6, <1>7, <1>8 DEF Inv

\* Steps of an audit or a recovery that touch neither a row nor the journal.
LEMMA DropPlanKeeps ==
  ASSUME Inv, DropPlan
  PROVE  Inv'
<1>1. RowsEvolve
  BY RowsStay DEF DropPlan, spent, marks
<1>2. DiskTyped
  BY DiskStays DEF DropPlan, Inv, TypeOK, files, spent, marks
<1>3. Carried
  BY DEF DropPlan, Inv, WorkOK, Carried, Importing, Mending, NoPlan, Plan
<1> QED
  BY <1>1, <1>2, <1>3, StepKeeps

LEMMA ApplyStartKeeps ==
  ASSUME Inv, ApplyStart
  PROVE  Inv'
<1>1. RowsEvolve
  BY RowsStay DEF ApplyStart, spent, marks
<1>2. DiskTyped
  BY DiskStays DEF ApplyStart, Inv, TypeOK, files, spent, marks, work
<1>3. Carried
  BY DEF ApplyStart, Inv, WorkOK, Carried, Importing, Mending, work, Free
<1> QED
  BY <1>1, <1>2, <1>3, StepKeeps

LEMMA UnlinkOldKeeps ==
  ASSUME Inv, UnlinkOld
  PROVE  Inv'
<1>1. RowsEvolve
  BY RowsStay DEF UnlinkOld, spent, marks
<1>2. DiskTyped
  BY DiskStays DEF UnlinkOld, Inv, TypeOK, files, spent, marks, Repaired
<1>3. Carried
  BY DEF UnlinkOld, Inv, WorkOK, Carried, Importing, Mending, Repaired
<1> QED
  BY <1>1, <1>2, <1>3, StepKeeps

LEMMA RenameFileKeeps ==
  ASSUME Inv, RenameFile
  PROVE  Inv'
<1>1. RowsEvolve
  BY RowsStay DEF RenameFile, spent, marks
<1>2. DiskTyped
  <2>1. repair.path \in Path /\ repair.goal \in Path
    BY DEF RenameFile, Inv, WorkOK, Mending, Job
  <2> QED
    BY <2>1, DiskStays DEF RenameFile, Inv, TypeOK, files, spent, marks
<1>3. Carried
  BY DEF RenameFile, Inv, WorkOK, Carried, Importing, Mending, work, Job
<1> QED
  BY <1>1, <1>2, <1>3, StepKeeps

LEMMA SweepKeeps ==
  ASSUME Inv, Sweep
  PROVE  Inv'
<1>1. RowsEvolve
  BY RowsStay DEF Sweep, spent, marks
<1>2. DiskTyped
  BY DEF Sweep, Inv, TypeOK, DiskTyped, spent, marks, user
<1>3. Carried
  BY DEF Sweep, Inv, WorkOK, Carried, Importing, Mending, NoPlan, Plan
<1> QED
  BY <1>1, <1>2, <1>3, StepKeeps

LEMMA RestartKeeps ==
  ASSUME Inv, Restart
  PROVE  Inv'
<1>1. RowsEvolve
  BY RowsStay DEF Restart, spent, marks
<1>2. DiskTyped
  BY DiskStays DEF Restart, Inv, TypeOK, files, spent, marks
<1>3. Carried
  BY DEF Restart, Inv, WorkOK, Carried, Importing, Mending, work
<1> QED
  BY <1>1, <1>2, <1>3, StepKeeps

LEMMA RecoveredKeeps ==
  ASSUME Inv, Recovered
  PROVE  Inv'
<1>1. RowsEvolve
  BY RowsStay DEF Recovered, spent, marks
<1>2. DiskTyped
  BY DiskStays DEF Recovered, Inv, TypeOK, files, spent, marks
<1>3. Carried
  BY DEF Recovered, Inv, WorkOK, Carried, Importing, Mending, work
<1> QED
  BY <1>1, <1>2, <1>3, StepKeeps

\* Steps that do.
LEMMA RenameFailsKeeps ==
  ASSUME Inv, RenameFails
  PROVE  Inv'
<1>1. RowsEvolve
  BY DEF RenameFails, Inv, TypeOK, PathFollowsKind, Stored, RowsEvolve, spent, marks
<1>2. DiskTyped
  BY DiskStays DEF RenameFails, Inv, TypeOK, files, spent, marks
<1>3. Carried
  BY DEF RenameFails, Repaired, Inv, WorkOK, Carried, Importing, Mending
<1> QED
  BY <1>1, <1>2, <1>3, StepKeeps

LEMMA RenameRecordedKeeps ==
  ASSUME Inv, RenameRecorded
  PROVE  Inv'
<1>1. /\ repair \in Job
      /\ rows[repair.id] # NoRow
           => repair.goal = Target(rows[repair.id].kind, repair.stored, repair.id)
  BY DEF RenameRecorded, Inv, WorkOK, Remembered, Mending
<1>2. RowsEvolve
  BY <1>1, UpdatedKeeps DEF RenameRecorded, Job, spent, marks
<1>3. DiskTyped
  BY DiskStays DEF RenameRecorded, Inv, TypeOK, files, spent, marks
<1>4. Carried
  BY DEF RenameRecorded, Repaired, Inv, WorkOK, Carried, Importing, Mending
<1> QED
  BY <1>2, <1>3, <1>4, StepKeeps

LEMMA RecoverEntryKeeps ==
  ASSUME Inv, NEW j \in journal, RecoverEntry(j)
  PROVE  Inv'
<1>1. /\ j \in Rename /\ UNCHANGED <<books, files, work, step, unlinks, used, user, raced>>
      /\ journal' \subseteq journal /\ unrecorded' \subseteq unrecorded
      /\ rows[j.file] # NoRow => j.to = Target(rows[j.file].kind, j.hash, j.file)
  BY DEF RecoverEntry, Inv, TypeOK, Remembered
<1>2. RowsEvolve
  <2>1. CASE rows' = rows
    BY <1>1, <2>1 DEF Inv, TypeOK, PathFollowsKind, Stored, RowsEvolve, spent, marks
  <2>2. CASE rows' = Updated(j.file, j.hash, j.to)
    BY <1>1, <2>2, UpdatedKeeps DEF Rename, spent, marks
  <2> QED
    BY <2>1, <2>2 DEF RecoverEntry
<1>3. DiskTyped
  BY <1>1 DEF Inv, TypeOK, DiskTyped, files, user
<1>4. Carried
  BY <1>1 DEF RecoverEntry, Inv, WorkOK, Carried, Importing, Mending, work
<1> QED
  BY <1>2, <1>3, <1>4, StepKeeps

LEMMA RenameUnrecordedKeeps ==
  ASSUME Inv, RenameUnrecorded
  PROVE  Inv'
<1>1. repair \in Job
  BY DEF RenameUnrecorded, Inv, WorkOK, Mending
<1>2. RowsEvolve
  BY RowsStay DEF RenameUnrecorded
<1>3. DiskTyped
  BY <1>1 DEF RenameUnrecorded, Job, Inv, TypeOK, DiskTyped, files, user
<1>4. Carried
  BY DEF RenameUnrecorded, Repaired, Inv, WorkOK, Carried, Importing, Mending
<1> QED
  BY <1>2, <1>3, <1>4, StepKeeps

\* The books that move name a row that is there.
LEMMA MergeKeeps ==
  ASSUME Inv, Merge
  PROVE  Inv'
<1>1. /\ repair \in Job /\ repair.twin \in Ids \ {repair.id} /\ step = "merging"
      /\ UNCHANGED <<journal, files, artifact, plan, unlinks, spent>>
  BY DEF Merge, Inv, WorkOK, Mending
<1>2. DiskTyped
  BY <1>1, DiskStays DEF Inv, TypeOK, files, spent, marks
<1>3. CASE ~Mergeable
  <2>1. books' = [b \in Ids |-> books[b]] /\ UNCHANGED rows /\ step' = "applying"
    BY <1>3 DEF Merge
  <2>2. books' = books
    BY <2>1 DEF Inv, TypeOK
  <2>3. RowsEvolve
    BY <1>1, <2>1, <2>2, RowsStay DEF db, spent, marks
  <2>4. Carried
    BY <1>1, <2>1 DEF Inv, WorkOK, Carried, Importing, Mending
  <2> QED
    BY <1>2, <2>3, <2>4, StepKeeps
<1>4. CASE Mergeable
  <2>1. /\ books' = [b \in Ids |-> IF books[b] = repair.id THEN repair.twin ELSE books[b]]
        /\ rows' = [rows EXCEPT ![repair.id] = NoRow]
        /\ step' = "unlinking" /\ UNCHANGED repair
    BY <1>4 DEF Merge
  <2>2. \A b \in Ids : books'[b] # "none" => rows'[books'[b]] # NoRow
    BY <1>1, <1>4, <2>1 DEF Inv, TypeOK, Job, Mergeable, OnFile
  <2>3. RowsEvolve
    BY <1>1, <2>1, <2>2 DEF Inv, TypeOK, PathFollowsKind, Stored, RowsEvolve, Job, spent, marks
  <2>4. Carried
    BY <1>1, <2>1 DEF Inv, WorkOK, Carried, Importing, Mending
  <2> QED
    BY <1>2, <2>3, <2>4, StepKeeps
<1> QED
  BY <1>3, <1>4

LEMMA MaintenanceKeeps ==
  ASSUME Inv, MaintenanceStep
  PROVE  Inv'
BY ScanRowsKeeps, ScanFilesKeeps, DropPlanKeeps, ApplyStartKeeps, ShortItemKeeps, TwinKeeps,
   AdoptsKeeps, JournalledKeeps, MergeKeeps, UnlinkOldKeeps, RenameFileKeeps, RenameFailsKeeps,
   RenameRecordedKeeps, RenameUnrecordedKeeps, SweepKeeps, RestartKeeps, RecoverEntryKeeps, RecoveredKeeps
   DEF MaintenanceStep, ApplyItem

-----------------------------------------------------------------------------
\* What may happen at any time.
LEMMA DeleteBookKeeps ==
  ASSUME Inv, NEW b \in Ids, DeleteBook(b)
  PROVE  Inv'
<1> DEFINE i == books[b]
           last == OnFile(i) = {b}
<1>1. /\ i \in Ids /\ rows[i] # NoRow /\ rows[i] \in Row
      /\ books' = [books EXCEPT ![b] = "none"]
      /\ rows' = IF last THEN [rows EXCEPT ![i] = NoRow] ELSE rows
      /\ unlinks' = unlinks \cup (IF last THEN {rows[i].path} ELSE {})
      /\ UNCHANGED <<journal, files, work, step, spent>>
  BY RowTyped DEF DeleteBook, Inv, TypeOK
<1>2. last => \A a \in Ids : books[a] = i => a = b
  BY DEF OnFile
<1> HIDE DEF i, last
<1>3. RowsEvolve
  BY <1>1, <1>2 DEF Inv, TypeOK, PathFollowsKind, Stored, RowsEvolve, spent, marks
<1>4. DiskTyped
  BY <1>1 DEF Inv, TypeOK, DiskTyped, Row, files, spent, marks, user
<1>5. Carried
  BY <1>1 DEF Inv, WorkOK, Carried, Importing, Mending, work
<1> QED
  BY <1>3, <1>4, <1>5, StepKeeps

LEMMA DeleteFileKeeps ==
  ASSUME Inv, NEW p \in Path, DeleteFile(p)
  PROVE  Inv'
<1>1. RowsEvolve
  BY RowsStay DEF DeleteFile
<1>2. DiskTyped
  <2>1. Takers(p) \subseteq Ids
    BY DEF Takers, Owners, Stored, Inv, WorkOK, Importing, Mending, Draft, Job
  <2>2. raced' \subseteq Ids /\ disk' \in [Path -> Contents \cup {"none"}]
    BY <2>1 DEF DeleteFile, Inv, TypeOK
  <2> QED
    BY <2>2 DEF DeleteFile, Inv, TypeOK, DiskTyped, user
<1>3. Carried
  BY DEF DeleteFile, Inv, WorkOK, Carried, Importing, Mending, work
<1> QED
  BY <1>1, <1>2, <1>3, StepKeeps

LEMMA AlterFileKeeps ==
  ASSUME Inv, NEW p \in Path, NEW c \in Edits \cup {"none"}, AlterFile(p, c)
  PROVE  Inv'
<1>1. RowsEvolve
  BY RowsStay DEF AlterFile
<1>2. DiskTyped
  <2>1. c \in Contents \cup {"none"}
    BY LibraryAssumption
  <2>2. disk' \in [Path -> Contents \cup {"none"}]
    BY <2>1 DEF AlterFile, Inv, TypeOK
  <2>3. touched' \subseteq Ids
    BY DEF AlterFile, Owners, Stored, Inv, TypeOK
  <2> QED
    BY <2>2, <2>3 DEF AlterFile, Inv, TypeOK, DiskTyped, marks
<1>3. Carried
  BY DEF AlterFile, Inv, WorkOK, Carried, Importing, Mending, work
<1> QED
  BY <1>1, <1>2, <1>3, StepKeeps

LEMMA CrashKeeps ==
  ASSUME Inv, Crash
  PROVE  Inv'
<1>1. RowsEvolve
  BY RowsStay DEF Crash
<1>2. DiskTyped
  BY DEF Crash, Inv, TypeOK, DiskTyped, files, user, marks
<1>3. Carried
  BY DEF Crash, Inv, WorkOK, Carried, Importing, Mending, NoPlan, Plan
<1> QED
  BY <1>1, <1>2, <1>3, StepKeeps

LEMMA InitInv ==
  ASSUME Init
  PROVE  Inv
<1>1. TypeOK
  BY DEF Init, TypeOK
<1>2. WorkOK
  BY DEF Init, WorkOK, NoPlan, Plan, Importing, Mending
<1>3. Fresh /\ Remembered /\ PathFollowsKind
  BY DEF Init, Fresh, Remembered, PathFollowsKind, Stored, NoPlan, Importing
<1> QED
  BY <1>1, <1>2, <1>3 DEF Inv

LEMMA StutterKeeps ==
  ASSUME Inv, UNCHANGED libraryVars
  PROVE  Inv'
<1>1. RowsEvolve
  BY RowsStay DEF libraryVars, spent, marks
<1>2. DiskTyped
  BY DEF Inv, TypeOK, DiskTyped, libraryVars, files, spent, marks, user
<1>3. Carried
  BY DEF Inv, WorkOK, Carried, Importing, Mending, libraryVars, work
<1> QED
  BY <1>1, <1>2, <1>3, StepKeeps

LEMMA InvHolds == Spec => []Inv
<1>1. Inv /\ [Next]_libraryVars => Inv'
  BY ImportKeeps, MaintenanceKeeps, DeleteBookKeeps, DeleteFileKeeps, AlterFileKeeps,
     CrashKeeps, StutterKeeps DEF Next
<1> QED
  BY <1>1, InitInv, PTL DEF Spec

(* The rows, the books, the folders and the journal are what the schema    *)
(* says, and no book names a row that is gone (foreign keys).              *)
THEOREM LibraryTypes == Spec => []TypeOK
<1>1. Inv => TypeOK
  BY DEF Inv
<1> QED
  BY <1>1, InvHolds, PTL

(* Whatever is edited, renamed, merged, deleted or interrupted, the path a *)
(* row records is the one storage_target gives its artifact, so imports    *)
(* and audits never disagree about where an artifact belongs.              *)
THEOREM ArtifactsInPlace == Spec => []PathFollowsKind
<1>1. Inv => PathFollowsKind
  BY DEF Inv
<1> QED
  BY <1>1, InvHolds, PTL

(* Two rows can own one file in only one way: both verbatim, and recorded  *)
(* with the same bytes.  The canonical artifacts are never shared.         *)
SharedOnlyByBytes ==
  \A i, j \in Stored : i # j /\ rows[i].path = rows[j].path
    => rows[i].kind = "verbatim" /\ rows[j].kind = "verbatim" /\ rows[i].stored = rows[j].stored

THEOREM CanonicalNeverShared == Spec => []SharedOnlyByBytes
<1>1. Inv => SharedOnlyByBytes
  <2> SUFFICES ASSUME Inv, NEW i \in Stored, NEW j \in Stored, i # j, rows[i].path = rows[j].path
               PROVE  /\ rows[i].kind = "verbatim" /\ rows[j].kind = "verbatim"
                      /\ rows[i].stored = rows[j].stored
    BY DEF SharedOnlyByBytes
  <2>1. /\ i \in Ids /\ j \in Ids /\ rows[i] \in Row /\ rows[j] \in Row
        /\ rows[i].path = Target(rows[i].kind, rows[i].stored, i)
        /\ rows[j].path = Target(rows[j].kind, rows[j].stored, j)
    BY RowTyped DEF Inv, PathFollowsKind, Stored
  <2> QED
    BY <2>1, LibraryAssumption DEF Row, Target
<1> QED
  BY <1>1, InvHolds, PTL

-----------------------------------------------------------------------------
(* The user the flags describe: he imports no bytes he wrote over a managed *)
(* file and moves no managed file over another.  Nothing is asked of the   *)
(* application: books are deleted beside imports and audits, and the       *)
(* update that follows a rename may fail.  MCLibrary.cfg runs under these  *)
(* flags; MCLibraryShared.cfg shows what happens without them.             *)
Careful == ~EditsImported /\ ~MovesOver

Live(i) == rows[i] # NoRow
\* No row names a path.
Unowned(p) == \A i \in Stored : rows[i].path # p

(* The rows whose file is not what they say, other than those whose file   *)
(* the late unlink of a deletion took.                                     *)
Hurt == {i \in Damaged : i \notin raced \/ disk[rows[i].path] # "none"}
OneHurt == \A i, j \in Hurt : i = j

\* Bytes that no import brought are bytes the user wrote over a file.
Learnt ==
  /\ edits \in Nat /\ (edited # {} => edits > 0)
  /\ \A i \in Stored :
       /\ rows[i].kind = "verbatim" => rows[i].stored \in {rows[i].source} \cup edited
       /\ disk[rows[i].path] \in {"none", rows[i].stored} \cup edited

FilesTrue == NoSharedFile /\ OneHurt /\ Hurt \subseteq touched /\ Learnt

\* No plan and no deletion outlives the process.
Waits ==
  /\ step \in {"down", "recovering"} => plan = NoPlan /\ unlinks = {}
  /\ step \in {"applying"} \cup Mending => plan.ready

\* What the scan found is neither nothing nor what the row says.
Odd(t) == t.observed \notin {"unread", "none", t.recorded}

(* A plan is made and waits while books are deleted and imported.  What it *)
(* says of a row is true as long as the row is there, and an item with     *)
(* something to repair is then about the one row that is hurt; when the    *)
(* row has gone, nobody owns its path as long as what was scanned is there. *)
PlanTrue == \A t \in plan.items :
  /\ t.path = Target(t.kind, t.recorded, t.id)
  /\ Live(t.id) => t.path = rows[t.id].path /\ t.recorded = rows[t.id].stored
  /\ step = "scanning" /\ ~Live(t.id)
       => Unowned(t.path) /\ disk[t.path] \in {"none", t.recorded} \cup edited
  /\ Odd(t) => /\ t.observed \in edited
               /\ Live(t.id) => Hurt \subseteq {t.id}
               /\ ~Live(t.id) /\ disk[t.path] = t.observed => Unowned(t.path)
  /\ \A u \in plan.items : u.id = t.id => u = t

(* The bytes in hand are nobody's but the source's, and what is published  *)
(* is there, or an unlink has taken it.                                    *)
ImportTrue ==
  /\ step \in Importing =>
       /\ artifact.id \notin unrecorded
       /\ artifact.kind = "verbatim" => artifact.stored = artifact.source
       /\ \A i \in Stored : rows[i].kind = "verbatim" /\ rows[i].stored = artifact.source
            => rows[i].source = artifact.source
       /\ \A j \in journal : Live(j.file) => j.hash # artifact.source
  /\ step \in Importing \ {"copied"} => ~Known(artifact.source)
  /\ step = "published" =>
       disk[Home] = artifact.stored \/ (disk[Home] = "none" /\ artifact.id \in raced)

(* The row in repair: who else could own what is moved, merged or          *)
(* unlinked.  A deletion may have taken the row, or be about to take the   *)
(* file, under the repair.                                                 *)
MendTrue ==
  /\ step \in Mending =>
       /\ \A i \in Stored : rows[i].path = repair.path => i = repair.id
       /\ \A t \in plan.items : t.id # repair.id
       /\ repair.stored \in edited
       /\ \A j \in journal : Live(j.file) =>
            \/ step \in {"renaming", "renamed"} /\ j = Entry(repair)
            \/ j.file \in unrecorded
  /\ step = "merging" /\ Live(repair.twin) =>
       rows[repair.twin].kind = "verbatim" /\ rows[repair.twin].stored = repair.stored
  /\ step \in {"merging", "renaming", "renamed"} /\ Live(repair.id) =>
       /\ rows[repair.id].path = repair.path /\ rows[repair.id].stored # repair.stored
       /\ disk[repair.path] \in {repair.stored, "none"}
       /\ Hurt \subseteq {repair.id} /\ repair.id \notin unrecorded
       /\ \A j \in journal : Live(j.file) => step # "merging" /\ j = Entry(repair)
  /\ step = "unlinking" => Unowned(repair.path)
  /\ step \in {"renaming", "renamed"} =>
       /\ repair.goal = repair.stored /\ repair.goal # repair.path /\ Unowned(repair.goal)
       /\ Entry(repair) \in journal
  /\ step = "renaming" => disk[repair.path] \in {repair.stored, "none"} /\ disk[repair.goal] = "none"
  /\ step = "renamed" => disk[repair.path] = "none" /\ disk[repair.goal] \in {repair.stored, "none"}

\* No item of the plan has anything to repair.
Calm == \A t \in plan.items :
  ~Odd(t) /\ (step = "scanning" => disk[t.path] \in {"none", t.recorded})

(* An entry whose row is there: the row has not moved, nobody else owns    *)
(* the path it is to move to, and its file is in neither place, or a       *)
(* rename or a recovery is about to settle it, or its row could not be     *)
(* updated.                                                                *)
EntryTrue(j) ==
  /\ rows[j.file].path = j.from /\ rows[j.file].stored # j.hash
  /\ j.from # j.to /\ Unowned(j.to) /\ j.to = j.hash /\ j.hash \in edited
  /\ \A k \in journal : Live(k.file) => k = j
  /\ \/ disk[j.from] = "none" /\ disk[j.to] = "none" /\ Hurt \subseteq {j.file} /\ Calm
     \/ step \in {"down", "recovering"} /\ disk[j.from] # "none" /\ disk[j.to] = "none"
     \/ /\ step \in {"down", "recovering"}
        /\ disk[j.from] = "none" /\ disk[j.to] = j.hash /\ Hurt \subseteq {j.file}
     \/ step \in {"renaming", "renamed"} /\ j = Entry(repair)
     \/ /\ j.file \in unrecorded
        /\ disk[j.from] = "none" /\ disk[j.to] \in {"none", j.hash} /\ Hurt \subseteq {j.file}
EntriesTrue == \A j \in journal : Live(j.file) => EntryTrue(j)
\* A row whose update failed has its entry until a start settles it.
Noted == /\ unrecorded \subseteq used
         /\ \A i \in unrecorded : Live(i) => \E j \in journal : j.file = i
JournalTrue == EntriesTrue /\ Noted

Tidy == FilesTrue /\ Waits /\ PlanTrue /\ ImportTrue /\ MendTrue /\ JournalTrue

-----------------------------------------------------------------------------
(* What a step may do to a row: nothing, or leave it sound and alone at    *)
(* its path, or alone without a file and no more hurt than before.         *)
Same(i) ==
  /\ rows[i] # NoRow
  /\ rows'[i].path = rows[i].path /\ rows'[i].stored = rows[i].stored
  /\ rows'[i].source = rows[i].source /\ rows'[i].kind = rows[i].kind
Kept(i) == Same(i) /\ disk'[rows[i].path] = disk[rows[i].path]
Alone(i) ==
  /\ rows'[i].kind = "verbatim" => rows'[i].stored \in {rows'[i].source} \cup edited
  /\ \A k \in Ids : rows'[k] # NoRow /\ rows'[k].path = rows'[i].path => k = i
Renewed(i) == Alone(i) /\ disk'[rows'[i].path] = rows'[i].stored
Spoiled(i) == Alone(i) /\ disk'[rows'[i].path] = "none" /\ (i \in raced' \/ i \in Hurt)

\* A step after which every row is kept, renewed or spoiled.
LEMMA FilesKeep ==
  ASSUME FilesTrue, UNCHANGED user, raced \subseteq raced',
         \A i \in Ids : rows'[i] # NoRow => Kept(i) \/ Renewed(i) \/ Spoiled(i)
  PROVE  FilesTrue' /\ Hurt' \subseteq Hurt
<1>1. ASSUME NEW i \in Hurt'
      PROVE  i \in Hurt
  <2>1. /\ i \in Ids /\ rows'[i] # NoRow /\ disk'[rows'[i].path] # rows'[i].stored
        /\ i \notin raced' \/ disk'[rows'[i].path] # "none"
    BY DEF Hurt, Damaged, Stored, Sound
  <2>2. CASE Kept(i)
    BY <2>1, <2>2 DEF Hurt, Damaged, Stored, Sound, Kept, Same
  <2>3. CASE Renewed(i) \/ Spoiled(i)
    BY <2>1, <2>3 DEF Renewed, Spoiled
  <2> QED
    BY <2>1, <2>2, <2>3
<1>2. NoSharedFile'
  BY DEF FilesTrue, NoSharedFile, Stored, Kept, Same, Renewed, Spoiled, Alone
<1>3. OneHurt' /\ Hurt' \subseteq touched'
  BY <1>1 DEF FilesTrue, OneHurt, user
<1>4. Learnt'
  BY DEF FilesTrue, Learnt, Stored, Kept, Same, Renewed, Spoiled, Alone, user
<1> QED
  BY <1>1, <1>2, <1>3, <1>4 DEF FilesTrue

\* The rows that are there keep their paths, hashes and kinds.
NoNewRow == \A i \in Ids : rows'[i] # NoRow => Same(i)

(* An item whose row has gone: what was scanned lies at its path only      *)
(* while nobody owns it.                                                   *)
LEMMA DeadStays ==
  ASSUME Inv, Inv', Tidy, NEW t \in plan.items, rows'[t.id] = NoRow, Odd(t),
         disk'[t.path] = t.observed,
         \A i \in Ids : rows'[i] # NoRow => Same(i) \/ disk'[rows'[i].path] \in {"none", rows'[i].stored},
         \A p \in Path : disk'[p] \in {disk[p], "none"} \/ Unowned(p)
  PROVE  Unowned(t.path)'
<1> SUFFICES ASSUME NEW i \in Ids, rows'[i] # NoRow, rows'[i].path = t.path
             PROVE  FALSE
  BY DEF Unowned, Stored
<1>1. /\ t \in Item /\ t.path \in Path /\ t.kind \in Kind /\ t.recorded \in Contents
      /\ t.path = Target(t.kind, t.recorded, t.id) /\ t.id # i
  BY ItemFacts DEF Item, Tidy, PlanTrue
<1>2. rows'[i] \in Row /\ rows'[i].path = Target(rows'[i].kind, rows'[i].stored, i)
  BY DEF Inv, TypeOK, PathFollowsKind, Stored
<1>3. rows'[i].stored = t.recorded
  <2>1. CASE t.kind = "canonical"
    <3>1. t.path = t.id /\ t.id \in Ids
      BY <1>1, <2>1 DEF Target, Item
    <3> QED
      BY <1>1, <1>2, <3>1, LibraryAssumption DEF Target, Row
  <2>2. CASE t.kind = "verbatim"
    <3>1. t.path = t.recorded
      BY <1>1, <2>2 DEF Target
    <3> QED
      BY <1>1, <1>2, <3>1, LibraryAssumption DEF Target, Row
  <2> QED
    BY <1>1, <2>1, <2>2 DEF Kind
<1>4. disk'[t.path] # "none" /\ disk'[t.path] # t.recorded
  BY DEF Odd
<1>5. Same(i) /\ i \in Stored /\ rows[i].path = t.path
  BY <1>3, <1>4 DEF Same, Stored
<1>6. disk[t.path] = t.observed
  BY <1>1, <1>4, <1>5 DEF Unowned
<1>7. CASE Live(t.id)
  BY <1>1, <1>5, <1>7 DEF Tidy, PlanTrue, FilesTrue, NoSharedFile, Live, Stored, Item
<1>8. CASE ~Live(t.id)
  BY <1>5, <1>6, <1>8 DEF Tidy, PlanTrue, Unowned
<1> QED
  BY <1>7, <1>8

(* What a plan says stays true when no row is hurt anew and the rows it    *)
(* names are as they were.                                                 *)
LEMMA StepFiles ==
  ASSUME Inv, Inv', Tidy, UNCHANGED user, raced \subseteq raced',
         \A i \in Ids : rows'[i] # NoRow => Kept(i) \/ Renewed(i) \/ Spoiled(i),
         \A p \in Path : disk'[p] \in {disk[p], "none"} \/ Unowned(p),
         plan'.items \subseteq plan.items,
         \A t \in plan'.items : rows'[t.id] # NoRow => Same(t.id),
         step' = "scanning" => /\ step = "scanning" /\ NoNewRow
                               /\ \A p \in Path : disk'[p] \in {disk[p], "none"}
  PROVE  FilesTrue' /\ Hurt' \subseteq Hurt /\ PlanTrue'
<1>1. FilesTrue' /\ Hurt' \subseteq Hurt
  BY FilesKeep DEF Tidy
<1> SUFFICES ASSUME NEW t \in plan'.items
             PROVE  /\ t.path = Target(t.kind, t.recorded, t.id)
                    /\ rows'[t.id] # NoRow => t.path = rows'[t.id].path /\ t.recorded = rows'[t.id].stored
                    /\ step' = "scanning" /\ rows'[t.id] = NoRow
                         => Unowned(t.path)' /\ disk'[t.path] \in {"none", t.recorded} \cup edited'
                    /\ Odd(t) => /\ t.observed \in edited'
                                 /\ rows'[t.id] # NoRow => Hurt' \subseteq {t.id}
                                 /\ rows'[t.id] = NoRow /\ disk'[t.path] = t.observed => Unowned(t.path)'
                    /\ \A u \in plan'.items : u.id = t.id => u = t
  BY <1>1 DEF PlanTrue, Live, Odd
<1>2. t \in plan.items /\ t \in Item /\ t.path \in Path
  BY ItemFacts DEF Item
<1>3. /\ t.path = Target(t.kind, t.recorded, t.id)
      /\ rows'[t.id] # NoRow => t.path = rows'[t.id].path /\ t.recorded = rows'[t.id].stored
      /\ \A u \in plan'.items : u.id = t.id => u = t
  BY <1>2 DEF Tidy, PlanTrue, Live, Same
<1>4. ASSUME step' = "scanning", rows'[t.id] = NoRow
      PROVE  Unowned(t.path)' /\ disk'[t.path] \in {"none", t.recorded} \cup edited'
  <2>1. step = "scanning" /\ NoNewRow /\ disk'[t.path] \in {disk[t.path], "none"} /\ edited' = edited
    BY <1>2, <1>4 DEF user
  <2>2. CASE Live(t.id)
    <3>1. t.id \in Stored /\ rows[t.id].path = t.path /\ rows[t.id].stored = t.recorded
      BY <1>2, <2>2 DEF Tidy, PlanTrue, Live, Stored, Item
    <3>2. disk[t.path] \in {"none", t.recorded} \cup edited
      BY <3>1 DEF Tidy, FilesTrue, Learnt
    <3>3. \A i \in Ids : rows'[i] # NoRow => rows'[i].path # t.path
      BY <1>4, <2>1, <3>1 DEF NoNewRow, Same, Stored, Tidy, FilesTrue, NoSharedFile
    <3> QED
      BY <2>1, <3>2, <3>3 DEF Unowned, Stored
  <2>3. CASE ~Live(t.id)
    <3>1. Unowned(t.path) /\ disk[t.path] \in {"none", t.recorded} \cup edited
      BY <1>2, <2>1, <2>3 DEF Tidy, PlanTrue
    <3>2. \A i \in Ids : rows'[i] # NoRow => rows'[i].path # t.path
      BY <2>1, <3>1 DEF NoNewRow, Same, Unowned, Stored
    <3> QED
      BY <2>1, <3>1, <3>2 DEF Unowned, Stored
  <2> QED
    BY <2>2, <2>3
<1>5. ASSUME Odd(t)
      PROVE  /\ t.observed \in edited'
             /\ rows'[t.id] # NoRow => Hurt' \subseteq {t.id}
             /\ rows'[t.id] = NoRow /\ disk'[t.path] = t.observed => Unowned(t.path)'
  <2>1. t.observed \in edited' /\ (rows'[t.id] # NoRow => Hurt' \subseteq {t.id})
    BY <1>1, <1>2, <1>5 DEF Tidy, PlanTrue, Live, Same, user
  <2>2. \A i \in Ids : rows'[i] # NoRow => Same(i) \/ disk'[rows'[i].path] \in {"none", rows'[i].stored}
    BY DEF Kept, Renewed, Spoiled
  <2> QED
    BY <1>2, <1>5, <2>1, <2>2, DeadStays
<1> QED
  BY <1>3, <1>4, <1>5

\* An import in hand is undisturbed where its own file and row are.
LEMMA ImportStays ==
  ASSUME Inv, Tidy, NoNewRow, journal' \subseteq journal, raced \subseteq raced',
         step' \in Importing => /\ step \in Importing
                                /\ artifact'.id = artifact.id /\ unrecorded' = unrecorded
                                /\ artifact'.source = artifact.source
                                /\ artifact'.kind = "verbatim" => artifact' = artifact
                                /\ step' # "copied" => step # "copied",
         step' = "published" => /\ step = "published" /\ artifact' = artifact
                                /\ disk'[Home] = disk[Home]
                                     \/ (disk'[Home] = "none" /\ artifact.id \in raced')
  PROVE  ImportTrue'
<1>1. step' \in Importing =>
       /\ artifact'.id \notin unrecorded'
       /\ artifact'.kind = "verbatim" => artifact'.stored = artifact'.source
       /\ \A i \in Stored' : rows'[i].kind = "verbatim" /\ rows'[i].stored = artifact'.source
            => rows'[i].source = artifact'.source
  BY DEF Tidy, ImportTrue, NoNewRow, Same, Stored
<1>2. step' \in Importing => \A j \in journal' : rows'[j.file] # NoRow => j.hash # artifact'.source
  BY DEF Inv, TypeOK, Rename, Tidy, ImportTrue, Live, NoNewRow, Same
<1>3. (step' \in Importing \ {"copied"} => ~Known(artifact.source)')
  BY DEF Tidy, ImportTrue, Known, NoNewRow, Same, Stored
<1>4. step' = "published" => disk'[Home'] = artifact'.stored \/ (disk'[Home'] = "none" /\ artifact'.id \in raced')
  BY DEF Tidy, ImportTrue, Home
<1> QED
  BY <1>1, <1>2, <1>3, <1>4 DEF ImportTrue, Live

\* A path that no row names gets no row from a step that makes none.
LEMMA UnownedStays ==
  ASSUME NoNewRow, NEW p, Unowned(p)
  PROVE  Unowned(p)'
BY DEF NoNewRow, Same, Unowned, Stored

\* A plan with nothing to repair stays one when files only go.
LEMMA CalmStays ==
  ASSUME Inv, Calm, plan'.items \subseteq plan.items,
         step' = "scanning" => /\ step = "scanning"
                               /\ \A p \in Path : disk'[p] \in {disk[p], "none"}
  PROVE  Calm'
BY ItemFacts DEF Calm, Odd, Item

\* What an entry of the journal says while files only go.
LEMMA EntriesStay ==
  ASSUME Inv, Tidy, NoNewRow, journal' \subseteq journal, edited' = edited, Hurt' \subseteq Hurt,
         \A j \in journal' : rows'[j.file] # NoRow /\ disk[j.from] = "none" /\ Hurt \subseteq {j.file} /\ Calm => Calm',
         step \in {"renaming", "renamed"} => step' = step /\ repair' = repair,
         \A j \in journal' : rows'[j.file] # NoRow =>
           /\ disk'[j.from] \in {disk[j.from], "none"} /\ disk'[j.to] \in {disk[j.to], "none"}
           /\ j.file \in unrecorded => j.file \in unrecorded',
         step \in {"down", "recovering"} => UNCHANGED disk,
         step \in {"down", "recovering"} /\ step' \notin {"down", "recovering"}
           => \A j \in journal' : rows'[j.file] # NoRow =>
                disk[j.from] = "none" /\ disk[j.to] = "none"
  PROVE  EntriesTrue'
<1> SUFFICES ASSUME NEW j \in journal', rows'[j.file] # NoRow
             PROVE  EntryTrue(j)'
  BY DEF EntriesTrue, Live
<1>1. j \in journal /\ j.file \in Ids /\ Same(j.file) /\ rows[j.file] # NoRow
  BY DEF Inv, TypeOK, Rename, NoNewRow, Same
<1>2. EntryTrue(j)
  BY <1>1 DEF Tidy, JournalTrue, EntriesTrue, Live
<1>3. Unowned(j.to)'
  BY <1>2, UnownedStays DEF EntryTrue
<1>4. \A k \in journal' : rows'[k.file] # NoRow => k = j
  <2>1. \A k \in journal' : k \in journal /\ k.file \in Ids
    BY DEF Inv, TypeOK, Rename
  <2> QED
    BY <1>2, <2>1 DEF EntryTrue, Live, NoNewRow, Same
<1>5. /\ rows'[j.file].path = j.from /\ rows'[j.file].stored # j.hash
      /\ j.from # j.to /\ j.to = j.hash /\ j.hash \in edited'
  BY <1>1, <1>2 DEF EntryTrue, Same
<1>6. \/ disk'[j.from] = "none" /\ disk'[j.to] = "none" /\ Hurt' \subseteq {j.file} /\ Calm'
      \/ step' \in {"down", "recovering"} /\ disk'[j.from] # "none" /\ disk'[j.to] = "none"
      \/ /\ step' \in {"down", "recovering"}
         /\ disk'[j.from] = "none" /\ disk'[j.to] = j.hash /\ Hurt' \subseteq {j.file}
      \/ step' \in {"renaming", "renamed"} /\ j = Entry(repair')
      \/ /\ j.file \in unrecorded'
         /\ disk'[j.from] = "none" /\ disk'[j.to] \in {"none", j.hash} /\ Hurt' \subseteq {j.file}
  <2>1. CASE disk[j.from] = "none" /\ disk[j.to] = "none" /\ Hurt \subseteq {j.file} /\ Calm
    BY <2>1
  <2>2. CASE step \in {"down", "recovering"} /\ disk[j.from] # "none" /\ disk[j.to] = "none"
    BY <2>2
  <2>3. CASE /\ step \in {"down", "recovering"}
             /\ disk[j.from] = "none" /\ disk[j.to] = j.hash /\ Hurt \subseteq {j.file}
    <3>1. j.hash # "none"
      BY <1>2, LibraryAssumption DEF Inv, TypeOK, Rename
    <3> QED
      BY <2>3, <3>1
  <2>4. CASE step \in {"renaming", "renamed"} /\ j = Entry(repair)
    BY <2>4
  <2>5. CASE /\ j.file \in unrecorded
             /\ disk[j.from] = "none" /\ disk[j.to] \in {"none", j.hash} /\ Hurt \subseteq {j.file}
    BY <2>5
  <2> QED
    BY <1>2, <2>1, <2>2, <2>3, <2>4, <2>5 DEF EntryTrue
<1> QED
  BY <1>3, <1>4, <1>5, <1>6 DEF EntryTrue, Live, Entry

\* An entry outside of a rename and a recovery.
LEMMA EntryRests ==
  ASSUME Inv, Tidy, NEW j \in journal, Live(j.file), step \notin {"down", "recovering"},
         j.file \in unrecorded \/ step \notin {"renaming", "renamed"},
         step \in {"renaming", "renamed"} => j # Entry(repair)
  PROVE  /\ disk[j.from] = "none" /\ disk[j.to] \in {"none", j.hash} /\ Hurt \subseteq {j.file}
         /\ j.file \in unrecorded \/ (disk[j.to] = "none" /\ Calm)
BY DEF Tidy, JournalTrue, EntriesTrue, EntryTrue

\* The journal and what it knows of failed updates are as they were.
LEMMA NotedStays ==
  ASSUME Inv, Tidy, NoNewRow, UNCHANGED <<journal, unrecorded>>, used \subseteq used'
  PROVE  Noted'
BY DEF Tidy, JournalTrue, Noted, Live, NoNewRow, Same, Inv, TypeOK

\* A step that moves the control only.
LEMMA QuietKeeps ==
  ASSUME Inv, Tidy, UNCHANGED <<rows, disk, user, raced>>
  PROVE  FilesTrue' /\ Hurt' = Hurt /\ NoNewRow
BY DEF Tidy, FilesTrue, NoSharedFile, OneHurt, Learnt, Hurt, Damaged, Stored, Sound,
       NoNewRow, Same, user

-----------------------------------------------------------------------------
\* Imports.
Elsewhere == {"idle", "batch"} \cup Importing

\* The steps of an import that leave rows and folder alone.
LEMMA ImportQuiet ==
  ASSUME Inv, Tidy, UNCHANGED <<db, disk, plan, unlinks, user, marks>>, used \subseteq used',
         step \in Elsewhere, step' \in Elsewhere, ImportTrue'
  PROVE  Tidy'
<1>1. FilesTrue' /\ Hurt' = Hurt /\ NoNewRow
  BY QuietKeeps DEF db, user, marks
<1>2. step \notin {"renaming", "renamed", "down", "recovering", "scanning", "applying"} \cup Mending
  BY DEF Elsewhere, Importing, Mending
<1>3. step' \notin {"renaming", "renamed", "down", "recovering", "scanning", "applying"} \cup Mending
  BY DEF Elsewhere, Importing, Mending
<1>4. Waits'
  BY <1>3 DEF Waits
<1>5. PlanTrue'
  BY <1>1, <1>3 DEF Tidy, PlanTrue, Live, Odd, Unowned, Stored, db, user
<1>6. MendTrue'
  BY <1>3 DEF MendTrue, Mending
<1>7. JournalTrue'
  BY <1>1, <1>2, <1>3, CalmStays, EntriesStay, NotedStays DEF JournalTrue, db, user, marks
<1> QED
  BY <1>1, <1>4, <1>5, <1>6, <1>7 DEF Tidy

\* The bytes copied are those of a source.
LEMMA CopyTidy ==
  ASSUME Inv, Tidy, Careful, NEW i \in Ids, NEW c \in Sources, ImportCopy(i, c)
  PROVE  Tidy'
<1>1. /\ step = "batch" /\ step' = "copied" /\ c \notin edited /\ i \notin used /\ used' = used \cup {i}
      /\ artifact' = [id |-> i, source |-> c, stored |-> c, kind |-> "verbatim", created |-> FALSE]
      /\ UNCHANGED <<db, disk, repair, plan, unlinks, user, marks>>
  BY DEF ImportCopy, Careful
<1>2. \A k \in Stored : rows[k].kind = "verbatim" /\ rows[k].stored = c => rows[k].source = c
  BY <1>1 DEF Tidy, FilesTrue, Learnt
<1>3. \A j \in journal : Live(j.file) => j.hash # c
  BY <1>1 DEF Tidy, JournalTrue, EntriesTrue, EntryTrue
<1>4. i \notin unrecorded
  BY <1>1 DEF Tidy, JournalTrue, Noted
<1>5. ImportTrue'
  BY <1>1, <1>2, <1>3, <1>4 DEF ImportTrue, Importing, Stored, Live, db, marks
<1> QED
  BY <1>1, <1>5, ImportQuiet DEF Elsewhere, Importing

\* A batch begins.
LEMMA StartTidy ==
  ASSUME Inv, Tidy, ImportStart
  PROVE  Tidy'
<1>1. step = "idle" /\ step' = "batch" /\ UNCHANGED <<db, disk, plan, unlinks, user, marks, used>>
  BY DEF ImportStart, Free, work, spent
<1>2. ImportTrue'
  BY <1>1 DEF ImportTrue, Importing
<1> QED
  BY <1>1, <1>2, ImportQuiet DEF Elsewhere

\* An import that gives up.
LEMMA DroppedTidy ==
  ASSUME Inv, Tidy, ImportStops \/ ImportRaises \/ ImportRefused \/ ImportEnd
  PROVE  Tidy'
<1>1. /\ step \in Elsewhere \ {"idle"} /\ step' \in {"idle", "batch"}
      /\ UNCHANGED <<db, disk, plan, unlinks, user, marks, used>>
  BY DEF ImportStops, ImportRaises, ImportRefused, ImportEnd, Dropped, Elsewhere, Importing,
         spent, work, files
<1>2. ImportTrue'
  BY <1>1 DEF ImportTrue, Importing
<1> QED
  BY <1>1, <1>2, ImportQuiet DEF Elsewhere

\* The artifact is what the source or its conversion holds.
LEMMA StagedTidy ==
  ASSUME Inv, Tidy, ImportAccept \/ ImportVerbatim \/ ImportConvert \/ ImportUnconverted \/ ImportConverted
  PROVE  Tidy'
<1>1. /\ step \in Importing /\ step' \in Importing \ {"copied", "published"}
      /\ UNCHANGED <<db, disk, plan, unlinks, user, marks, used>>
      /\ step = "copied" => ~Known(artifact.source)
      /\ artifact'.source = artifact.source /\ artifact'.id = artifact.id
      /\ artifact'.kind = "verbatim" => artifact' = artifact
  <2>1. CASE ImportConverted
    <3>1. artifact \in Draft
      BY <2>1, DraftHome DEF ImportConverted, Importing
    <3> QED
      BY <2>1, <3>1 DEF ImportConverted, Importing, Draft, spent
  <2> QED
    BY <2>1 DEF ImportAccept, ImportVerbatim, ImportConvert, ImportUnconverted, Importing,
                spent, work, files
<1>2. ImportTrue'
  <2>1. step' \in Importing =>
         /\ artifact'.id \notin unrecorded
         /\ artifact'.kind = "verbatim" => artifact'.stored = artifact'.source
         /\ \A i \in Stored : rows[i].kind = "verbatim" /\ rows[i].stored = artifact'.source
              => rows[i].source = artifact'.source
         /\ \A j \in journal : Live(j.file) => j.hash # artifact'.source
    BY <1>1 DEF Tidy, ImportTrue
  <2>2. ~Known(artifact'.source)
    BY <1>1 DEF Tidy, ImportTrue
  <2> QED
    BY <1>1, <2>1, <2>2 DEF ImportTrue, Stored, Live, Known, db, marks
<1> QED
  BY <1>1, <1>2, ImportQuiet DEF Elsewhere, Importing

\* Nobody owns the path an import publishes at, and no entry is about it.
LEMMA HomeUnowned ==
  ASSUME Inv, Tidy, step \in Importing \ {"copied"}
  PROVE  /\ Unowned(Home) /\ Home \in Path
         /\ \A j \in journal : Live(j.file) => j.from # Home /\ j.to # Home
<1>1. artifact \in Draft /\ Home \in Path /\ Home = Target(artifact.kind, artifact.stored, artifact.id)
  BY DraftHome
<1>2. rows[artifact.id] = NoRow /\ ~Known(artifact.source)
  BY DEF Inv, Fresh, Tidy, ImportTrue
<1>3. \A i \in Stored : rows[i].path # Home
  <2> SUFFICES ASSUME NEW i \in Stored, rows[i].path = Home
               PROVE  FALSE
    OBVIOUS
  <2>1. i \in Ids /\ rows[i] # NoRow /\ rows[i] \in Row /\ rows[i].path = Target(rows[i].kind, rows[i].stored, i)
    BY RowTyped DEF Stored, Inv, PathFollowsKind
  <2>2. CASE artifact.kind = "canonical"
    BY <1>1, <1>2, <2>1, <2>2, LibraryAssumption DEF Target, Row, Draft
  <2>3. CASE artifact.kind = "verbatim"
    <3>1. Home = artifact.source /\ artifact.source \in Contents
      BY <1>1, <2>3, LibraryAssumption DEF Target, Draft, Tidy, ImportTrue
    <3>2. rows[i].kind = "verbatim" /\ rows[i].stored = artifact.source
      BY <2>1, <3>1, LibraryAssumption DEF Target, Row
    <3>3. rows[i].source = artifact.source
      BY <3>2 DEF Tidy, ImportTrue
    <3> QED
      BY <1>2, <3>3 DEF Known
  <2> QED
    BY <1>1, <2>2, <2>3 DEF Draft, Kind
<1>4. ASSUME NEW j \in journal, Live(j.file)
      PROVE  j.from # Home /\ j.to # Home
  <2>1. j \in Rename /\ rows[j.file].path = j.from /\ j.to = j.hash /\ j.file \in Stored
    BY <1>4 DEF Inv, TypeOK, Rename, Tidy, JournalTrue, EntriesTrue, EntryTrue, Stored, Live
  <2>2. j.hash # artifact.source /\ j.hash \in Contents
    BY <1>4, <2>1 DEF Tidy, ImportTrue, Rename
  <2>3. artifact.kind = "verbatim" => Home = artifact.source
    BY <1>1 DEF Target, Tidy, ImportTrue
  <2>4. artifact.kind = "canonical" => Home \in Ids
    BY <1>1 DEF Target, Draft
  <2> QED
    BY <1>1, <1>3, <2>1, <2>2, <2>3, <2>4, LibraryAssumption DEF Draft, Kind
<1> QED
  BY <1>1, <1>3, <1>4 DEF Unowned

\* The steps that write or take back the artifact.
LEMMA HomeKeeps ==
  ASSUME Inv, Inv', Tidy, UNCHANGED <<db, plan, unlinks, user, marks, used>>,
         step \in Importing \ {"copied"}, step' \in {"batch", "published"},
         \A p \in Path \ {Home} : disk'[p] = disk[p],
         ImportTrue'
  PROVE  Tidy'
<1>1. /\ Unowned(Home) /\ Home \in Path
      /\ \A j \in journal : Live(j.file) => j.from # Home /\ j.to # Home
  BY HomeUnowned
<1>2. \A i \in Ids : rows'[i] # NoRow => Kept(i)
  BY <1>1, RowTyped DEF Kept, Same, Unowned, Stored, Row, db
<1>3. NoNewRow
  BY <1>2 DEF NoNewRow, Kept
<1>4. /\ step \notin {"renaming", "renamed", "down", "recovering", "scanning", "idle"}
      /\ step' \notin {"renaming", "renamed", "down", "recovering", "scanning", "applying"} \cup Mending
  BY DEF Importing, Mending
<1>5. FilesTrue' /\ Hurt' \subseteq Hurt /\ PlanTrue'
  <2>1. \A t \in plan'.items : rows'[t.id] # NoRow => Same(t.id)
    BY ItemFacts DEF Same, db, Item
  <2>2. \A p \in Path : disk'[p] \in {disk[p], "none"} \/ Unowned(p)
    BY <1>1
  <2> QED
    BY <1>2, <1>4, <2>1, <2>2, StepFiles DEF marks
<1>6. Waits'
  BY <1>4 DEF Waits
<1>7. MendTrue'
  BY <1>4 DEF MendTrue
<1>8. JournalTrue'
  <2>1. \A j \in journal' : rows'[j.file] # NoRow => disk'[j.from] = disk[j.from] /\ disk'[j.to] = disk[j.to]
    BY <1>1 DEF Inv, TypeOK, Rename, Live, db
  <2> QED
    BY <1>3, <1>4, <1>5, <2>1, CalmStays, EntriesStay, NotedStays DEF JournalTrue, db, user, marks
<1> QED
  BY <1>5, <1>6, <1>7, <1>8 DEF Tidy

\* The artifact is published where no row has its file.
LEMMA PublishTidy ==
  ASSUME Inv, Inv', Tidy, ImportPublish
  PROVE  Tidy'
<1>1. /\ step = "staged" /\ step' = "published"
      /\ disk' = [disk EXCEPT ![Home] = artifact.stored]
      /\ artifact' = [artifact EXCEPT !.created = disk[Home] = "none"]
      /\ UNCHANGED <<db, plan, unlinks, user, marks, used>>
  BY DEF ImportPublish, spent
<1>2. artifact \in Draft /\ Home \in Path
  BY <1>1, DraftHome DEF Importing
<1>3. /\ artifact'.source = artifact.source /\ artifact'.stored = artifact.stored
      /\ artifact'.kind = artifact.kind /\ artifact'.id = artifact.id
  BY <1>1, <1>2 DEF Draft
<1>4. disk'[Home] = artifact.stored /\ \A p \in Path \ {Home} : disk'[p] = disk[p]
  BY <1>1, <1>2 DEF Inv, TypeOK
<1>5. ImportTrue'
  <2>1. disk'[Home'] = artifact'.stored
    BY <1>3, <1>4 DEF Home
  <2>2. /\ artifact'.id \notin unrecorded'
        /\ artifact'.kind = "verbatim" => artifact'.stored = artifact'.source
        /\ \A i \in Stored' : rows'[i].kind = "verbatim" /\ rows'[i].stored = artifact'.source
             => rows'[i].source = artifact'.source
        /\ \A j \in journal' : rows'[j.file] # NoRow => j.hash # artifact'.source
    BY <1>1, <1>3 DEF Tidy, ImportTrue, Importing, Live, Stored, db, marks
  <2>3. ~Known(artifact.source)'
    BY <1>1, <1>3 DEF Tidy, ImportTrue, Importing, Known, Stored, db
  <2> QED
    BY <2>1, <2>2, <2>3 DEF ImportTrue, Live
<1> QED
  BY <1>1, <1>4, <1>5, HomeKeeps DEF Importing

\* A row that cannot be inserted takes its published file with it.
LEMMA InsertFailsTidy ==
  ASSUME Inv, Inv', Tidy, ImportInsertFails
  PROVE  Tidy'
<1>1. /\ step = "published" /\ step' = "batch"
      /\ UNCHANGED <<db, plan, unlinks, user, marks, used>>
      /\ \A p \in Path \ {Home} : disk'[p] = disk[p]
  BY DEF ImportInsertFails, spent, Inv, TypeOK
<1>2. ImportTrue'
  BY <1>1 DEF ImportTrue, Importing
<1> QED
  BY <1>1, <1>2, HomeKeeps DEF Importing

(* The row inserted names the file that was published for it, if the       *)
(* unlink of a deletion has left it there.                                 *)
LEMMA InsertTidy ==
  ASSUME Inv, Inv', Tidy, ImportInsert
  PROVE  Tidy'
<1> DEFINE i == artifact.id
<1>1. /\ step = "published" /\ step' = "batch"
      /\ rows' = [rows EXCEPT ![artifact.id] =
           [path |-> Home, source |-> artifact.source, stored |-> artifact.stored,
            kind |-> artifact.kind, state |-> "healthy"]]
      /\ UNCHANGED <<journal, disk, plan, unlinks, user, marks, used>>
  BY DEF ImportInsert, files, spent
<1>2. /\ artifact \in Draft /\ i \in Ids /\ rows[i] = NoRow /\ i \notin unrecorded
      /\ disk[Home] = artifact.stored \/ (disk[Home] = "none" /\ i \in raced)
  BY <1>1, DraftHome DEF Draft, Inv, Fresh, Tidy, ImportTrue, Importing
<1>3. /\ Unowned(Home) /\ Home \in Path
      /\ \A j \in journal : Live(j.file) => j.from # Home /\ j.to # Home
  BY <1>1, HomeUnowned DEF Importing
<1>4. /\ rows'[i].path = Home /\ rows'[i].stored = artifact.stored /\ rows'[i].kind = artifact.kind
      /\ rows'[i].source = artifact.source
      /\ \A k \in Ids \ {i} : rows'[k] = rows[k]
  BY <1>1, <1>2 DEF Inv, TypeOK
<1>5. artifact.kind = "verbatim" => artifact.stored = artifact.source
  BY <1>1 DEF Tidy, ImportTrue, Importing
<1> HIDE DEF i
<1>6. Alone(i)
  BY <1>3, <1>4, <1>5 DEF Alone, Unowned, Stored
<1>7. Renewed(i) \/ Spoiled(i)
  BY <1>1, <1>2, <1>4, <1>6 DEF Renewed, Spoiled, marks
<1>8. \A k \in Ids : rows'[k] # NoRow => k = i \/ Kept(k)
  BY <1>1, <1>4 DEF Kept, Same
<1>9. \A t \in plan.items : t \in Item /\ t.id \in Ids /\ t.id # i
  BY <1>1 DEF Inv, Fresh, Importing, i, WorkOK, Plan, Item
<1>10. \A j \in journal : j \in Rename /\ j.file \in Ids /\ j.file # i
  BY <1>1 DEF Inv, Fresh, Importing, i, TypeOK, Rename
<1>11. FilesTrue' /\ Hurt' \subseteq Hurt /\ PlanTrue'
  <2>1. \A t \in plan'.items : rows'[t.id] # NoRow => Same(t.id)
    BY <1>1, <1>8, <1>9 DEF Kept
  <2> QED
    BY <1>1, <1>7, <1>8, <2>1, StepFiles DEF marks
<1>12. Waits'
  BY <1>1 DEF Waits, Mending
<1>13. ImportTrue' /\ MendTrue'
  BY <1>1 DEF ImportTrue, MendTrue, Importing, Mending
<1>14. EntriesTrue'
  <2> SUFFICES ASSUME NEW j \in journal, rows'[j.file] # NoRow
               PROVE  EntryTrue(j)'
    BY <1>1 DEF EntriesTrue, Live
  <2>1. j.file # i /\ rows'[j.file] = rows[j.file] /\ Live(j.file) /\ EntryTrue(j)
    BY <1>4, <1>10 DEF Live, Tidy, JournalTrue, EntriesTrue
  <2>2. Unowned(j.to)'
    BY <1>3, <1>4, <2>1 DEF Unowned, Stored, EntryTrue
  <2>3. \A k \in journal : rows'[k.file] # NoRow => k = j
    BY <1>4, <1>10, <2>1 DEF Live, EntryTrue
  <2>4. Calm => Calm'
    BY <1>1, CalmStays
  <2> QED
    BY <1>1, <1>11, <2>1, <2>2, <2>3, <2>4 DEF EntryTrue, Live, user, marks
<1>15. Noted'
  BY <1>1, <1>2, <1>4 DEF Tidy, JournalTrue, Noted, Live, marks, Inv, TypeOK
<1> QED
  BY <1>11, <1>12, <1>13, <1>14, <1>15 DEF Tidy, JournalTrue

-----------------------------------------------------------------------------
\* Audits and recoveries.
\* An audit reads the rows.
LEMMA ScanRowsTidy ==
  ASSUME Inv, Tidy, ScanRows
  PROVE  Tidy'
<1>1. /\ step = "idle" /\ step' = "scanning"
      /\ UNCHANGED <<db, files, unlinks, user, marks, used>>
      /\ plan' = [NoPlan EXCEPT !.items =
           {[id |-> i, path |-> rows[i].path, recorded |-> rows[i].stored, kind |-> rows[i].kind,
             healthy |-> rows[i].state = "healthy", observed |-> "unread"] : i \in Stored}]
  BY DEF ScanRows, Free
<1>2. plan'.items = {[id |-> i, path |-> rows[i].path, recorded |-> rows[i].stored, kind |-> rows[i].kind,
             healthy |-> rows[i].state = "healthy", observed |-> "unread"] : i \in Stored}
  BY <1>1 DEF NoPlan
<1>3. \A t \in plan'.items : /\ t.id \in Stored /\ t.path = rows[t.id].path /\ t.recorded = rows[t.id].stored
                             /\ t.kind = rows[t.id].kind /\ t.observed = "unread"
                             /\ t = [id |-> t.id, path |-> rows[t.id].path, recorded |-> rows[t.id].stored,
                                     kind |-> rows[t.id].kind, healthy |-> rows[t.id].state = "healthy",
                                     observed |-> "unread"]
  BY <1>2
<1>4. FilesTrue' /\ Hurt' = Hurt /\ NoNewRow
  BY <1>1, QuietKeeps DEF db, files, user, marks
<1>5. Waits'
  BY <1>1 DEF Waits, Mending
<1>6. PlanTrue'
  BY <1>1, <1>3 DEF PlanTrue, Odd, Live, Stored, Inv, PathFollowsKind, db
<1>7. ImportTrue' /\ MendTrue'
  BY <1>1 DEF ImportTrue, MendTrue, Importing, Mending
<1>8. ASSUME NEW j \in journal, Live(j.file), disk[j.from] = "none", Hurt \subseteq {j.file}
      PROVE  Calm'
  <2>1. rows[j.file].path = j.from
    BY <1>8 DEF Tidy, JournalTrue, EntriesTrue, EntryTrue
  <2>2. \A t \in plan'.items : disk[t.path] \in {"none", t.recorded}
    BY <1>3, <1>8, <2>1 DEF Hurt, Damaged, Sound
  <2> QED
    BY <1>1, <1>3, <2>2 DEF Calm, Odd, files
<1>9. JournalTrue'
  BY <1>1, <1>4, <1>8, EntriesStay, NotedStays DEF JournalTrue, db, files, user, marks, Live
<1> QED
  BY <1>4, <1>5, <1>6, <1>7, <1>9 DEF Tidy

\* An audit hashes their files.
LEMMA ScanFilesTidy ==
  ASSUME Inv, Tidy, ScanFiles
  PROVE  Tidy'
<1>1. /\ step = "scanning" /\ step' = "idle" /\ UNCHANGED <<db, files, unlinks, user, marks, used>>
      /\ plan'.items = {[t EXCEPT !.observed = disk[t.path]] : t \in plan.items}
  BY DEF ScanFiles, spent
<1>2. FilesTrue' /\ NoNewRow /\ Hurt' = Hurt
  BY <1>1, QuietKeeps DEF db, files, user, marks
<1>3. ASSUME NEW t \in plan.items, NEW u, u = [t EXCEPT !.observed = disk[t.path]]
      PROVE  /\ u.id = t.id /\ u.path = t.path /\ u.kind = t.kind /\ u.recorded = t.recorded
             /\ u.observed = disk[t.path]
             /\ Odd(u) => /\ u.observed \in edited
                          /\ Live(t.id) => Hurt \subseteq {t.id}
                          /\ ~Live(t.id) => Unowned(t.path)
  <2>1. t \in Item /\ t.id \in Ids
    BY ItemFacts DEF Item
  <2>2. u.id = t.id /\ u.path = t.path /\ u.kind = t.kind /\ u.recorded = t.recorded /\ u.observed = disk[t.path]
    BY <1>3, <2>1 DEF Item
  <2>3. CASE Live(t.id)
    <3>1. t.id \in Stored /\ t.path = rows[t.id].path /\ t.recorded = rows[t.id].stored
      BY <2>1, <2>3 DEF Tidy, PlanTrue, Live, Stored
    <3>2. Odd(u) => t.id \in Hurt
      BY <2>2, <3>1 DEF Hurt, Damaged, Sound, Odd
    <3> QED
      BY <2>2, <2>3, <3>1, <3>2 DEF Tidy, FilesTrue, OneHurt, Learnt, Odd
  <2>4. CASE ~Live(t.id)
    BY <1>1, <2>2, <2>4 DEF Tidy, PlanTrue, Odd
  <2> QED
    BY <2>2, <2>3, <2>4
<1>4. Waits'
  BY <1>1 DEF Waits, Mending
<1>5. PlanTrue'
  <2> SUFFICES ASSUME NEW u \in plan'.items
               PROVE  /\ u.path = Target(u.kind, u.recorded, u.id)
                      /\ rows'[u.id] # NoRow => u.path = rows'[u.id].path /\ u.recorded = rows'[u.id].stored
                      /\ Odd(u) => /\ u.observed \in edited'
                                   /\ rows'[u.id] # NoRow => Hurt' \subseteq {u.id}
                                   /\ rows'[u.id] = NoRow /\ disk'[u.path] = u.observed => Unowned(u.path)'
                      /\ \A v \in plan'.items : v.id = u.id => v = u
    BY <1>1 DEF PlanTrue, Live, Odd
  <2>1. PICK t \in plan.items : u = [t EXCEPT !.observed = disk[t.path]]
    BY <1>1
  <2>2. /\ u.id = t.id /\ u.path = t.path /\ u.kind = t.kind /\ u.recorded = t.recorded
        /\ Odd(u) => /\ u.observed \in edited
                     /\ Live(t.id) => Hurt \subseteq {t.id}
                     /\ ~Live(t.id) => Unowned(t.path)
    BY <1>3, <2>1
  <2>3. \A v \in plan'.items : v.id = u.id => v = u
    <3> SUFFICES ASSUME NEW v \in plan'.items, v.id = u.id
                 PROVE  v = u
      OBVIOUS
    <3>1. PICK s \in plan.items : v = [s EXCEPT !.observed = disk[s.path]]
      BY <1>1
    <3>2. v.id = s.id
      BY <1>3, <3>1
    <3> QED
      BY <2>1, <2>2, <3>1, <3>2 DEF Tidy, PlanTrue
  <2> QED
    BY <1>1, <1>2, <2>2, <2>3 DEF Tidy, PlanTrue, Live, Unowned, Stored, db, user
<1>6. ImportTrue' /\ MendTrue'
  BY <1>1 DEF ImportTrue, MendTrue, Importing, Mending
<1>7. Calm => Calm'
  <2> SUFFICES ASSUME Calm, NEW u \in plan'.items
               PROVE  ~Odd(u)
    BY <1>1 DEF Calm, Odd
  <2>1. PICK t \in plan.items : u = [t EXCEPT !.observed = disk[t.path]]
    BY <1>1
  <2>2. u.recorded = t.recorded /\ u.observed = disk[t.path]
    BY <1>3, <2>1
  <2> QED
    BY <1>1, <2>2 DEF Calm, Odd
<1>8. JournalTrue'
  BY <1>1, <1>2, <1>7, EntriesStay, NotedStays DEF JournalTrue, db, files, user, marks
<1> QED
  BY <1>2, <1>4, <1>5, <1>6, <1>8 DEF Tidy

\* The plan is dropped, taken up, or loses an item that asks for nothing.
LEMMA PlanOnlyTidy ==
  ASSUME Inv, Inv', Tidy,
         DropPlan \/ ApplyStart \/ (\E t \in plan.items : ItemSkipped(t))
  PROVE  Tidy'
<1>1. /\ step \in {"idle", "applying"} /\ step' \in {"idle", "applying"}
      /\ UNCHANGED <<db, files, unlinks, user, marks, used>>
      /\ step' = "applying" => plan'.ready
      /\ plan'.items \subseteq plan.items
  <2>1. CASE DropPlan
    BY <2>1 DEF DropPlan, NoPlan, spent
  <2>2. CASE ApplyStart
    BY <2>2 DEF ApplyStart, Free, spent, work
  <2>3. CASE \E t \in plan.items : ItemSkipped(t)
    BY <2>3 DEF ItemSkipped, Quick, spent, Inv, WorkOK, Plan, Tidy, Waits
  <2> QED
    BY <2>1, <2>2, <2>3
<1>2. FilesTrue' /\ NoNewRow /\ Hurt' = Hurt
  BY <1>1, QuietKeeps DEF db, files, user, marks
<1>3. Waits'
  BY <1>1 DEF Waits, Mending
<1>4. PlanTrue'
  BY <1>1, <1>2 DEF Tidy, PlanTrue, Odd, Live, Unowned, Stored, db, files, user
<1>5. ImportTrue' /\ MendTrue'
  BY <1>1 DEF ImportTrue, MendTrue, Importing, Mending
<1>6. JournalTrue'
  BY <1>1, <1>2, CalmStays, EntriesStay, NotedStays DEF JournalTrue, db, files, user, marks
<1> QED
  BY <1>2, <1>3, <1>4, <1>5, <1>6 DEF Tidy

\* The process starts again.
LEMMA RestartTidy ==
  ASSUME Inv, Tidy, Restart
  PROVE  Tidy'
<1>1. /\ step = "down" /\ step' = "recovering" /\ UNCHANGED <<db, files, plan, unlinks, user, marks, used>>
  BY DEF Restart, work, spent
<1>2. FilesTrue' /\ NoNewRow /\ Hurt' = Hurt
  BY <1>1, QuietKeeps DEF db, files, user, marks
<1>3. Waits' /\ PlanTrue'
  BY <1>1 DEF Tidy, Waits, PlanTrue, NoPlan, Mending
<1>4. ImportTrue' /\ MendTrue'
  BY <1>1 DEF ImportTrue, MendTrue, Importing, Mending
<1>5. JournalTrue'
  BY <1>1, <1>2, CalmStays, EntriesStay, NotedStays DEF JournalTrue, db, files, user, marks
<1> QED
  BY <1>2, <1>3, <1>4, <1>5 DEF Tidy

\* Recovery has settled the journal.
LEMMA RecoveredTidy ==
  ASSUME Inv, Tidy, Recovered
  PROVE  Tidy'
<1>1. /\ step = "recovering" /\ step' = "idle" /\ UNCHANGED <<db, files, plan, unlinks, user, marks, used>>
      /\ \A j \in journal : ~Undone(j) /\ ~Done(j)
  BY DEF Recovered, work, spent
<1>2. FilesTrue' /\ NoNewRow /\ Hurt' = Hurt
  BY <1>1, QuietKeeps DEF db, files, user, marks
<1>3. Waits' /\ PlanTrue'
  BY <1>1 DEF Tidy, Waits, PlanTrue, NoPlan, Mending
<1>4. ImportTrue' /\ MendTrue'
  BY <1>1 DEF ImportTrue, MendTrue, Importing, Mending
<1>5. \A j \in journal : Live(j.file) => disk[j.from] = "none" /\ disk[j.to] = "none"
  BY <1>1 DEF Tidy, JournalTrue, EntriesTrue, EntryTrue, Undone, Done, Live
<1>6. JournalTrue'
  BY <1>1, <1>2, <1>5, CalmStays, EntriesStay, NotedStays DEF JournalTrue, db, files, user, marks, Live
<1> QED
  BY <1>2, <1>3, <1>4, <1>6 DEF Tidy

\* A crash leaves rows, files and journal, and no plan.
LEMMA CrashTidy ==
  ASSUME Inv, Tidy, Crash
  PROVE  Tidy'
<1>1. /\ step' = "down" /\ plan' = NoPlan /\ unlinks' = {} /\ UNCHANGED <<db, files, user, marks, used>>
  BY DEF Crash
<1>2. FilesTrue' /\ NoNewRow /\ Hurt' = Hurt
  BY <1>1, QuietKeeps DEF db, files, user, marks
<1>3. Waits' /\ PlanTrue' /\ Calm'
  BY <1>1 DEF Waits, PlanTrue, Calm, NoPlan, Mending
<1>4. ImportTrue' /\ MendTrue'
  BY <1>1 DEF ImportTrue, MendTrue, Importing, Mending
<1>5. ASSUME NEW j \in journal, Live(j.file)
      PROVE  \/ disk[j.from] = "none" /\ disk[j.to] = "none" /\ Hurt \subseteq {j.file}
             \/ disk[j.from] # "none" /\ disk[j.to] = "none"
             \/ disk[j.from] = "none" /\ disk[j.to] = j.hash /\ Hurt \subseteq {j.file}
  <2>1. EntryTrue(j)
    BY <1>5 DEF Tidy, JournalTrue, EntriesTrue
  <2>2. CASE step \in {"renaming", "renamed"} /\ j = Entry(repair)
    <3>1. j.file = repair.id /\ j.from = repair.path /\ j.to = repair.goal /\ j.hash = repair.stored
      BY <2>2 DEF Entry
    <3> QED
      BY <1>5, <2>2, <3>1 DEF Tidy, MendTrue
  <2> QED
    BY <2>1, <2>2 DEF EntryTrue
<1>6. EntriesTrue'
  <2> SUFFICES ASSUME NEW j \in journal, Live(j.file)
               PROVE  EntryTrue(j)'
    BY <1>1 DEF EntriesTrue, Live, db
  <2>1. EntryTrue(j)
    BY DEF Tidy, JournalTrue, EntriesTrue
  <2> QED
    BY <1>1, <1>2, <1>3, <1>5, <2>1 DEF EntryTrue, Live, Unowned, Stored, db, files, user
<1>7. Noted'
  BY <1>1, <1>2, NotedStays DEF db, marks
<1> QED
  BY <1>2, <1>3, <1>4, <1>6, <1>7 DEF Tidy, JournalTrue

(* An item with something to repair: the row it is about is the one that   *)
(* is hurt, nobody else owns its file, and no entry waits but for rows     *)
(* whose update failed.                                                    *)
LEMMA ChangedFacts ==
  ASSUME Inv, Tidy, step = "applying", NEW t \in plan.items, Changed(t)
  PROVE  /\ t \in Item /\ t.id \in Ids /\ t.path \in Path
         /\ t.observed \in Contents /\ t.observed \in edited /\ t.observed # t.recorded
         /\ disk[t.path] = t.observed
         /\ Live(t.id) => /\ rows[t.id].path = t.path /\ rows[t.id].stored = t.recorded
                          /\ rows[t.id].kind = t.kind
                          /\ Hurt \subseteq {t.id} /\ t.id \notin unrecorded
                          /\ \A j \in journal : ~Live(j.file)
         /\ \A i \in Stored : rows[i].path = t.path => i = t.id
         /\ \A j \in journal : Live(j.file) =>
              /\ j.file \in unrecorded /\ Hurt \subseteq {j.file}
              /\ disk[j.from] = "none" /\ disk[j.to] \in {"none", j.hash}
         /\ Goal(t) # t.path => t.kind = "verbatim" /\ Goal(t) = t.observed
         /\ Goal(t) = t.path => t.kind = "canonical"
         /\ t.kind = "verbatim" /\ Twins(t) = {} => Unowned(t.observed)
<1>1. /\ t \in Item /\ t.id \in Ids /\ t.path \in Path /\ t.kind \in Kind
      /\ disk[t.path] = t.observed /\ t.observed \in Contents /\ t.observed # t.recorded
  BY ItemFacts DEF Item, Changed, Valid, Unmoved, Now
<1>2. Odd(t)
  BY <1>1, LibraryAssumption DEF Odd
<1>3. /\ t.observed \in edited /\ t.path = Target(t.kind, t.recorded, t.id)
      /\ Live(t.id) => Hurt \subseteq {t.id}
      /\ ~Live(t.id) => Unowned(t.path)
  BY <1>1, <1>2 DEF Tidy, PlanTrue
<1>4. Live(t.id) => /\ rows[t.id].path = t.path /\ rows[t.id].stored = t.recorded
                    /\ rows[t.id].kind = t.kind
  BY ItemFacts DEF Tidy, PlanTrue, Live
<1>5. \A i \in Stored : i \in Ids /\ rows[i] \in Row /\ rows[i].path = Target(rows[i].kind, rows[i].stored, i)
  BY RowTyped DEF Stored, Inv, PathFollowsKind
<1>6. \A i \in Stored : rows[i].path = t.path => i = t.id
  BY <1>1, <1>3, <1>4 DEF Unowned, Tidy, FilesTrue, NoSharedFile, Live, Stored
<1>7. ASSUME NEW j \in journal, Live(j.file)
      PROVE  /\ j.file \in unrecorded /\ Hurt \subseteq {j.file} /\ ~Live(t.id)
             /\ disk[j.from] = "none" /\ disk[j.to] \in {"none", j.hash}
  <2>1. /\ disk[j.from] = "none" /\ disk[j.to] \in {"none", j.hash} /\ Hurt \subseteq {j.file}
        /\ j.file \in unrecorded
    BY <1>2, <1>7, EntryRests DEF Calm
  <2>2. ASSUME Live(t.id)
        PROVE  FALSE
    <3>1. t.id \in Hurt
      BY <1>1, <1>4, <2>2, LibraryAssumption DEF Hurt, Damaged, Stored, Sound, Live
    <3>2. j.file = t.id /\ rows[j.file].path = j.from
      BY <1>7, <2>1, <3>1 DEF Tidy, JournalTrue, EntriesTrue, EntryTrue
    <3> QED
      BY <1>1, <1>4, <2>1, <2>2, <3>2, LibraryAssumption
  <2> QED
    BY <2>1, <2>2
<1>8. Live(t.id) => t.id \notin unrecorded
  BY <1>7 DEF Tidy, JournalTrue, Noted
<1>9. /\ Goal(t) # t.path => t.kind = "verbatim" /\ Goal(t) = t.observed
      /\ Goal(t) = t.path => t.kind = "canonical"
  BY <1>1, <1>3 DEF Goal, Target, Kind
<1>10. ASSUME t.kind = "verbatim", Twins(t) = {}, NEW i \in Stored, rows[i].path = t.observed
       PROVE  FALSE
  <2>1. rows[i].kind = "verbatim" /\ rows[i].stored = t.observed
    BY <1>1, <1>5, <1>10, LibraryAssumption DEF Target, Row
  <2>2. i # t.id
    BY <1>1, <1>4, <1>10, <2>1 DEF Live, Stored
  <2> QED
    BY <1>10, <2>1, <2>2 DEF Twins
<1> QED
  BY <1>1, <1>3, <1>4, <1>6, <1>7, <1>8, <1>9, <1>10 DEF Unowned

\* What every item keeps.
LEMMA ItemLeaves ==
  ASSUME Inv, Inv', Tidy, NEW t \in plan.items, Quick(t), UNCHANGED <<disk, unlinks, user, marks>>,
         step' \in {"applying"} \cup Mending,
         \A i \in Ids : rows'[i] # NoRow => Kept(i) \/ (i = t.id /\ (Renewed(i) \/ Spoiled(i)))
  PROVE  /\ FilesTrue' /\ Hurt' \subseteq Hurt
         /\ Waits' /\ PlanTrue' /\ ImportTrue' /\ step = "applying" /\ plan'.ready
         /\ plan'.items = plan.items \ {t} /\ \A u \in plan'.items : u.id # t.id
<1>1. /\ step = "applying" /\ plan'.items = plan.items \ {t} /\ plan'.ready = plan.ready
  BY DEF Quick, Inv, WorkOK, Plan
<1>2. \A u \in plan'.items : u.id # t.id /\ u.id \in Ids
  BY <1>1 DEF Tidy, PlanTrue, Inv, WorkOK, Plan, Item
<1>3. step' \notin {"scanning", "down", "recovering"} \cup Importing
  BY DEF Importing, Mending
<1>4. FilesTrue' /\ Hurt' \subseteq Hurt /\ PlanTrue'
  <2>1. \A u \in plan'.items : rows'[u.id] # NoRow => Same(u.id)
    BY <1>2 DEF Kept
  <2> QED
    BY <1>1, <1>3, <2>1, StepFiles DEF marks
<1>5. Waits' /\ plan'.ready
  BY <1>1, <1>3 DEF Tidy, Waits
<1>6. ImportTrue'
  BY <1>3 DEF ImportTrue, Importing
<1> QED
  BY <1>1, <1>2, <1>4, <1>5, <1>6

\* The entries that wait are not about the row of an item to repair.
LEMMA ItemEntries ==
  ASSUME Inv, Tidy, step = "applying", NEW t \in plan.items, Changed(t), plan'.items \subseteq plan.items,
         UNCHANGED <<journal, disk, user, marks, used>>, step' \in {"applying"} \cup Mending,
         Hurt' \subseteq Hurt,
         \A k \in Ids \ {t.id} : rows'[k] = rows[k],
         \A k \in Ids : rows'[k] # NoRow => rows[k] # NoRow
  PROVE  /\ JournalTrue' /\ \A j \in journal' : rows'[j.file] # NoRow => j.file \in unrecorded'
<1>1. /\ t.id \in Ids /\ (Live(t.id) => \A j \in journal : ~Live(j.file))
      /\ \A j \in journal : Live(j.file) => j.file \in unrecorded
  BY ChangedFacts
<1>2. \A j \in journal : j \in Rename /\ j.file \in Ids
  BY DEF Inv, TypeOK, Rename
<1>3. step' \notin {"scanning", "down", "recovering"}
  BY DEF Mending
<1>4. CASE Live(t.id)
  BY <1>1, <1>2, <1>4 DEF Tidy, JournalTrue, EntriesTrue, Noted, Live, marks, Inv, TypeOK
<1>5. CASE ~Live(t.id)
  <2>1. NoNewRow
    BY <1>1, <1>5 DEF NoNewRow, Same, Live
  <2> QED
    BY <1>1, <1>2, <1>3, <2>1, CalmStays, EntriesStay, NotedStays DEF JournalTrue, Live, user, marks
<1> QED
  BY <1>4, <1>5

\* A row is marked unhealthy or missing.
LEMMA MarkedTidy ==
  ASSUME Inv, Inv', Tidy, NEW t \in plan.items, ItemMarked(t)
  PROVE  Tidy'
<1>1. /\ Quick(t) /\ step = "applying" /\ step' = "applying" /\ UNCHANGED <<journal, disk, unlinks, user, marks, used>>
      /\ \E state \in States : rows' = Marked(t.id, state)
  BY DEF ItemMarked, Quick, States, files, spent
<1>2. \A i \in Ids : rows'[i] # NoRow => Kept(i)
  <2> SUFFICES ASSUME NEW i \in Ids, rows'[i] # NoRow
               PROVE  Kept(i)
    OBVIOUS
  <2>1. PICK state \in States : rows' = Marked(t.id, state)
    BY <1>1
  <2>2. rows[i] # NoRow
    BY <2>1 DEF Marked, Inv, TypeOK
  <2>3. rows[i] \in Row
    BY <2>2, RowTyped
  <2> QED
    BY <1>1, <2>1, <2>2, <2>3 DEF Kept, Same, Marked, Row, Inv, TypeOK
<1>3. /\ FilesTrue' /\ Hurt' \subseteq Hurt /\ Waits' /\ PlanTrue' /\ ImportTrue'
      /\ plan'.items \subseteq plan.items
  BY <1>1, <1>2, ItemLeaves
<1>4. MendTrue'
  BY <1>1 DEF MendTrue, Mending
<1>5. NoNewRow
  BY <1>2 DEF NoNewRow, Kept
<1>6. JournalTrue'
  BY <1>1, <1>3, <1>5, CalmStays, EntriesStay, NotedStays DEF JournalTrue, user, marks
<1> QED
  BY <1>3, <1>4, <1>6 DEF Tidy

\* What _update_changed_file leaves.
LEMMA UpdatedRows ==
  ASSUME Inv, NEW i \in Ids, NEW stored, NEW path, rows' = Updated(i, stored, path), UNCHANGED disk
  PROVE  /\ \A k \in Ids \ {i} : rows'[k] # NoRow => Kept(k)
         /\ \A k \in Ids : rows'[k] # NoRow => rows[k] # NoRow
         /\ \A k \in Ids \ {i} : rows'[k] = rows[k]
         /\ rows[i] # NoRow => /\ rows'[i].path = path /\ rows'[i].stored = stored
                               /\ rows'[i].kind = rows[i].kind /\ rows'[i].source = rows[i].source
<1>1. CASE rows[i] = NoRow
  BY <1>1 DEF Updated, Kept, Same
<1>2. CASE rows[i] # NoRow
  <2>1. rows[i] \in Row
    BY <1>2, RowTyped
  <2>2. rows' = [rows EXCEPT ![i].path = path, ![i].stored = stored, ![i].state = "healthy"]
    BY <1>2 DEF Updated
  <2>3. /\ \A k \in Ids \ {i} : rows'[k] = rows[k]
        /\ rows'[i] = [rows[i] EXCEPT !.path = path, !.stored = stored, !.state = "healthy"]
    BY <2>2 DEF Inv, TypeOK
  <2> QED
    BY <1>2, <2>1, <2>3 DEF Row, Kept, Same
<1> QED
  BY <1>1, <1>2

(* The row that catches up with its file is alone and sound again, unless  *)
(* the file has gone meanwhile.                                            *)
LEMMA UpdatedRenews ==
  ASSUME Inv, Tidy, NEW i \in Ids, NEW stored, NEW path, rows' = Updated(i, stored, path),
         UNCHANGED <<disk, user, raced>>, stored \in edited,
         Live(i) /\ disk[path] # stored => disk[path] = "none" /\ i \in Damaged,
         \A k \in Stored : rows[k].path = path => k = i
  PROVE  \A k \in Ids : rows'[k] # NoRow => Kept(k) \/ (k = i /\ (Renewed(k) \/ Spoiled(k)))
<1>1. /\ \A k \in Ids \ {i} : rows'[k] # NoRow => Kept(k)
      /\ \A k \in Ids : rows'[k] # NoRow => rows[k] # NoRow
      /\ \A k \in Ids \ {i} : rows'[k] = rows[k]
      /\ rows[i] # NoRow => /\ rows'[i].path = path /\ rows'[i].stored = stored
                            /\ rows'[i].kind = rows[i].kind /\ rows'[i].source = rows[i].source
  BY UpdatedRows
<1>2. rows'[i] # NoRow => Alone(i)
  BY <1>1 DEF Alone, Stored
<1>3. i \in Damaged => i \in raced \/ i \in Hurt
  BY DEF Hurt
<1>4. rows'[i] # NoRow => Renewed(i) \/ Spoiled(i)
  BY <1>1, <1>2, <1>3 DEF Renewed, Spoiled, Live
<1> QED
  BY <1>1, <1>4

\* A row takes the bytes of the file that lies at its own path.
LEMMA InPlaceTidy ==
  ASSUME Inv, Inv', Tidy, NEW t \in plan.items, ItemInPlace(t)
  PROVE  Tidy'
<1>1. /\ Quick(t) /\ Changed(t) /\ Goal(t) = t.path /\ step = "applying" /\ step' = "applying"
      /\ rows' = Updated(t.id, t.observed, t.path)
      /\ UNCHANGED <<journal, disk, unlinks, user, marks, used>>
  BY DEF ItemInPlace, Quick, files, spent
<1>2. /\ t.id \in Ids /\ t.observed \in edited /\ disk[t.path] = t.observed
      /\ \A i \in Stored : rows[i].path = t.path => i = t.id
  BY <1>1, ChangedFacts
<1>3. \A i \in Ids : rows'[i] # NoRow => Kept(i) \/ (i = t.id /\ (Renewed(i) \/ Spoiled(i)))
  BY <1>1, <1>2, UpdatedRenews DEF user, marks
<1>4. /\ FilesTrue' /\ Hurt' \subseteq Hurt /\ Waits' /\ PlanTrue' /\ ImportTrue'
      /\ plan'.items \subseteq plan.items
  BY <1>1, <1>3, ItemLeaves
<1>5. /\ \A i \in Ids : rows'[i] # NoRow => rows[i] # NoRow
      /\ \A k \in Ids \ {t.id} : rows'[k] = rows[k]
  BY <1>1, <1>2, UpdatedRows
<1>6. MendTrue'
  BY <1>1 DEF MendTrue, Mending
<1>7. JournalTrue'
  BY <1>1, <1>4, <1>5, ItemEntries
<1> QED
  BY <1>4, <1>6, <1>7 DEF Tidy

\* An item of the plan that needs no rename.
LEMMA AdoptsTidy ==
  ASSUME Inv, Inv', Tidy, NEW t \in plan.items, ItemAdopts(t)
  PROVE  Tidy'
<1>1. /\ Quick(t) /\ Changed(t) /\ Twins(t) = {} /\ Goal(t) # t.path /\ disk[Goal(t)] = t.observed
      /\ step = "applying" /\ step' = "unlinking" /\ repair' = Repairing(t, "none")
      /\ rows' = Updated(t.id, t.observed, Goal(t))
      /\ UNCHANGED <<journal, disk, unlinks, user, marks, used>>
  BY DEF ItemAdopts, Quick, files, spent
<1>2. /\ t.id \in Ids /\ t.observed \in edited /\ Goal(t) = t.observed /\ Unowned(t.observed)
      /\ Live(t.id) => rows[t.id].path = t.path
      /\ \A i \in Stored : rows[i].path = t.path => i = t.id
  BY <1>1, ChangedFacts
<1>3. \A i \in Ids : rows'[i] # NoRow => Kept(i) \/ (i = t.id /\ (Renewed(i) \/ Spoiled(i)))
  BY <1>1, <1>2, UpdatedRenews DEF user, marks, Unowned
<1>4. /\ FilesTrue' /\ Hurt' \subseteq Hurt /\ Waits' /\ PlanTrue' /\ ImportTrue'
      /\ plan'.items \subseteq plan.items /\ \A u \in plan'.items : u.id # t.id
  BY <1>1, <1>3, ItemLeaves DEF Mending
<1>5. /\ \A i \in Ids : rows'[i] # NoRow => rows[i] # NoRow
      /\ \A k \in Ids \ {t.id} : rows'[k] = rows[k]
      /\ rows[t.id] # NoRow => rows'[t.id].path = Goal(t)
  BY <1>1, <1>2, UpdatedRows
<1>6. repair'.id = t.id /\ repair'.path = t.path /\ repair'.stored = t.observed
  BY <1>1 DEF Repairing
<1>7. Unowned(repair.path)'
  BY <1>1, <1>2, <1>5, <1>6 DEF Unowned, Stored
<1>8. JournalTrue' /\ \A j \in journal' : rows'[j.file] # NoRow => j.file \in unrecorded'
  BY <1>1, <1>4, <1>5, ItemEntries DEF Mending
<1>9. MendTrue'
  BY <1>1, <1>2, <1>4, <1>6, <1>7, <1>8 DEF MendTrue, Unowned, Live, user
<1> QED
  BY <1>4, <1>8, <1>9 DEF Tidy

\* An item whose bytes another row already has.
LEMMA TwinTidy ==
  ASSUME Inv, Inv', Tidy, NEW t \in plan.items, ItemTwin(t)
  PROVE  Tidy'
<1>1. /\ Quick(t) /\ Changed(t) /\ step = "applying" /\ step' = "merging"
      /\ UNCHANGED <<rows, journal, disk, unlinks, user, marks, used>>
  BY DEF ItemTwin, Quick, db, files, spent
<1>2. PICK i \in Twins(t) : repair' = Repairing(t, i)
  BY DEF ItemTwin
<1>3. /\ rows[i] # NoRow /\ rows[i].kind = "verbatim" /\ rows[i].stored = t.observed
  BY <1>2 DEF Twins, Stored
<1>4. /\ t.id \in Ids /\ disk[t.path] = t.observed /\ t.observed # t.recorded /\ t.observed \in edited
      /\ Live(t.id) => /\ rows[t.id].path = t.path /\ rows[t.id].stored = t.recorded
                       /\ Hurt \subseteq {t.id} /\ t.id \notin unrecorded
                       /\ \A j \in journal : ~Live(j.file)
      /\ \A k \in Stored : rows[k].path = t.path => k = t.id
  BY <1>1, ChangedFacts
<1>5. \A k \in Ids : rows'[k] # NoRow => Kept(k)
  BY <1>1 DEF Kept, Same
<1>6. /\ FilesTrue' /\ Hurt' \subseteq Hurt /\ Waits' /\ PlanTrue' /\ ImportTrue'
      /\ plan'.items \subseteq plan.items /\ \A u \in plan'.items : u.id # t.id
  BY <1>1, <1>5, ItemLeaves DEF Mending
<1>7. /\ repair'.id = t.id /\ repair'.path = t.path /\ repair'.stored = t.observed /\ repair'.twin = i
  BY <1>2 DEF Repairing
<1>8. JournalTrue' /\ \A j \in journal' : rows'[j.file] # NoRow => j.file \in unrecorded'
  BY <1>1, <1>6, ItemEntries DEF Mending
<1>9. MendTrue'
  BY <1>1, <1>3, <1>4, <1>6, <1>7, <1>8 DEF MendTrue, Live, Stored, user, marks
<1> QED
  BY <1>6, <1>8, <1>9 DEF Tidy

\* An item whose rename is entered in the journal.
LEMMA JournalledTidy ==
  ASSUME Inv, Inv', Tidy, NEW t \in plan.items, ItemJournalled(t)
  PROVE  Tidy'
<1>1. /\ Quick(t) /\ Changed(t) /\ Twins(t) = {} /\ Goal(t) # t.path /\ disk[Goal(t)] = "none"
      /\ step = "applying" /\ step' = "renaming" /\ repair' = Repairing(t, "none")
      /\ journal' = journal \cup {Entry(repair')}
      /\ UNCHANGED <<rows, disk, unlinks, user, marks, used>>
  BY DEF ItemJournalled, Quick, files, spent
<1>2. /\ t.id \in Ids /\ disk[t.path] = t.observed /\ t.observed # t.recorded
      /\ Goal(t) = t.observed /\ Unowned(t.observed) /\ t.observed \in edited
      /\ Live(t.id) => /\ rows[t.id].path = t.path /\ rows[t.id].stored = t.recorded
                       /\ Hurt \subseteq {t.id} /\ t.id \notin unrecorded
                       /\ \A j \in journal : ~Live(j.file)
      /\ \A k \in Stored : rows[k].path = t.path => k = t.id
      /\ \A j \in journal : Live(j.file) =>
           /\ j.file \in unrecorded /\ Hurt \subseteq {j.file}
           /\ disk[j.from] = "none" /\ disk[j.to] \in {"none", j.hash}
  BY <1>1, ChangedFacts
<1>3. \A k \in Ids : rows'[k] # NoRow => Kept(k)
  BY <1>1 DEF Kept, Same
<1>4. /\ FilesTrue' /\ Hurt' \subseteq Hurt /\ Waits' /\ PlanTrue' /\ ImportTrue'
      /\ \A u \in plan'.items : u.id # t.id
  BY <1>1, <1>3, ItemLeaves DEF Mending
<1>5. /\ repair'.id = t.id /\ repair'.path = t.path /\ repair'.stored = t.observed
      /\ repair'.goal = t.observed
  BY <1>1, <1>2 DEF Repairing
<1>6. /\ Entry(repair') \in journal'
      /\ \A j \in journal' : rows'[j.file] # NoRow => \/ j = Entry(repair') \/ j.file \in unrecorded
      /\ Live(t.id) => \A j \in journal' : rows'[j.file] # NoRow => j = Entry(repair')
  BY <1>1, <1>2 DEF Live
<1>7. /\ Entry(repair').file = t.id /\ Entry(repair').from = t.path /\ Entry(repair').to = t.observed
      /\ Entry(repair').hash = t.observed
  BY <1>5 DEF Entry
<1>8. Unowned(repair.goal)' /\ Unowned(t.observed)'
  BY <1>1, <1>2, <1>5 DEF Unowned, Stored
<1>9. MendTrue'
  BY <1>1, <1>2, <1>4, <1>5, <1>6, <1>8 DEF MendTrue, Live, Stored, user, marks, Entry
<1>10. EntriesTrue'
  <2> SUFFICES ASSUME NEW j \in journal', rows'[j.file] # NoRow
               PROVE  EntryTrue(j)'
    BY DEF EntriesTrue, Live
  <2>1. CASE j = Entry(repair')
    <3>1. /\ rows'[j.file].path = j.from /\ rows'[j.file].stored # j.hash
          /\ j.from # j.to /\ j.to = j.hash /\ j.hash \in edited'
          /\ Unowned(j.to)' /\ Live(t.id)
      BY <1>1, <1>2, <1>7, <1>8, <2>1 DEF Live, user, Unowned, Stored
    <3> QED
      BY <1>1, <1>6, <2>1, <3>1 DEF EntryTrue, Live, Entry
  <2>2. CASE j # Entry(repair')
    <3>1. /\ j \in journal /\ Live(j.file) /\ EntryTrue(j) /\ ~Live(t.id)
          /\ j.file \in unrecorded /\ Hurt \subseteq {j.file}
          /\ disk[j.from] = "none" /\ disk[j.to] \in {"none", j.hash}
      BY <1>1, <1>2, <2>2 DEF Live, Tidy, JournalTrue, EntriesTrue
    <3>2. \A k \in journal' : rows'[k.file] # NoRow => k = j
      BY <1>1, <1>7, <3>1 DEF EntryTrue, Live
    <3> QED
      BY <1>1, <1>4, <3>1, <3>2 DEF EntryTrue, Live, user, marks, Unowned, Stored
  <2> QED
    BY <2>1, <2>2
<1>11. Noted'
  BY <1>1 DEF Tidy, JournalTrue, Noted, Live, marks
<1> QED
  BY <1>4, <1>9, <1>10, <1>11 DEF Tidy, JournalTrue

-----------------------------------------------------------------------------
\* The repair of one row, after its item.
LEMMA MergeTidy ==
  ASSUME Inv, Inv', Tidy, Merge
  PROVE  Tidy'
<1>1. /\ step = "merging" /\ step' \in {"unlinking", "applying"}
      /\ step' = "unlinking" => repair' = repair /\ rows' = [rows EXCEPT ![repair.id] = NoRow]
      /\ step' = "applying" => rows' = rows
      /\ UNCHANGED <<journal, disk, plan, unlinks, user, marks, used>>
  BY DEF Merge, files, spent
<1>2. /\ repair \in Job /\ repair.id \in Ids /\ repair.stored \in edited
      /\ \A i \in Stored : rows[i].path = repair.path => i = repair.id
      /\ \A t \in plan.items : t.id # repair.id
      /\ \A j \in journal : j \in Rename /\ j.file \in Ids /\ (Live(j.file) => j.file \in unrecorded)
  BY <1>1 DEF Inv, WorkOK, TypeOK, Tidy, MendTrue, Mending, Job, Rename
<1>3. \A i \in Ids : rows'[i] # NoRow => rows'[i] = rows[i]
  BY <1>1, <1>2 DEF Inv, TypeOK
<1>4. (\A i \in Ids : rows'[i] # NoRow => Kept(i)) /\ NoNewRow
  BY <1>1, <1>3 DEF Kept, Same, NoNewRow
<1>5. FilesTrue' /\ Hurt' \subseteq Hurt /\ PlanTrue'
  <2>1. \A t \in plan'.items : rows'[t.id] # NoRow => Same(t.id)
    BY <1>1, <1>4, ItemFacts DEF Kept, Item
  <2> QED
    BY <1>1, <1>4, <2>1, StepFiles DEF marks
<1>6. Waits'
  BY <1>1 DEF Tidy, Waits, Mending
<1>7. ImportTrue'
  BY <1>1 DEF ImportTrue, Importing
<1>8. \A j \in journal' : rows'[j.file] # NoRow => j.file \in unrecorded'
  BY <1>1, <1>2, <1>3 DEF Live, marks
<1>9. step' = "unlinking" => Unowned(repair.path)' /\ \A i \in Stored' : rows'[i].path = repair'.path => i = repair'.id
  BY <1>1, <1>2, <1>3 DEF Unowned, Stored, Inv, TypeOK
<1>10. MendTrue'
  BY <1>1, <1>2, <1>8, <1>9 DEF MendTrue, Mending, Live, user
<1>11. JournalTrue'
  BY <1>1, <1>4, <1>5, CalmStays, EntriesStay, NotedStays DEF JournalTrue, user, marks
<1> QED
  BY <1>5, <1>6, <1>7, <1>10, <1>11 DEF Tidy

\* Steps that end a repair or a sweep, the rows as they were.
LEMMA MendEnds ==
  ASSUME Inv, Inv', Tidy, UNCHANGED <<rows, unlinks, user, raced>>, plan'.items \subseteq plan.items,
         step \in {"applying"} \cup Mending, step' \in {"applying", "idle"},
         step' = "applying" => plan'.ready,
         \A i \in Ids : rows'[i] # NoRow => Kept(i),
         \A p \in Path : disk'[p] \in {disk[p], "none"},
         JournalTrue'
  PROVE  Tidy'
<1>1. FilesTrue' /\ Hurt' \subseteq Hurt /\ PlanTrue'
  <2>1. \A t \in plan'.items : rows'[t.id] # NoRow => Same(t.id)
    BY ItemFacts DEF Kept, Item
  <2> QED
    BY <2>1, StepFiles
<1>2. Waits'
  BY DEF Waits, Mending
<1>3. ImportTrue' /\ MendTrue'
  BY DEF ImportTrue, MendTrue, Importing, Mending
<1> QED
  BY <1>1, <1>2, <1>3 DEF Tidy

\* The file of a merged row is unlinked.
LEMMA UnlinkOldTidy ==
  ASSUME Inv, Inv', Tidy, UnlinkOld
  PROVE  Tidy'
<1>1. /\ step = "unlinking" /\ step' = "applying" /\ UNCHANGED <<rows, journal, plan, unlinks, user, marks, used>>
      /\ disk' \in {disk, [disk EXCEPT ![repair.path] = "none"]}
  BY DEF UnlinkOld, Repaired, db, spent
<1>2. /\ Unowned(repair.path) /\ plan.ready
      /\ \A p \in Path : disk'[p] = disk[p] \/ (disk'[p] = "none" /\ p = repair.path)
  BY <1>1 DEF Tidy, MendTrue, Mending, Waits, Inv, TypeOK
<1>3. (\A i \in Ids : rows'[i] # NoRow => Kept(i)) /\ NoNewRow
  BY <1>1, <1>2, RowTyped DEF Kept, Same, Unowned, Stored, Row, NoNewRow
<1>4. Hurt' \subseteq Hurt
  BY <1>1, <1>3, FilesKeep DEF Tidy, marks
<1>5. JournalTrue'
  <2>1. \A j \in journal' : j.from \in Path /\ j.to \in Path
    BY <1>1 DEF Inv, TypeOK, Rename
  <2> QED
    BY <1>1, <1>2, <1>3, <1>4, <2>1, CalmStays, EntriesStay, NotedStays DEF JournalTrue, user, marks
<1> QED
  BY <1>1, <1>2, <1>3, <1>5, MendEnds DEF Mending, marks

\* Files that no row names are swept.
LEMMA SweepTidy ==
  ASSUME Inv, Inv', Tidy, Sweep
  PROVE  Tidy'
<1>1. /\ step = "applying" /\ step' = "idle" /\ plan' = NoPlan
      /\ UNCHANGED <<rows, journal, unlinks, user, marks, used>>
      /\ \E gone \in {{}, plan.orphans \ Referenced} :
           disk' = [p \in Path |-> IF p \in gone THEN "none" ELSE disk[p]]
  BY DEF Sweep, db, spent
<1>2. \A p \in Path : disk'[p] = disk[p] \/ (disk'[p] = "none" /\ p \notin Referenced)
  BY <1>1
<1>3. (\A i \in Ids : rows'[i] # NoRow => Kept(i)) /\ NoNewRow
  BY <1>1, <1>2, RowTyped DEF Kept, Same, Referenced, Stored, Row, NoNewRow
<1>4. Hurt' \subseteq Hurt
  BY <1>1, <1>3, FilesKeep DEF Tidy, marks
<1>5. plan'.items \subseteq plan.items
  BY <1>1 DEF NoPlan
<1>6. JournalTrue'
  <2>1. \A j \in journal' : j.from \in Path /\ j.to \in Path
    BY <1>1 DEF Inv, TypeOK, Rename
  <2> QED
    BY <1>1, <1>2, <1>3, <1>4, <1>5, <2>1, CalmStays, EntriesStay, NotedStays DEF JournalTrue, user, marks
<1> QED
  BY <1>1, <1>2, <1>3, <1>5, <1>6, MendEnds DEF marks

\* When a rename ends, the other entries are as they were.
LEMMA OthersRest ==
  ASSUME Inv, Tidy, step \in {"renaming", "renamed"}, UNCHANGED <<disk, user, used>>,
         \A k \in Ids \ {repair.id} : rows'[k] = rows[k],
         \A k \in Ids : rows'[k] # NoRow => rows[k] # NoRow,
         journal' \subseteq journal, Hurt' \subseteq Hurt, unrecorded \subseteq unrecorded'
  PROVE  \A j \in journal' \ {Entry(repair)} : rows'[j.file] # NoRow => EntryTrue(j)'
<1> SUFFICES ASSUME NEW j \in journal', j # Entry(repair), rows'[j.file] # NoRow
             PROVE  EntryTrue(j)'
  OBVIOUS
<1>1. /\ j \in journal /\ j.file \in Ids /\ Live(j.file) /\ j.file \in unrecorded /\ EntryTrue(j)
      /\ \A k \in journal' : k \in journal /\ k.file \in Ids
  BY DEF Inv, TypeOK, Rename, Tidy, MendTrue, Mending, Live, JournalTrue, EntriesTrue
<1>2. /\ disk[j.from] = "none" /\ disk[j.to] \in {"none", j.hash} /\ Hurt \subseteq {j.file}
  BY <1>1, EntryRests
<1>3. ~Live(repair.id)
  BY <1>1 DEF Tidy, MendTrue, Mending
<1>4. \A k \in Ids : rows'[k] # NoRow => rows'[k] = rows[k]
  BY <1>3 DEF Live
<1>5. Unowned(j.to)'
  BY <1>1, <1>4 DEF EntryTrue, Unowned, Stored
<1>6. \A k \in journal' : rows'[k.file] # NoRow => k = j
  BY <1>1, <1>4 DEF EntryTrue, Live
<1> QED
  BY <1>1, <1>2, <1>4, <1>5, <1>6 DEF EntryTrue, Live, user

\* The row in repair is not one whose update failed before.
LEMMA NotedRest ==
  ASSUME Inv, Tidy, step \in {"renaming", "renamed"}, UNCHANGED <<unrecorded, used>>,
         \A k \in Ids : rows'[k] # NoRow => rows[k] # NoRow,
         journal' = journal \ {Entry(repair)}
  PROVE  Noted'
<1>1. Live(repair.id) => repair.id \notin unrecorded
  BY DEF Tidy, MendTrue
<1>2. unrecorded \subseteq Ids /\ Entry(repair).file = repair.id
  BY DEF Inv, TypeOK, Entry
<1> QED
  BY <1>1, <1>2 DEF Tidy, JournalTrue, Noted, Live

\* A rename that the file system refuses.
LEMMA RenameFailsTidy ==
  ASSUME Inv, Inv', Tidy, RenameFails
  PROVE  Tidy'
<1>1. /\ step = "renaming" /\ step' = "applying" /\ UNCHANGED <<rows, disk, plan, unlinks, user, marks, used>>
      /\ journal' = journal \ {Entry(repair)}
  BY DEF RenameFails, Repaired, files, spent
<1>2. plan.ready
  BY <1>1 DEF Tidy, Mending, Waits
<1>3. \A i \in Ids : rows'[i] # NoRow => Kept(i)
  BY <1>1 DEF Kept, Same
<1>4. Hurt' = Hurt
  BY <1>1, QuietKeeps DEF marks
<1>5. EntriesTrue'
  BY <1>1, <1>4, OthersRest DEF EntriesTrue, Live, marks
<1>6. Noted'
  BY <1>1, NotedRest DEF marks
<1> QED
  BY <1>1, <1>2, <1>3, <1>5, <1>6, MendEnds DEF Mending, JournalTrue, marks

\* The row cannot follow the file that was renamed.
LEMMA RenameUnrecordedTidy ==
  ASSUME Inv, Inv', Tidy, RenameUnrecorded
  PROVE  Tidy'
<1>1. /\ step = "renamed" /\ step' = "applying"
      /\ UNCHANGED <<rows, journal, disk, plan, unlinks, user, raced, used>>
      /\ unrecorded' = unrecorded \cup {repair.id}
  BY DEF RenameUnrecorded, Repaired, db, files
<1>2. plan.ready
  BY <1>1 DEF Tidy, Mending, Waits
<1>3. \A i \in Ids : rows'[i] # NoRow => Kept(i)
  BY <1>1 DEF Kept, Same
<1>4. Hurt' = Hurt
  BY <1>1, QuietKeeps
<1>5. EntriesTrue'
  <2> SUFFICES ASSUME NEW j \in journal, Live(j.file)
               PROVE  EntryTrue(j)'
    BY <1>1 DEF EntriesTrue, Live
  <2>1. CASE j # Entry(repair)
    BY <1>1, <1>4, <2>1, OthersRest DEF Live
  <2>2. CASE j = Entry(repair)
    <3>1. j.file = repair.id /\ j.from = repair.path /\ j.to = repair.goal /\ j.hash = repair.stored
      BY <2>2 DEF Entry
    <3>2. EntryTrue(j)
      BY DEF Tidy, JournalTrue, EntriesTrue
    <3>3. disk[j.from] = "none" /\ disk[j.to] \in {"none", j.hash} /\ Hurt \subseteq {j.file}
      BY <1>1, <3>1 DEF Tidy, MendTrue
    <3> QED
      BY <1>1, <1>4, <3>1, <3>2, <3>3 DEF EntryTrue, Live, Unowned, Stored, user
  <2> QED
    BY <2>1, <2>2
<1>6. Noted'
  <2>1. Entry(repair) \in journal /\ Entry(repair).file = repair.id /\ repair.id \in used
    BY <1>1 DEF Tidy, MendTrue, Entry, Inv, Fresh
  <2> QED
    BY <1>1, <2>1 DEF Tidy, JournalTrue, Noted, Live
<1> QED
  BY <1>1, <1>2, <1>3, <1>5, <1>6, MendEnds DEF Mending, JournalTrue

\* The file is renamed to where its new bytes belong.
LEMMA RenameFileTidy ==
  ASSUME Inv, Inv', Tidy, RenameFile
  PROVE  Tidy'
<1>1. /\ step = "renaming" /\ step' = "renamed" /\ disk[repair.path] # "none"
      /\ disk' = [disk EXCEPT ![repair.path] = "none", ![repair.goal] = disk[repair.path]]
      /\ UNCHANGED <<rows, journal, repair, plan, unlinks, user, marks, used>>
  BY DEF RenameFile, db, spent, work
<1>2. /\ repair \in Job /\ repair.id \in Ids /\ repair.path \in Path /\ repair.goal \in Path
      /\ \A i \in Stored : rows[i].path = repair.path => i = repair.id
      /\ repair.goal # repair.path /\ Unowned(repair.goal) /\ repair.goal = repair.stored
      /\ Live(repair.id) => /\ rows[repair.id].path = repair.path
                            /\ rows[repair.id].stored # repair.stored
      /\ disk[repair.path] = repair.stored /\ repair.stored # "none"
  BY <1>1 DEF Inv, WorkOK, Tidy, MendTrue, Mending, Job
<1>3. /\ disk'[repair.path] = "none" /\ disk'[repair.goal] = repair.stored
      /\ \A p \in Path \ {repair.path, repair.goal} : disk'[p] = disk[p]
  BY <1>1, <1>2 DEF Inv, TypeOK
<1>4. \A i \in Ids : rows'[i] # NoRow => Same(i) /\ (Kept(i) \/ Spoiled(i))
  <2> SUFFICES ASSUME NEW i \in Ids, rows'[i] # NoRow
               PROVE  Same(i) /\ (Kept(i) \/ Spoiled(i))
    OBVIOUS
  <2>1. Same(i) /\ i \in Stored /\ rows[i].path \in Path /\ rows[i].path # repair.goal
    BY <1>1, <1>2, RowTyped DEF Same, Stored, Row, Unowned
  <2>2. CASE i = repair.id
    <3>1. i \in Hurt
      BY <1>2, <2>1, <2>2 DEF Hurt, Damaged, Sound, Live, Stored
    <3>2. Alone(i)
      BY <1>1, <2>1 DEF Alone, Tidy, FilesTrue, Learnt, NoSharedFile, Stored
    <3> QED
      BY <1>1, <1>2, <1>3, <2>1, <2>2, <3>1, <3>2 DEF Spoiled, Live, Stored
  <2>3. CASE i # repair.id
    BY <1>2, <1>3, <2>1, <2>3 DEF Kept
  <2> QED
    BY <2>1, <2>2, <2>3
<1>5. FilesTrue' /\ Hurt' \subseteq Hurt /\ PlanTrue'
  <2>1. \A t \in plan'.items : rows'[t.id] # NoRow => Same(t.id)
    BY <1>1, <1>4, ItemFacts DEF Item
  <2>2. \A p \in Path : disk'[p] \in {disk[p], "none"} \/ Unowned(p)
    BY <1>2, <1>3
  <2> QED
    BY <1>1, <1>4, <2>1, <2>2, StepFiles DEF marks
<1>6. Waits'
  BY <1>1 DEF Tidy, Waits, Mending
<1>7. ImportTrue'
  BY <1>1 DEF ImportTrue, Importing
<1>8. MendTrue'
  BY <1>1, <1>2, <1>3, <1>5 DEF Tidy, MendTrue, Mending, Unowned, Live, Stored, Entry, user, marks
<1>9. EntriesTrue'
  <2> SUFFICES ASSUME NEW j \in journal, Live(j.file)
               PROVE  EntryTrue(j)'
    BY <1>1 DEF EntriesTrue, Live
  <2>1. EntryTrue(j) /\ j \in Rename /\ j.from \in Path /\ j.to \in Path /\ j.file \in Stored
    BY DEF Tidy, JournalTrue, EntriesTrue, Inv, TypeOK, Rename, Stored, Live
  <2>2. CASE j = Entry(repair)
    BY <1>1, <2>1, <2>2 DEF EntryTrue, Live, Unowned, Stored, Entry, user
  <2>3. CASE j # Entry(repair)
    <3>1. j.file \in unrecorded
      BY <1>1, <2>3 DEF Tidy, MendTrue, Mending
    <3>2. disk[j.from] = "none" /\ disk[j.to] \in {"none", j.hash} /\ Hurt \subseteq {j.file}
      BY <1>1, <2>3, <3>1, EntryRests
    <3>3. j.from # repair.goal /\ j.to = j.hash
      BY <1>2, <2>1 DEF EntryTrue, Unowned
    <3>4. disk'[j.from] = "none" /\ disk'[j.to] \in {"none", j.hash}
      BY <1>2, <1>3, <2>1, <3>2, <3>3
    <3> QED
      BY <1>1, <1>5, <2>1, <3>1, <3>2, <3>4 DEF EntryTrue, Live, Unowned, Stored, user, marks
  <2> QED
    BY <2>2, <2>3
<1>10. Noted'
  BY <1>1, <1>4, NotedStays DEF NoNewRow, marks
<1> QED
  BY <1>5, <1>6, <1>7, <1>8, <1>9, <1>10 DEF Tidy, JournalTrue

\* The row follows the file that was renamed.
LEMMA RenameRecordedTidy ==
  ASSUME Inv, Inv', Tidy, RenameRecorded
  PROVE  Tidy'
<1>1. /\ step = "renamed" /\ step' = "applying"
      /\ rows' = Updated(repair.id, repair.stored, repair.goal)
      /\ journal' = journal \ {Entry(repair)}
      /\ UNCHANGED <<disk, plan, unlinks, user, marks, used>>
  BY DEF RenameRecorded, Repaired, files, spent
<1>2. /\ repair \in Job /\ repair.id \in Ids /\ repair.stored # "none" /\ plan.ready
      /\ \A t \in plan.items : t \in Item /\ t.id \in Ids /\ t.id # repair.id
      /\ Unowned(repair.goal) /\ repair.stored \in edited
      /\ disk[repair.goal] \in {repair.stored, "none"}
      /\ Live(repair.id) => rows[repair.id].path = repair.path /\ disk[repair.path] = "none"
  BY <1>1, LibraryAssumption DEF Inv, WorkOK, TypeOK, Plan, Item, Tidy, MendTrue, Mending, Job, Waits
<1>3. Live(repair.id) => repair.id \in Damaged
  BY <1>2, RowTyped, LibraryAssumption DEF Live, Damaged, Stored, Sound, Row
<1>4. \A i \in Ids : rows'[i] # NoRow => Kept(i) \/ (i = repair.id /\ (Renewed(i) \/ Spoiled(i)))
  BY <1>1, <1>2, <1>3, UpdatedRenews DEF marks, Unowned
<1>5. /\ \A i \in Ids \ {repair.id} : rows'[i] = rows[i] /\ (rows'[i] # NoRow => Kept(i))
      /\ \A i \in Ids : rows'[i] # NoRow => rows[i] # NoRow
  BY <1>1, <1>2, UpdatedRows
<1>6. FilesTrue' /\ Hurt' \subseteq Hurt /\ PlanTrue'
  <2>1. \A t \in plan'.items : rows'[t.id] # NoRow => Same(t.id)
    BY <1>1, <1>2, <1>5 DEF Kept
  <2> QED
    BY <1>1, <1>4, <2>1, StepFiles DEF marks
<1>7. Waits'
  BY <1>1, <1>2 DEF Waits, Mending
<1>8. ImportTrue' /\ MendTrue'
  BY <1>1 DEF ImportTrue, MendTrue, Importing, Mending
<1>9. EntriesTrue'
  BY <1>1, <1>5, <1>6, OthersRest DEF EntriesTrue, Live, marks
<1>10. Noted'
  BY <1>1, <1>5, NotedRest DEF marks
<1> QED
  BY <1>6, <1>7, <1>8, <1>9, <1>10 DEF Tidy, JournalTrue

\* At the start, an entry is completed, taken back or kept.
LEMMA RecoverEntryTidy ==
  ASSUME Inv, Inv', Tidy, NEW j \in journal, RecoverEntry(j)
  PROVE  Tidy'
<1>1. /\ step = "recovering" /\ step' = "recovering" /\ journal' = journal \ {j}
      /\ UNCHANGED <<disk, plan, unlinks, user, raced, used>> /\ unrecorded' = unrecorded \ {j.file}
      /\ UNCHANGED rows \/ (Done(j) /\ rows' = Updated(j.file, j.hash, j.to))
  BY DEF RecoverEntry, files, work
<1>2. j \in Rename /\ j.file \in Ids /\ plan = NoPlan /\ unlinks = {}
  BY <1>1 DEF Inv, TypeOK, Rename, Tidy, Waits
<1>3. Waits' /\ PlanTrue' /\ Calm'
  BY <1>1, <1>2 DEF Waits, PlanTrue, Calm, NoPlan, Mending
<1>4. ImportTrue' /\ MendTrue'
  BY <1>1 DEF ImportTrue, MendTrue, Importing, Mending
<1>5. CASE UNCHANGED rows
  <2>1. FilesTrue' /\ NoNewRow /\ Hurt' = Hurt
    BY <1>1, <1>5, QuietKeeps
  <2>2. \A k \in journal' : rows'[k.file] # NoRow => k.file # j.file
    BY <1>1, <1>5 DEF Tidy, JournalTrue, EntriesTrue, EntryTrue, Live
  <2>3. EntriesTrue'
    BY <1>1, <1>3, <2>1, <2>2, EntriesStay DEF user
  <2>4. Noted'
    BY <1>1, <1>5 DEF Tidy, JournalTrue, Noted, Live
  <2> QED
    BY <1>3, <1>4, <2>1, <2>3, <2>4 DEF Tidy, JournalTrue
<1>6. CASE Done(j) /\ rows' = Updated(j.file, j.hash, j.to)
  <2>1. EntryTrue(j) /\ disk[j.to] = j.hash
    BY <1>6 DEF Tidy, JournalTrue, EntriesTrue, Done, Live
  <2>2. Unowned(j.to) /\ j.hash \in edited /\ \A k \in journal : Live(k.file) => k = j
    BY <2>1 DEF EntryTrue
  <2>3. \A i \in Ids : rows'[i] # NoRow => Kept(i) \/ (i = j.file /\ (Renewed(i) \/ Spoiled(i)))
    BY <1>1, <1>2, <1>6, <2>1, <2>2, UpdatedRenews DEF Unowned
  <2>4. \A i \in Ids : rows'[i] # NoRow => rows[i] # NoRow
    BY <1>1, <1>2, <1>6, UpdatedRows
  <2>5. FilesTrue' /\ Hurt' \subseteq Hurt
    BY <1>1, <2>3, FilesKeep DEF Tidy
  <2>6. EntriesTrue'
    BY <1>1, <2>2, <2>4 DEF EntriesTrue, Live, Rename, Inv, TypeOK
  <2>7. Noted'
    BY <1>1, <2>4 DEF Tidy, JournalTrue, Noted, Live, Inv, TypeOK
  <2> QED
    BY <1>3, <1>4, <2>5, <2>6, <2>7 DEF Tidy, JournalTrue
<1> QED
  BY <1>1, <1>5, <1>6

-----------------------------------------------------------------------------
(* Deletions and the user's own hand come between any two steps.  A        *)
(* deletion takes rows and files, and nothing else changes.                *)
LEMMA TakenTidy ==
  ASSUME Inv, Inv', Tidy, step \notin {"down", "recovering"},
         UNCHANGED <<journal, artifact, repair, plan, step, user, used, unrecorded>>,
         raced \subseteq raced', NoNewRow,
         \A i \in Ids : rows'[i] # NoRow => Kept(i) \/ Spoiled(i),
         \A p \in Path : disk'[p] \in {disk[p], "none"},
         step = "published" => disk'[Home] = disk[Home] \/ (disk'[Home] = "none" /\ artifact.id \in raced')
  PROVE  Tidy'
<1>1. FilesTrue' /\ Hurt' \subseteq Hurt /\ PlanTrue'
  <2>1. \A t \in plan'.items : rows'[t.id] # NoRow => Same(t.id)
    BY ItemFacts DEF Item, NoNewRow
  <2> QED
    BY <2>1, StepFiles
<1>2. Waits'
  BY DEF Tidy, Waits
<1>3. ImportTrue'
  BY ImportStays
<1>4. MendTrue'
  <2>1. /\ \A p \in Path : Unowned(p) => Unowned(p)'
        /\ \A i \in Stored' : i \in Stored /\ rows'[i].path = rows[i].path
    BY DEF NoNewRow, Same, Unowned, Stored
  <2>2. step \in Mending => repair \in Job /\ repair.path \in Path /\ repair.goal \in Path /\ repair.id \in Ids
    BY DEF Inv, WorkOK, Job
  <2>3. \A j \in journal : j.file \in Ids /\ (rows'[j.file] # NoRow => rows[j.file] # NoRow)
    BY DEF Inv, TypeOK, Rename, NoNewRow, Same
  <2>4. step \in Mending =>
          /\ \A i \in Stored' : rows'[i].path = repair.path => i = repair.id
          /\ \A t \in plan.items : t.id # repair.id
          /\ repair.stored \in edited
          /\ \A j \in journal : rows'[j.file] # NoRow =>
               \/ step \in {"renaming", "renamed"} /\ j = Entry(repair)
               \/ j.file \in unrecorded
    BY <2>1, <2>3 DEF Tidy, MendTrue, Live
  <2>5. step = "merging" /\ rows'[repair.twin] # NoRow =>
          rows'[repair.twin].kind = "verbatim" /\ rows'[repair.twin].stored = repair.stored
    BY DEF Tidy, MendTrue, Live, NoNewRow, Same, Inv, WorkOK
  <2>6. step \in {"merging", "renaming", "renamed"} /\ rows'[repair.id] # NoRow =>
          /\ rows'[repair.id].path = repair.path /\ rows'[repair.id].stored # repair.stored
          /\ disk'[repair.path] \in {repair.stored, "none"}
          /\ Hurt' \subseteq {repair.id} /\ repair.id \notin unrecorded
          /\ \A j \in journal : rows'[j.file] # NoRow => step # "merging" /\ j = Entry(repair)
    <3> SUFFICES ASSUME step \in {"merging", "renaming", "renamed"}, rows'[repair.id] # NoRow
                 PROVE  /\ rows'[repair.id].path = repair.path /\ rows'[repair.id].stored # repair.stored
                        /\ disk'[repair.path] \in {repair.stored, "none"}
                        /\ Hurt' \subseteq {repair.id} /\ repair.id \notin unrecorded
                        /\ \A j \in journal : rows'[j.file] # NoRow => step # "merging" /\ j = Entry(repair)
      OBVIOUS
    <3>1. Live(repair.id) /\ Same(repair.id) /\ repair.path \in Path
      BY <2>2 DEF NoNewRow, Same, Live, Mending
    <3> QED
      BY <1>1, <2>3, <3>1 DEF Tidy, MendTrue, Same, Live
  <2>7. step = "unlinking" => Unowned(repair.path)'
    BY <2>1, <2>2 DEF Tidy, MendTrue, Mending
  <2>8. step \in {"renaming", "renamed"} =>
          /\ repair.goal = repair.stored /\ repair.goal # repair.path /\ Unowned(repair.goal)'
          /\ Entry(repair) \in journal
    BY <2>1, <2>2 DEF Tidy, MendTrue, Mending
  <2>9. /\ step = "renaming" => disk'[repair.path] \in {repair.stored, "none"} /\ disk'[repair.goal] = "none"
        /\ step = "renamed" => disk'[repair.path] = "none" /\ disk'[repair.goal] \in {repair.stored, "none"}
    BY <2>2 DEF Tidy, MendTrue, Mending
  <2> QED
    BY <2>4, <2>5, <2>6, <2>7, <2>8, <2>9 DEF MendTrue, Live, Unowned, Entry, user
<1>5. EntriesTrue'
  <2>1. \A j \in journal' : j.from \in Path /\ j.to \in Path
    BY DEF Inv, TypeOK, Rename
  <2> QED
    BY <1>1, <2>1, CalmStays, EntriesStay DEF user
<1>6. Noted'
  BY NotedStays
<1> QED
  BY <1>1, <1>2, <1>3, <1>4, <1>5, <1>6 DEF Tidy, JournalTrue

\* A book is deleted, and its row when no other book has it.
LEMMA DeleteBookTidy ==
  ASSUME Inv, Inv', Tidy, NEW b \in Ids, DeleteBook(b)
  PROVE  Tidy'
<1> DEFINE i == books[b]
           last == OnFile(i) = {b}
<1>1. /\ step \notin {"down", "recovering"} /\ i \in Ids
      /\ rows' = IF last THEN [rows EXCEPT ![i] = NoRow] ELSE rows
      /\ UNCHANGED <<journal, disk, artifact, repair, plan, step, user, used, marks>>
  BY DEF DeleteBook, Running, Inv, TypeOK, files, work, spent
<1> HIDE DEF i, last
<1>2. \A k \in Ids : rows'[k] # NoRow => rows'[k] = rows[k]
  BY <1>1 DEF Inv, TypeOK
<1>3. (\A k \in Ids : rows'[k] # NoRow => Kept(k)) /\ NoNewRow
  BY <1>1, <1>2 DEF Kept, Same, NoNewRow
<1> QED
  BY <1>1, <1>3, TakenTidy DEF marks

(* The file of a deleted row is unlinked: it may by then be that of        *)
(* another, which is marked.                                               *)
LEMMA DeleteFileTidy ==
  ASSUME Inv, Inv', Tidy, NEW p \in Path, DeleteFile(p)
  PROVE  Tidy'
<1>1. /\ p \in unlinks
      /\ \/ disk' = [disk EXCEPT ![p] = "none"] /\ raced' = raced \cup Takers(p)
         \/ UNCHANGED <<disk, raced>>
      /\ UNCHANGED <<rows, journal, artifact, repair, plan, step, user, used, unrecorded>>
  BY DEF DeleteFile, db, work
<1>2. step \notin {"down", "recovering"} /\ NoNewRow
  BY <1>1 DEF Tidy, Waits, NoNewRow, Same
<1>3. \A q \in Path : disk'[q] = disk[q] \/ (q = p /\ disk'[q] = "none" /\ raced' = raced \cup Takers(p))
  BY <1>1 DEF Inv, TypeOK
<1>4. \A i \in Ids : rows'[i] # NoRow => Kept(i) \/ Spoiled(i)
  <2> SUFFICES ASSUME NEW i \in Ids, rows'[i] # NoRow, ~Kept(i)
               PROVE  Spoiled(i)
    OBVIOUS
  <2>1. i \in Stored /\ rows[i].path \in Path /\ rows'[i] = rows[i]
    BY <1>1, RowTyped DEF Stored, Row
  <2>2. rows[i].path = p /\ disk'[p] = "none" /\ raced' = raced \cup Takers(p)
    BY <1>3, <2>1 DEF Kept, Same, Stored
  <2>3. i \in raced'
    BY <2>1, <2>2 DEF Takers, Owners
  <2>4. Alone(i)
    BY <1>1, <2>1 DEF Alone, Tidy, FilesTrue, Learnt, NoSharedFile, Stored
  <2> QED
    BY <2>1, <2>2, <2>3, <2>4 DEF Spoiled
<1>5. step = "published" => disk'[Home] = disk[Home] \/ (disk'[Home] = "none" /\ artifact.id \in raced')
  <2>1. step = "published" => Home \in Path
    BY DraftHome DEF Importing
  <2> QED
    BY <1>3, <2>1 DEF Takers
<1> QED
  BY <1>1, <1>2, <1>3, <1>4, <1>5, TakenTidy

(* The user alters a file when nothing is damaged and no plan means to     *)
(* repair, or gives a row its bytes back when there is no plan.            *)
LEMMA AlterFacts ==
  ASSUME Inv, Tidy, Careful, NEW p \in Path, NEW c \in Edits \cup {"none"}, AlterFile(p, c)
  PROVE  /\ disk[p] # "none" /\ c \in {"none"} \cup edited' /\ edited \subseteq edited'
         /\ edits' = edits + 1
         /\ \E o \in Stored : /\ rows[o].path = p /\ \A i \in Stored : rows[i].path = p => i = o
                              /\ touched' = touched \cup {o}
                              /\ Damaged = {} \/ c = rows[o].stored
         /\ disk'[p] = c /\ \A q \in Path \ {p} : disk'[q] = disk[q]
         /\ \/ Damaged = {} /\ \A t \in plan.items : t.observed \in {"unread", t.recorded}
            \/ plan = NoPlan
         /\ UNCHANGED <<rows, journal, artifact, repair, plan, step, unlinks, marks, used>>
<1>1. /\ disk[p] # "none" /\ Owners(p) # {}
      /\ Settled \/ (plan = NoPlan /\ \A i \in Owners(p) : c = rows[i].stored)
      /\ edited' = edited \cup ({c} \cap Contents) /\ edits' = edits + 1
      /\ UNCHANGED <<rows, journal, artifact, repair, plan, step, unlinks, marks, used>>
  BY DEF AlterFile, Owned, db, work
<1>2. /\ disk' = [q \in Path |-> IF q = p THEN c ELSE disk[q]]
      /\ touched' = touched \cup Owners(p)
  <2>1. PICK moved \in {{}} \cup {{q} : q \in {q \in Path \ {p} : MovesOver /\ Owned(q) /\ disk[q] = c}} :
           /\ disk' = [q \in Path |-> IF q = p THEN c ELSE IF q \in moved THEN "none" ELSE disk[q]]
           /\ touched' = touched \cup UNION {Owners(q) : q \in {p} \cup moved}
    BY DEF AlterFile
  <2>2. moved = {}
    BY <2>1 DEF Careful
  <2> QED
    BY <2>1, <2>2
<1>3. c \in {"none"} \cup edited'
  BY <1>1, LibraryAssumption
<1>4. PICK o \in Stored : rows[o].path = p
  BY <1>1 DEF Owners
<1>5. Owners(p) = {o} /\ \A i \in Stored : rows[i].path = p => i = o
  BY <1>4 DEF Owners, Tidy, FilesTrue, NoSharedFile
<1> QED
  BY <1>1, <1>2, <1>3, <1>4, <1>5 DEF Settled

\* He never does while the file of a row is being renamed or merged away.
LEMMA AlterSpares ==
  ASSUME Inv, Tidy, Careful, NEW p \in Path, NEW c \in Edits \cup {"none"}, AlterFile(p, c)
  PROVE  step \in {"merging", "renaming", "renamed"} => ~Live(repair.id)
<1> SUFFICES ASSUME step \in {"merging", "renaming", "renamed"}, Live(repair.id)
             PROVE  FALSE
  OBVIOUS
<1>1. repair \in Job /\ repair.id \in Stored /\ repair.stored # "none"
  BY LibraryAssumption DEF Inv, WorkOK, Mending, Job, Stored, Live
<1>2. /\ rows[repair.id].path = repair.path /\ rows[repair.id].stored # repair.stored
      /\ disk[repair.path] \in {repair.stored, "none"}
  BY DEF Tidy, MendTrue
<1>3. repair.id \in Damaged
  BY <1>1, <1>2, RowTyped, LibraryAssumption DEF Damaged, Sound, Row, Stored
<1>4. plan # NoPlan
  BY DEF Tidy, Waits, Mending, NoPlan
<1> QED
  BY AlterFacts, <1>3, <1>4

\* The user alters or removes a file.
LEMMA AlterFileTidy ==
  ASSUME Inv, Tidy, Careful, NEW p \in Path, NEW c \in Edits \cup {"none"}, AlterFile(p, c)
  PROVE  Tidy'
<1>1. /\ disk[p] # "none" /\ c \in {"none"} \cup edited' /\ edited \subseteq edited' /\ edits' = edits + 1
      /\ disk'[p] = c /\ \A q \in Path \ {p} : disk'[q] = disk[q]
      /\ \/ Damaged = {} /\ \A t \in plan.items : t.observed \in {"unread", t.recorded}
         \/ plan = NoPlan
      /\ UNCHANGED <<rows, journal, artifact, repair, plan, step, unlinks, marks, used>>
  BY AlterFacts
<1>2. PICK o \in Stored : /\ rows[o].path = p /\ \A i \in Stored : rows[i].path = p => i = o
                          /\ touched' = touched \cup {o}
                          /\ Damaged = {} \/ c = rows[o].stored
  BY AlterFacts
<1>3. \A i \in Stored : rows[i].path \in Path /\ (i # o => disk'[rows[i].path] = disk[rows[i].path])
  BY <1>1, <1>2, RowTyped DEF Stored, Row
<1>4. Hurt' \subseteq Hurt \/ (Damaged = {} /\ Hurt' \subseteq {o})
  BY <1>1, <1>2, <1>3 DEF Hurt, Damaged, Sound, Stored, marks
<1>5. Hurt \subseteq Damaged
  BY DEF Hurt
<1>6. FilesTrue'
  <2>1. NoSharedFile'
    BY <1>1 DEF Tidy, FilesTrue, NoSharedFile, Stored
  <2>2. OneHurt' /\ Hurt' \subseteq touched'
    BY <1>2, <1>4 DEF Tidy, FilesTrue, OneHurt
  <2>3. edits' \in Nat /\ edits' > 0
    BY <1>1 DEF Tidy, FilesTrue, Learnt
  <2>4. Learnt'
    BY <1>1, <1>2, <1>3, <2>3 DEF Tidy, FilesTrue, Learnt, Stored
  <2> QED
    BY <2>1, <2>2, <2>4 DEF FilesTrue
<1>7. Waits'
  BY <1>1 DEF Tidy, Waits
<1>8. PlanTrue'
  <2>1. CASE plan = NoPlan
    BY <1>1, <2>1 DEF PlanTrue, NoPlan
  <2>2. CASE Damaged = {} /\ \A t \in plan.items : t.observed \in {"unread", t.recorded}
    <3> SUFFICES ASSUME NEW t \in plan.items
                 PROVE  /\ t.path = Target(t.kind, t.recorded, t.id)
                        /\ Live(t.id) => t.path = rows[t.id].path /\ t.recorded = rows[t.id].stored
                        /\ step = "scanning" /\ ~Live(t.id)
                             => Unowned(t.path) /\ disk'[t.path] \in {"none", t.recorded} \cup edited'
                        /\ ~Odd(t)
                        /\ \A u \in plan.items : u.id = t.id => u = t
      BY <1>1 DEF PlanTrue, Odd, Live, Unowned, Stored
    <3>1. ~Odd(t) /\ t.path \in Path
      BY <2>2, ItemFacts DEF Odd, Item
    <3>2. Unowned(t.path) => t.path # p
      BY <1>2 DEF Unowned
    <3> QED
      BY <1>1, <3>1, <3>2 DEF Tidy, PlanTrue
  <2> QED
    BY <1>1, <2>1, <2>2
<1>9. ImportTrue'
  <2>1. step = "published" => disk'[Home] = disk[Home]
    BY <1>1, <1>2, HomeUnowned DEF Unowned, Importing
  <2>2. Home' = Home
    BY <1>1 DEF Home
  <2> QED
    BY <1>1, <2>1, <2>2 DEF Tidy, ImportTrue, Known, Live, Stored, marks
<1>10. step \in {"merging", "renaming", "renamed"} => ~Live(repair.id)
  BY AlterSpares
<1>11. MendTrue'
  <2>1. step \in Mending => repair.path \in Path /\ repair.goal \in Path
    BY DEF Inv, WorkOK, Job
  <2>2. step \in {"merging", "renaming", "renamed"} => repair.path # p
    BY <1>2, <1>10 DEF Tidy, MendTrue, Mending, Live, Stored
  <2>3. step \in {"renaming", "renamed"} => repair.goal # p
    BY <1>2 DEF Tidy, MendTrue, Unowned
  <2>4. step = "renaming" => disk'[repair.path] \in {repair.stored, "none"} /\ disk'[repair.goal] = "none"
    BY <1>1, <2>1, <2>2, <2>3 DEF Tidy, MendTrue, Mending
  <2>5. step = "renamed" => disk'[repair.path] = "none" /\ disk'[repair.goal] \in {repair.stored, "none"}
    BY <1>1, <2>1, <2>2, <2>3 DEF Tidy, MendTrue, Mending
  <2> QED
    BY <1>1, <1>10, <2>4, <2>5 DEF Tidy, MendTrue, Live, Unowned, Stored, Entry, marks
<1>12. EntriesTrue'
  <2> SUFFICES ASSUME NEW j \in journal, Live(j.file)
               PROVE  EntryTrue(j)'
    BY <1>1 DEF EntriesTrue, Live
  <2>1. /\ j \in Rename /\ j.file \in Stored /\ j.from \in Path /\ j.to \in Path /\ j.hash \in Contents
        /\ EntryTrue(j)
    BY DEF Inv, TypeOK, Rename, Tidy, JournalTrue, EntriesTrue, Stored, Live
  <2>2. ~(step \in {"renaming", "renamed"} /\ j = Entry(repair))
    BY <1>10 DEF Entry
  <2>3. j.to # p /\ disk'[j.to] = disk[j.to]
    BY <1>1, <1>2, <2>1 DEF EntryTrue, Unowned
  <2>4. CASE disk[j.from] = "none"
    <3>1. j.file \in Damaged
      BY <2>1, <2>4, RowTyped, LibraryAssumption DEF EntryTrue, Damaged, Sound, Row, Stored
    <3>2. plan = NoPlan /\ Hurt' \subseteq Hurt /\ disk'[j.from] = "none"
      BY <1>1, <1>4, <2>1, <2>4, <3>1
    <3>3. Calm'
      BY <1>1, <3>2 DEF Calm, NoPlan
    <3> QED
      BY <1>1, <2>1, <2>2, <2>3, <2>4, <3>2, <3>3 DEF EntryTrue, Live, Unowned, Stored, marks
  <2>5. CASE disk[j.from] # "none"
    <3>1. step \in {"down", "recovering"} /\ disk[j.to] = "none" /\ plan = NoPlan
      BY <2>1, <2>2, <2>5 DEF EntryTrue, Tidy, Waits
    <3>2. Calm'
      BY <1>1, <3>1 DEF Calm, NoPlan
    <3>3. disk'[j.from] = "none" => Hurt' \subseteq {j.file}
      <4> SUFFICES ASSUME disk'[j.from] = "none"
                   PROVE  Hurt' \subseteq {j.file}
        OBVIOUS
      <4>1. p = j.from /\ c = "none" /\ o = j.file
        BY <1>1, <1>2, <2>1, <2>5 DEF EntryTrue
      <4>2. Damaged = {}
        BY <1>2, <4>1, RowTyped, LibraryAssumption DEF Row, Stored
      <4> QED
        BY <1>4, <1>5, <4>1, <4>2
    <3> QED
      BY <1>1, <2>1, <2>3, <3>1, <3>2, <3>3 DEF EntryTrue, Live, Unowned, Stored
  <2> QED
    BY <2>4, <2>5
<1>13. Noted'
  BY <1>1 DEF Tidy, JournalTrue, Noted, Live, marks
<1> QED
  BY <1>6, <1>7, <1>8, <1>9, <1>11, <1>12, <1>13 DEF Tidy, JournalTrue

\* An empty library is tidy.
LEMMA InitTidy ==
  ASSUME Init
  PROVE  Tidy
<1>1. Stored = {} /\ Hurt = {}
  BY DEF Init, Stored, Hurt, Damaged
<1>2. FilesTrue
  BY <1>1 DEF Init, FilesTrue, NoSharedFile, OneHurt, Learnt
<1> QED
  BY <1>2 DEF Init, Tidy, Waits, PlanTrue, ImportTrue, MendTrue, JournalTrue, EntriesTrue, Noted,
              NoPlan, Importing, Mending

\* Nothing happens.
LEMMA StutterTidy ==
  ASSUME Inv, Tidy, UNCHANGED libraryVars
  PROVE  Tidy'
<1>1. UNCHANGED <<rows, journal, disk, artifact, repair, plan, step, unlinks, user, marks, used>>
  BY DEF libraryVars, db, files, work, spent
<1>2. FilesTrue' /\ Hurt' = Hurt
  BY <1>1, QuietKeeps DEF marks
<1>3. Waits' /\ PlanTrue'
  BY <1>1, <1>2 DEF Tidy, Waits, PlanTrue, Odd, Unowned, Stored, Live, user
<1>4. ImportTrue'
  BY <1>1 DEF Tidy, ImportTrue, Stored, Live, Known, Home, marks
<1>5. MendTrue'
  BY <1>1, <1>2 DEF Tidy, MendTrue, Stored, Live, Unowned, Entry, user, marks
<1>6. Calm' = Calm
  BY <1>1 DEF Calm
<1>7. JournalTrue'
  BY <1>1, <1>2, <1>6 DEF Tidy, JournalTrue, EntriesTrue, EntryTrue, Noted, Stored, Live, Unowned, Entry, user, marks
<1> QED
  BY <1>2, <1>3, <1>4, <1>5, <1>7 DEF Tidy

\* Every step keeps the library tidy.
LEMMA StepTidy ==
  ASSUME Careful, Inv, Inv', Tidy, [Next]_libraryVars
  PROVE  Tidy'
<1>1. ImportStep => Tidy'
  BY StartTidy, CopyTidy, DroppedTidy, StagedTidy, PublishTidy, InsertTidy, InsertFailsTidy
     DEF ImportStep
<1>2. MaintenanceStep => Tidy'
  BY ScanRowsTidy, ScanFilesTidy, PlanOnlyTidy, MarkedTidy, TwinTidy, InPlaceTidy, AdoptsTidy,
     JournalledTidy, MergeTidy, UnlinkOldTidy, RenameFileTidy, RenameFailsTidy,
     RenameRecordedTidy, RenameUnrecordedTidy, SweepTidy, RestartTidy, RecoverEntryTidy, RecoveredTidy
     DEF MaintenanceStep, ApplyItem
<1> QED
  BY <1>1, <1>2, DeleteBookTidy, DeleteFileTidy, AlterFileTidy, CrashTidy, StutterTidy DEF Next

\* The invariant of a careful user.
LEMMA TidyHolds ==
  ASSUME Careful
  PROVE  Spec => [](Inv /\ Tidy)
<1>1. Inv /\ [Next]_libraryVars => Inv'
  BY ImportKeeps, MaintenanceKeeps, DeleteBookKeeps, DeleteFileKeeps, AlterFileKeeps,
     CrashKeeps, StutterKeeps DEF Next
<1>2. (Inv /\ Tidy) /\ [Next]_libraryVars => (Inv /\ Tidy)'
  BY <1>1, StepTidy
<1> QED
  BY <1>2, InitInv, InitTidy, PTL DEF Spec

(* One row owns one file: whatever is imported, repaired, renamed,         *)
(* deleted or interrupted, in whatever order, no path is recorded by two   *)
(* rows.                                                                   *)
THEOREM FilesNeverShared ==
  ASSUME Careful
  PROVE  Spec => []NoSharedFile
<1>1. Inv /\ Tidy => NoSharedFile
  BY DEF Tidy, FilesTrue
<1> QED
  BY <1>1, TidyHolds, PTL

(* The hash a row records is the hash of the file at its path unless the   *)
(* user has altered that file or the late unlink of a deletion has taken   *)
(* it: no import, repair, rename, failed update or crash between two of    *)
(* their steps damages a file.                                             *)
THEOREM BaselineKept ==
  ASSUME Careful
  PROVE  Spec => []BaselineExact
<1>1. Inv /\ Tidy => BaselineExact
  BY DEF Tidy, FilesTrue, Hurt, BaselineExact
<1> QED
  BY <1>1, TidyHolds, PTL

(* The rename of a managed file is journalled before it is made: outside   *)
(* of the repair and of the recovery at the start no entry is left, except *)
(* one whose row a deletion took, whose row could not be updated, or whose *)
(* file was removed meanwhile.                                             *)
THEOREM RenamesSettle ==
  ASSUME Careful
  PROVE  Spec => []JournalSettled
<1>1. Inv /\ Tidy => JournalSettled
  BY EntryRests DEF JournalSettled, Live
<1> QED
  BY <1>1, TidyHolds, PTL
-----------------------------------------------------------------------------
(* The shelf: what a row with path p opens to, given what lies where and   *)
(* the journal.                                                            *)
OpensIn(d, p, J, i) ==
  LET moved == {j \in J : j.file = i /\ d[j.to] # "none"}
  IN IF d[p] # "none" THEN d[p]
     ELSE IF moved # {} THEN d[(CHOOSE j \in moved : TRUE).to]
     ELSE "lost"

\* Opens by what it depends on.
LEMMA OpensNow == \A i : Opens(i) = OpensIn(disk, rows[i].path, journal, i)
BY DEF Opens, OpensIn

\* Opens after a step, by what it depends on then.
LEMMA OpensNext == \A i : Opens(i)' = OpensIn(disk', rows'[i].path, journal', i)
BY DEF Opens, OpensIn

\* A row opens to the file at its path, if there is one.
LEMMA OpensFile ==
  ASSUME NEW d, NEW p, NEW J, NEW i, d[p] # "none"
  PROVE  OpensIn(d, p, J, i) = d[p]
BY DEF OpensIn

\* With no file at its path and none in the journal, a row is lost.
LEMMA OpensLost ==
  ASSUME NEW d, NEW p, NEW J, NEW i, d[p] = "none", \A j \in J : j.file = i => d[j.to] = "none"
  PROVE  OpensIn(d, p, J, i) = "lost"
BY DEF OpensIn

\* Its entries say where its bytes have gone.
GoneTo(d, p, J, i, v) ==
  /\ d[p] = "none" /\ v # "none"
  /\ \E j \in J : j.file = i /\ d[j.to] = v
  /\ \A j \in J : j.file = i => d[j.to] = v

\* A row whose file was renamed opens to what the journal leads to.
LEMMA OpensMoved ==
  ASSUME NEW d, NEW p, NEW J, NEW i, NEW v, GoneTo(d, p, J, i, v)
  PROVE  OpensIn(d, p, J, i) = v
<1> DEFINE moved == {k \in J : k.file = i /\ d[k.to] # "none"}
<1>1. moved # {} /\ \A k \in moved : d[k.to] = v
  BY DEF GoneTo
<1>2. moved # {} => (CHOOSE k \in moved : TRUE) \in moved
  OBVIOUS
<1>3. OpensIn(d, p, J, i) = IF d[p] # "none" THEN d[p]
        ELSE IF moved # {} THEN d[(CHOOSE k \in moved : TRUE).to] ELSE "lost"
  BY DEF OpensIn
<1> HIDE DEF moved
<1> QED
  BY <1>1, <1>2, <1>3 DEF GoneTo

\* What a row opens to depends on its file and on its entries only.
LEMMA OpensSame ==
  ASSUME NEW d, NEW p, NEW J, NEW e, NEW q, NEW K, NEW i, d[p] = e[q],
         d[p] = "none" => \A j \in J \cup K : j.file = i =>
            /\ d[j.to] = e[j.to]
            /\ d[j.to] # "none" => j \in J /\ j \in K
  PROVE  OpensIn(d, p, J, i) = OpensIn(e, q, K, i)
<1> DEFINE A == {j \in J : j.file = i /\ d[j.to] # "none"}
           B == {j \in K : j.file = i /\ e[j.to] # "none"}
<1>1. CASE d[p] # "none"
  BY <1>1, OpensFile
<1>2. CASE d[p] = "none"
  <2>1. A = B /\ \A j \in A : d[j.to] = e[j.to]
    BY <1>2
  <2>2. OpensIn(d, p, J, i) = IF A # {} THEN d[(CHOOSE j \in A : TRUE).to] ELSE "lost"
    BY <1>2 DEF OpensIn
  <2>3. OpensIn(e, q, K, i) = IF B # {} THEN e[(CHOOSE j \in B : TRUE).to] ELSE "lost"
    BY <1>2 DEF OpensIn
  <2>4. A # {} => (CHOOSE j \in A : TRUE) \in A
    OBVIOUS
  <2> HIDE DEF A, B
  <2> QED
    BY <2>1, <2>2, <2>3, <2>4
<1> QED
  BY <1>1, <1>2

\* A row opens to bytes or to nothing.
LEMMA OpensTyped ==
  ASSUME Inv, NEW i \in Stored
  PROVE  Opens(i) \in Contents \cup {"lost"}
<1> DEFINE moved == {j \in journal : j.file = i /\ disk[j.to] # "none"}
<1>1. rows[i].path \in Path
  BY RowTyped DEF Stored, Row
<1>2. moved # {} => (CHOOSE j \in moved : TRUE) \in moved
  OBVIOUS
<1>3. \A j \in moved : disk[j.to] \in Contents
  BY DEF Inv, TypeOK, Rename
<1>4. Opens(i) = IF disk[rows[i].path] # "none" THEN disk[rows[i].path]
                 ELSE IF moved # {} THEN disk[(CHOOSE j \in moved : TRUE).to] ELSE "lost"
  BY DEF Opens
<1> HIDE DEF moved
<1> QED
  BY <1>1, <1>2, <1>3, <1>4 DEF Inv, TypeOK

Shown == [b \in Ids |-> IF books[b] = "none" THEN "absent" ELSE Opens(books[b])]

\* What shows after a step.
LEMMA ShownThen ==
  \A b \in Ids : Shown'[b] = IF books'[b] = "none" THEN "absent"
                             ELSE OpensIn(disk', rows'[books'[b]].path, journal', books'[b])
BY DEF Shown, Opens, OpensIn

\* What shows for a book that is there.
LEMMA ShownFacts ==
  ASSUME Inv
  PROVE  /\ \A b \in Ids : books[b] = "none" => Shown[b] = "absent"
         /\ \A b \in Ids : books[b] # "none" =>
              books[b] \in Stored /\ Shown[b] = Opens(books[b]) /\ Shown[b] # "absent"
<1>1. \A b \in Ids : books[b] # "none" => books[b] \in Stored
  BY DEF Inv, TypeOK, Stored
<1>2. \A i \in Stored : Opens(i) # "absent"
  BY OpensTyped, LibraryAssumption
<1> QED
  BY <1>1, <1>2 DEF Shown

\* A row that keeps its path and file, whatever an entry of another row does.
LEMMA OpensKept ==
  ASSUME NEW i, Kept(i),
         disk[rows[i].path] = "none" => \A j \in journal \cup journal' : j.file = i =>
            /\ disk'[j.to] = disk[j.to]
            /\ disk[j.to] # "none" => j \in journal /\ j \in journal'
  PROVE  Opens(i)' = Opens(i)
BY OpensNow, OpensNext, OpensSame DEF Kept, Same

\* The books the promise no longer covers, and the removals under way.
Astray == {b \in Ids : IF books[b] = "none" THEN b \in raced \cap {artifact.id}
                       ELSE books[b] \in raced \cup unrecorded}
Leaving == unlinks # {}
ShelfStep == [Shelf!Next]_<<Shown, Astray, Leaving, edits>>

\* The steps of the shelf, by what is shown.
LEMMA WanderIs ==
  ASSUME Shown' \in [Ids -> Contents \cup {"lost", "absent"}],
         \A b \in Ids : Shown'[b] = Shown[b] \/ (b \in Astray /\ Shown[b] # "absent" /\ Shown'[b] # "absent"),
         Astray' \subseteq Astray, Leaving' \in {Leaving, FALSE}, edits' = edits
  PROVE  ShelfStep
<1>1. Shelf!Wander
  BY DEF Shelf!Wander, Shelf!Present, Shown, Astray, Leaving
<1> QED
  BY <1>1 DEF Shelf!Next, ShelfStep

LEMMA AddIs ==
  ASSUME NEW b \in Ids, NEW c \in Contents \cup {"lost"}, Shown[b] = "absent", c = "lost" => b \in Astray,
         Shown' = [Shown EXCEPT ![b] = c], UNCHANGED <<Astray, Leaving, edits>>
  PROVE  ShelfStep
<1>1. Shelf!Add(b, c)
  BY DEF Shelf!Add, Shelf!Present, Shown, Astray, Leaving
<1> QED
  BY <1>1 DEF Shelf!Next, ShelfStep

LEMMA RemoveIs ==
  ASSUME NEW b \in Ids, Shown[b] # "absent", Shown' = [Shown EXCEPT ![b] = "absent"],
         Astray' \in {Astray, Astray \ {b}}, Leaving' \in {Leaving, TRUE}, edits' = edits
  PROVE  ShelfStep
<1>1. Shelf!Remove(b)
  BY DEF Shelf!Remove, Shelf!Present, Shown, Astray, Leaving
<1> QED
  BY <1>1 DEF Shelf!Next, ShelfStep

LEMMA AlterIs ==
  ASSUME NEW S \in SUBSET {b \in Ids : Shown[b] # "absent"}, NEW v \in Contents \cup {"lost"},
         \A a, b \in S : Shown[a] = Shown[b], Shown' = [b \in Ids |-> IF b \in S THEN v ELSE Shown[b]],
         edits' = edits + 1, UNCHANGED <<Astray, Leaving>>
  PROVE  ShelfStep
<1>1. Shelf!Alter(S, v)
  BY DEF Shelf!Alter, Shelf!OneFile, Shelf!Present, Shown, Astray, Leaving
<1> QED
  BY <1>1 DEF Shelf!Next, ShelfStep

LEMMA GoAstrayIs ==
  ASSUME NEW S \in SUBSET Ids, NEW v \in Contents \cup {"lost"}, Leaving \/ edits > 0,
         \A a, b \in S : Shown[a] # "absent" /\ Shown[b] # "absent" => Shown[a] = Shown[b],
         Shown' = [b \in Ids |-> IF b \in S /\ Shown[b] # "absent" THEN v ELSE Shown[b]],
         Astray' = Astray \cup S, Leaving' \in {Leaving, FALSE}, edits' = edits
  PROVE  ShelfStep
<1>1. Shelf!GoAstray(S, v)
  BY DEF Shelf!GoAstray, Shelf!OneFile, Shelf!Present, Shown, Astray, Leaving
<1> QED
  BY <1>1 DEF Shelf!Next, ShelfStep

OpensAll == \A i \in Stored : Opens(i) \in Contents \cup {"lost"}

LEMMA OpensAllNext ==
  Inv' => OpensAll'
<1>1. Inv => OpensAll
  BY OpensTyped DEF OpensAll
<1> QED
  BY <1>1, PTL

\* What shows is bytes, "lost" or "absent".
LEMMA ShownTyped ==
  ASSUME Inv
  PROVE  Shown \in [Ids -> Contents \cup {"lost", "absent"}]
<1>1. \A b \in Ids : books[b] # "none" => books[b] \in Stored
  BY DEF Inv, TypeOK, Stored
<1>2. \A i \in Stored : Opens(i) \in Contents \cup {"lost"}
  BY OpensTyped
<1> QED
  BY <1>1, <1>2 DEF Shown

ShowsBooks == /\ Shown \in [Ids -> Contents \cup {"lost", "absent"}]
              /\ \A b \in Ids : books[b] # "none" => Shown[b] # "absent"

LEMMA ShownNext ==
  Inv' => ShowsBooks'
<1>1. Inv => ShowsBooks
  BY ShownTyped, ShownFacts DEF ShowsBooks
<1> QED
  BY <1>1, PTL

(* Most steps leave every book its row, and what a row opens to can change *)
(* only when the row is astray.                                            *)
Steady == /\ UNCHANGED <<books, edits>>
          /\ \A i \in Stored : Opens(i)' = Opens(i) \/ i \in raced \cup unrecorded

LEMMA SteadyWanders ==
  ASSUME Inv, Inv', Steady, Astray' \subseteq Astray, Leaving' \in {Leaving, FALSE}
  PROVE  ShelfStep
<1>1. Shown' \in [Ids -> Contents \cup {"lost", "absent"}]
  BY ShownNext DEF ShowsBooks
<1>2. \A b \in Ids : Shown'[b] = Shown[b] \/ (b \in Astray /\ Shown[b] # "absent" /\ Shown'[b] # "absent")
  <2> SUFFICES ASSUME NEW b \in Ids, Shown'[b] # Shown[b]
               PROVE  b \in Astray /\ Shown[b] # "absent" /\ Shown'[b] # "absent"
    OBVIOUS
  <2>1. books[b] # "none" /\ books'[b] = books[b]
    BY ShownThen DEF Shown, Steady
  <2>2. Shown[b] = Opens(books[b]) /\ Shown'[b] = Opens(books[b])' /\ books[b] \in Stored
    BY <2>1, ShownFacts, ShownThen, OpensNext
  <2>3. Shown'[b] # "absent"
    BY <2>1, ShownNext DEF ShowsBooks
  <2> QED
    BY <2>1, <2>2, <2>3, ShownFacts DEF Steady, Astray
<1> QED
  BY <1>1, <1>2, WanderIs DEF Steady

\* No row goes astray, no removal begins, and no import in hand is replaced.
LEMMA SteadyStep ==
  ASSUME Inv, Inv', Steady, raced' = raced, unrecorded' \subseteq unrecorded,
         unlinks' \in {unlinks, {}}, raced' \cap {artifact'.id} \subseteq {artifact.id}
  PROVE  ShelfStep
<1>1. Astray' \subseteq Astray
  BY DEF Astray, Steady
<1>2. Leaving' \in {Leaving, FALSE}
  BY DEF Leaving
<1> QED
  BY <1>1, <1>2, SteadyWanders

-----------------------------------------------------------------------------
(* Step by step: what shows on the shelf.                                  *)

\* A step that changes nothing a book opens to.
LEMMA QuietShown ==
  ASSUME UNCHANGED <<rows, books, journal, disk, edits>>
  PROVE  Steady
BY DEF Steady, Opens

\* A step that keeps every row and every file a row names.
LEMMA KeptShown ==
  ASSUME Inv, UNCHANGED <<books, journal, edits>>, \A i \in Stored : Kept(i),
         \A j \in journal : Live(j.file) => disk'[j.to] = disk[j.to] \/ j.file \in unrecorded
  PROVE  Steady
<1>1. \A i \in Stored : Opens(i)' = Opens(i) \/ i \in unrecorded
  <2> SUFFICES ASSUME NEW i \in Stored, i \notin unrecorded
               PROVE  Opens(i)' = Opens(i)
    OBVIOUS
  <2>1. \A j \in journal : j.file = i => disk'[j.to] = disk[j.to]
    BY DEF Stored, Live
  <2> QED
    BY <2>1, OpensKept
<1> QED
  BY <1>1 DEF Steady

\* A mark on a row shows nothing.
LEMMA MarkedShown ==
  ASSUME Inv, Tidy, NEW t \in plan.items, ItemMarked(t)
  PROVE  Steady
<1>1. PICK state \in States : rows' = Marked(t.id, state)
  BY DEF ItemMarked, States
<1>2. UNCHANGED <<books, journal, disk, edits>>
  BY DEF ItemMarked, files, spent, user
<1>3. \A i \in Stored : Kept(i)
  BY <1>1, <1>2, RowTyped DEF Kept, Same, Marked, Stored, Row, Inv, TypeOK
<1> QED
  BY <1>2, <1>3, KeptShown

\* A row that moves where its bytes are.
LEMMA MovedShown ==
  ASSUME Inv, NEW i \in Ids, NEW stored, NEW path, rows' = Updated(i, stored, path),
         UNCHANGED <<books, journal, disk, edits>>,
         rows[i] # NoRow => disk[path] = disk[rows[i].path] /\ disk[path] # "none"
  PROVE  Steady
<1>1. /\ \A k \in Ids \ {i} : rows'[k] = rows[k]
      /\ rows[i] # NoRow => rows'[i].path = path
  BY UpdatedRows
<1>2. \A k \in Stored : Opens(k)' = Opens(k)
  BY <1>1, OpensNow, OpensNext, OpensSame DEF Stored
<1> QED
  BY <1>2 DEF Steady

\* New bytes recorded in place are the bytes that were there.
LEMMA InPlaceShown ==
  ASSUME Inv, Tidy, NEW t \in plan.items, ItemInPlace(t) \/ ItemAdopts(t)
  PROVE  Steady
<1>1. /\ Changed(t) /\ step = "applying" /\ UNCHANGED <<books, journal, disk, edits>>
  BY DEF ItemInPlace, ItemAdopts, Quick, files, spent, user
<1>2. PICK path : rows' = Updated(t.id, t.observed, path) /\ disk[path] = disk[t.path]
  BY <1>1, ChangedFacts DEF ItemInPlace, ItemAdopts
<1>3. t.id \in Ids /\ disk[t.path] # "none" /\ (rows[t.id] # NoRow => rows[t.id].path = t.path)
  BY <1>1, ChangedFacts, LibraryAssumption DEF Live
<1> QED
  BY <1>1, <1>2, <1>3, MovedShown

\* An entry of the journal shows nothing before the rename.
LEMMA JournalledShown ==
  ASSUME Inv, Tidy, NEW t \in plan.items, ItemJournalled(t)
  PROVE  Steady
<1>1. /\ disk[repair'.goal] = "none" /\ journal' = journal \cup {Entry(repair')}
      /\ UNCHANGED <<rows, books, disk, edits>>
  BY DEF ItemJournalled, Repairing, files, spent, user
<1>2. \A i \in Stored : Opens(i)' = Opens(i)
  BY <1>1, OpensNow, OpensNext, OpensSame DEF Entry
<1> QED
  BY <1>1, <1>2 DEF Steady

\* A refused rename leaves the file where its row finds it.
LEMMA RenameFailsShown ==
  ASSUME Inv, Tidy, RenameFails
  PROVE  Steady
<1>1. /\ step = "renaming" /\ UNCHANGED <<rows, books, disk, edits>>
      /\ journal' = journal \ {Entry(repair)}
  BY DEF RenameFails, files, spent, user
<1>2. disk[repair.goal] = "none"
  BY <1>1 DEF Tidy, MendTrue
<1>3. \A i \in Stored : Opens(i)' = Opens(i)
  BY <1>1, <1>2, OpensNow, OpensNext, OpensSame DEF Entry
<1> QED
  BY <1>1, <1>3 DEF Steady

\* A row that is brought where its rename has already put the file.
LEMMA CaughtUpShown ==
  ASSUME Inv, NEW j \in journal, rows' = Updated(j.file, j.hash, j.to),
         journal' = journal \ {j}, UNCHANGED <<books, disk, edits>>,
         Live(j.file) => /\ rows[j.file].path = j.from /\ \A k \in journal : Live(k.file) => k = j
                         /\ disk[j.from] = "none"
  PROVE  Steady
<1>1. j.file \in Ids
  BY DEF Inv, TypeOK, Rename
<1>2. /\ \A k \in Ids \ {j.file} : rows'[k] = rows[k]
      /\ rows[j.file] # NoRow => rows'[j.file].path = j.to
  BY <1>1, UpdatedRows
<1>3. \A i \in Stored : Opens(i)' = Opens(i)
  <2> SUFFICES ASSUME NEW i \in Stored
               PROVE  Opens(i)' = Opens(i)
    OBVIOUS
  <2>1. CASE i = j.file
    <3>1. Live(i) /\ \A k \in journal : k.file = i => k = j
      BY <2>1 DEF Live, Stored
    <3>2. disk[j.to] # "none" => OpensIn(disk, rows[i].path, journal, i) = disk[j.to]
      <4> SUFFICES ASSUME disk[j.to] # "none"
                   PROVE  OpensIn(disk, rows[i].path, journal, i) = disk[j.to]
        OBVIOUS
      <4>1. /\ j \in journal /\ j.file = i /\ disk[rows[i].path] = "none" /\ disk[j.to] # "none"
            /\ \A k \in journal : k.file = i => disk[k.to] = disk[j.to]
        BY <2>1, <3>1
      <4>2. GoneTo(disk, rows[i].path, journal, i, disk[j.to])
        BY <4>1 DEF GoneTo
      <4> QED
        BY <4>2, OpensMoved
    <3>3. disk[j.to] # "none" => OpensIn(disk', rows'[i].path, journal', i) = disk[j.to]
      BY <1>2, <2>1, <3>1, OpensFile DEF Live
    <3>4. disk[j.to] = "none" => /\ OpensIn(disk, rows[i].path, journal, i) = "lost"
                                 /\ OpensIn(disk', rows'[i].path, journal', i) = "lost"
      BY <1>2, <2>1, <3>1, OpensLost DEF Live
    <3> QED
      BY <3>2, <3>3, <3>4, OpensNow, OpensNext
  <2>2. CASE i # j.file
    BY <1>2, <2>2, OpensNow, OpensNext, OpensSame DEF Stored
  <2> QED
    BY <2>1, <2>2
<1> QED
  BY <1>3 DEF Steady

\* The row that follows its file opens to the same bytes.
LEMMA RenameRecordedShown ==
  ASSUME Inv, Tidy, RenameRecorded
  PROVE  Steady
<1>1. /\ step = "renamed" /\ UNCHANGED <<books, disk, edits>>
      /\ rows' = Updated(repair.id, repair.stored, repair.goal)
      /\ journal' = journal \ {Entry(repair)}
  BY DEF RenameRecorded, files, spent, user
<1>2. /\ Entry(repair) \in journal /\ disk[repair.path] = "none"
      /\ Live(repair.id) => /\ rows[repair.id].path = repair.path
                            /\ \A k \in journal : Live(k.file) => k = Entry(repair)
  BY <1>1 DEF Tidy, MendTrue
<1>3. /\ Entry(repair).file = repair.id /\ Entry(repair).hash = repair.stored
      /\ Entry(repair).to = repair.goal /\ Entry(repair).from = repair.path
  BY DEF Entry
<1> QED
  BY <1>1, <1>2, <1>3, CaughtUpShown

\* Until its row is inserted, an import shows nothing.
LEMMA ImportShown ==
  ASSUME Inv, Tidy, ImportStep, ~ImportInsert
  PROVE  Steady
<1>1. CASE ImportPublish \/ ImportInsertFails
  <2>1. /\ step \in Importing \ {"copied"} /\ UNCHANGED <<rows, books, journal, edits>>
    BY <1>1 DEF ImportPublish, ImportInsertFails, Importing, db, spent, user
  <2>2. /\ Unowned(Home) /\ Home \in Path
        /\ \A j \in journal : Live(j.file) => j.to # Home
    BY <2>1, HomeUnowned
  <2>3. \A p \in Path \ {Home} : disk'[p] = disk[p]
    BY <1>1 DEF ImportPublish, ImportInsertFails, Inv, TypeOK
  <2>4. \A i \in Stored : Kept(i)
    BY <2>1, <2>2, <2>3, RowTyped DEF Kept, Same, Unowned, Stored, Row
  <2>5. \A j \in journal : Live(j.file) => disk'[j.to] = disk[j.to]
    BY <2>2, <2>3 DEF Inv, TypeOK, Rename
  <2> QED
    BY <2>1, <2>4, <2>5, KeptShown
<1>2. CASE ~ImportPublish /\ ~ImportInsertFails
  <2>1. UNCHANGED <<rows, books, journal, disk, edits>>
    BY <1>2 DEF ImportStep, ImportStart, ImportCopy, ImportStops, ImportRaises, ImportAccept,
       ImportVerbatim, ImportConvert, ImportConverted, ImportUnconverted, ImportRefused, ImportEnd,
       Dropped, db, files, spent, user
  <2> QED
    BY <2>1, QuietShown
<1> QED
  BY <1>1, <1>2

\* The unlinked file has no row left; an entry may lead to it whose row failed.
LEMMA UnlinkOldShown ==
  ASSUME Inv, Tidy, UnlinkOld
  PROVE  Steady
<1>1. /\ step = "unlinking" /\ UNCHANGED <<rows, books, journal, edits>>
      /\ disk' \in {disk, [disk EXCEPT ![repair.path] = "none"]}
  BY DEF UnlinkOld, db, spent, user
<1>2. Unowned(repair.path) /\ \A j \in journal : Live(j.file) => j.file \in unrecorded
  BY <1>1 DEF Tidy, MendTrue, Mending
<1>3. \A i \in Stored : Kept(i)
  BY <1>1, <1>2, RowTyped DEF Kept, Same, Unowned, Stored, Row, Inv, TypeOK
<1> QED
  BY <1>1, <1>2, <1>3, KeptShown

\* A renamed file is found by its entry of the journal.
LEMMA RenameFileShown ==
  ASSUME Inv, Tidy, RenameFile
  PROVE  Steady
<1>1. /\ step = "renaming" /\ UNCHANGED <<rows, books, journal, edits>>
      /\ disk' = [disk EXCEPT ![repair.path] = "none", ![repair.goal] = disk[repair.path]]
  BY DEF RenameFile, db, spent, user
<1>2. /\ repair \in Job /\ repair.id \in Ids /\ repair.path \in Path /\ repair.goal \in Path
      /\ \A i \in Stored : rows[i].path = repair.path => i = repair.id
      /\ \A j \in journal : j \in Rename /\ (Live(j.file) => j = Entry(repair) \/ j.file \in unrecorded)
      /\ Entry(repair) \in journal
      /\ repair.goal # repair.path /\ Unowned(repair.goal)
      /\ Live(repair.id) => rows[repair.id].path = repair.path /\ \A j \in journal : Live(j.file) => j = Entry(repair)
      /\ disk[repair.path] = repair.stored /\ repair.stored # "none"
  BY <1>1, LibraryAssumption DEF RenameFile, Inv, WorkOK, TypeOK, Tidy, MendTrue, Mending, Job
<1>3. /\ disk'[repair.path] = "none" /\ disk'[repair.goal] = repair.stored
      /\ \A p \in Path \ {repair.path, repair.goal} : disk'[p] = disk[p]
  BY <1>1, <1>2 DEF Inv, TypeOK
<1>4. \A i \in Stored : Opens(i)' = Opens(i) \/ i \in unrecorded
  <2> SUFFICES ASSUME NEW i \in Stored, i \notin unrecorded
               PROVE  Opens(i)' = Opens(i)
    OBVIOUS
  <2>1. i \in Ids /\ Live(i) /\ rows[i].path \in Path /\ rows[i].path # repair.goal
    BY <1>2, RowTyped DEF Stored, Row, Live, Unowned
  <2>2. CASE i = repair.id
    <3>1. /\ Entry(repair).file = i /\ Entry(repair).to = repair.goal
          /\ \A j \in journal : j.file = i => j = Entry(repair)
      BY <1>2, <2>1, <2>2 DEF Entry
    <3>2. OpensIn(disk', rows'[i].path, journal', i) = repair.stored
      <4> DEFINE e == Entry(repair)
      <4>1. /\ e \in journal' /\ e.file = i /\ disk'[e.to] = repair.stored /\ repair.stored # "none"
            /\ \A j \in journal' : j.file = i => disk'[j.to] = repair.stored
            /\ disk'[rows'[i].path] = "none"
        BY <1>1, <1>2, <1>3, <2>1, <2>2, <3>1
      <4> HIDE DEF e
      <4>2. GoneTo(disk', rows'[i].path, journal', i, repair.stored)
        BY <4>1 DEF GoneTo
      <4> QED
        BY <4>2, OpensMoved
    <3>3. OpensIn(disk, rows[i].path, journal, i) = repair.stored
      BY <1>2, <2>1, <2>2, OpensFile
    <3> QED
      BY <3>2, <3>3, OpensNow, OpensNext
  <2>3. CASE i # repair.id
    <3>1. Kept(i)
      BY <1>1, <1>2, <1>3, <2>1, <2>3 DEF Kept, Same, Live, Stored
    <3>2. \A j \in journal : j.file # i
      BY <1>2, <2>1, <2>3 DEF Entry
    <3> QED
      BY <1>1, <3>1, <3>2, OpensKept
  <2> QED
    BY <2>2, <2>3
<1> QED
  BY <1>1, <1>4 DEF Steady

\* A swept file has no row; an entry may lead to it whose row failed.
LEMMA SweepShown ==
  ASSUME Inv, Tidy, Sweep
  PROVE  Steady
<1>1. /\ step = "applying" /\ UNCHANGED <<rows, books, journal, edits>>
      /\ \E gone \in {{}, plan.orphans \ Referenced} :
           disk' = [p \in Path |-> IF p \in gone THEN "none" ELSE disk[p]]
  BY DEF Sweep, db, spent, user
<1>2. \A p \in Path : disk'[p] = disk[p] \/ (disk'[p] = "none" /\ p \notin Referenced)
  BY <1>1
<1>3. \A i \in Stored : Kept(i)
  BY <1>1, <1>2, RowTyped DEF Kept, Same, Referenced, Stored, Row
<1>4. \A j \in journal : Live(j.file) => disk'[j.to] = disk[j.to] \/ j.file \in unrecorded
  BY <1>1, <1>2 DEF Tidy, JournalTrue, EntriesTrue, EntryTrue, Inv, TypeOK, Rename
<1> QED
  BY <1>1, <1>3, <1>4, KeptShown

\* Recovery changes what no book opens to.
LEMMA RecoverEntryShown ==
  ASSUME Inv, Tidy, NEW j \in journal, RecoverEntry(j)
  PROVE  Steady
<1>1. /\ step = "recovering" /\ journal' = journal \ {j} /\ UNCHANGED <<books, disk, edits>>
      /\ (Undone(j) /\ UNCHANGED rows) \/ (Done(j) /\ rows' = Updated(j.file, j.hash, j.to))
  BY DEF RecoverEntry, files, user
<1>2. Live(j.file) => rows[j.file].path = j.from /\ \A k \in journal : Live(k.file) => k = j
  BY DEF Tidy, JournalTrue, EntriesTrue, EntryTrue
<1>3. CASE Undone(j) /\ UNCHANGED rows
  <2>1. \A i \in Stored : Opens(i)' = Opens(i)
    BY <1>1, <1>2, <1>3, OpensNow, OpensNext, OpensSame DEF Undone, Live, Stored
  <2> QED
    BY <1>1, <2>1 DEF Steady
<1>4. CASE Done(j) /\ rows' = Updated(j.file, j.hash, j.to)
  BY <1>1, <1>2, <1>4, CaughtUpShown DEF Done
<1> QED
  BY <1>1, <1>3, <1>4

-----------------------------------------------------------------------------
(* A book has the identifier its import was given, so that none is there   *)
(* when the row of that import is made; what is astray was given one, and  *)
(* the file of a duplicate is still there unless a deletion took it.       *)
Given ==
  /\ \A b \in Ids : books[b] # "none" => b \in used
  /\ step \in Importing => books[artifact.id] = "none"
  /\ step \notin Importing => artifact = NoArtifact
  /\ raced \subseteq used
  /\ step \in Mending => repair.id \in used
  /\ step = "merging" /\ Live(repair.id) /\ disk[repair.path] = "none" => repair.id \in raced

LEMMA ImportGiven ==
  ASSUME Inv, Tidy, Given, ImportStep
  PROVE  Given'
<1>1. step' \notin Mending /\ raced' = raced
  BY DEF ImportStep, ImportStart, ImportCopy, ImportStops, ImportRaises, ImportAccept,
     ImportVerbatim, ImportConvert, ImportConverted, ImportUnconverted, ImportRefused, ImportEnd,
     ImportPublish, ImportInsert, ImportInsertFails, Dropped, Mending, spent, marks
<1>2. step' # "merging"
  BY <1>1 DEF Mending
<1>3. ASSUME NEW i \in Ids, NEW c \in Sources, ImportCopy(i, c)
      PROVE  Given'
  <2>1. /\ i \notin used /\ used' = used \cup {i} /\ books' = books
        /\ step' = "copied" /\ artifact'.id = i
    BY <1>3 DEF ImportCopy, db
  <2> QED
    BY <1>1, <1>2, <2>1 DEF Given, Importing
<1>4. CASE ImportInsert
  <2>1. artifact.id \in Ids /\ artifact.id \in used
    BY <1>4, DraftHome DEF ImportInsert, Importing, Draft, Inv, Fresh
  <2>2. /\ books' = [books EXCEPT ![artifact.id] = artifact.id] /\ used' = used /\ step' = "batch"
        /\ artifact' = NoArtifact
    BY <1>4 DEF ImportInsert, spent
  <2> QED
    BY <1>1, <1>2, <2>1, <2>2 DEF Given, Inv, TypeOK, Importing
<1>5. CASE ImportConverted \/ ImportPublish
  <2>1. artifact \in Draft /\ step \in Importing /\ step' \in Importing
    BY <1>5, DraftHome DEF ImportConverted, ImportPublish, Importing
  <2>2. artifact'.id = artifact.id /\ UNCHANGED <<books, used>>
    BY <1>5, <2>1 DEF ImportConverted, ImportPublish, Draft, db, spent
  <2> QED
    BY <1>1, <1>2, <2>1, <2>2 DEF Given
<1>6. CASE \/ ImportStart \/ ImportStops \/ ImportRaises \/ ImportAccept \/ ImportVerbatim
           \/ ImportConvert \/ ImportUnconverted \/ ImportRefused \/ ImportInsertFails \/ ImportEnd
  <2>1. /\ UNCHANGED <<books, used>>
        /\ \/ step' \in Importing /\ step \in Importing /\ artifact' = artifact
           \/ step' \notin Importing /\ artifact' = NoArtifact
           \/ step' \notin Importing /\ step \notin Importing /\ artifact' = artifact
    BY <1>6 DEF ImportStart, ImportStops, ImportRaises, ImportAccept, ImportVerbatim, ImportConvert,
       ImportUnconverted, ImportRefused, ImportInsertFails, ImportEnd, Dropped, Importing,
       db, files, work, spent, Free
  <2> QED
    BY <1>1, <1>2, <2>1 DEF Given
<1> QED
  BY <1>3, <1>4, <1>5, <1>6 DEF ImportStep

LEMMA MaintenanceGiven ==
  ASSUME Inv, Tidy, Given, MaintenanceStep
  PROVE  Given'
<1>1. /\ step \notin Importing /\ step' \notin Importing /\ artifact' = artifact
      /\ raced' = raced /\ used' = used
  BY DEF MaintenanceStep, ScanRows, ScanFiles, DropPlan, ApplyStart, ApplyItem, ItemSkipped,
     ItemMarked, ItemTwin, ItemInPlace, ItemAdopts, ItemJournalled, Quick, Merge, UnlinkOld,
     RenameFile, RenameFails, RenameRecorded, RenameUnrecorded, Sweep, Restart, RecoverEntry,
     Recovered, Repaired, Importing, Free, files, work, spent, marks
<1>2. \A b \in Ids : books'[b] # "none" => books[b] # "none"
  <2>1. CASE Merge
    BY <2>1, LibraryAssumption DEF Merge, Inv, WorkOK, Job, Mending
  <2>2. CASE ~Merge
    BY <2>2 DEF MaintenanceStep, ScanRows, ScanFiles, DropPlan, ApplyStart, ApplyItem,
       ItemSkipped, ItemMarked, ItemTwin, ItemInPlace, ItemAdopts, ItemJournalled, UnlinkOld,
       RenameFile, RenameFails, RenameRecorded, RenameUnrecorded, Sweep, Restart, RecoverEntry,
       Recovered, db
  <2> QED
    BY <2>1, <2>2
<1>3. step' \in Mending => repair'.id \in used
  <2>1. ASSUME NEW t \in plan.items, ItemTwin(t) \/ ItemAdopts(t) \/ ItemJournalled(t)
        PROVE  repair'.id \in used
    BY <2>1 DEF ItemTwin, ItemAdopts, ItemJournalled, Repairing, Inv, Fresh
  <2>2. ASSUME \A t \in plan.items : ~(ItemTwin(t) \/ ItemAdopts(t) \/ ItemJournalled(t)), step' \in Mending
        PROVE  step \in Mending /\ repair' = repair
    BY <2>2 DEF MaintenanceStep, ScanRows, ScanFiles, DropPlan, ApplyStart, ApplyItem,
       ItemSkipped, ItemMarked, ItemInPlace, Quick, Merge, UnlinkOld,
       RenameFile, RenameFails, RenameRecorded, RenameUnrecorded, Sweep, Restart, RecoverEntry,
       Recovered, Repaired, Mending, work
  <2> QED
    BY <2>1, <2>2 DEF Given
<1>4. step' = "merging" => disk'[repair'.path] # "none"
  <2>1. step' = "merging" => \E t \in plan.items : ItemTwin(t)
    BY DEF MaintenanceStep, ScanRows, ScanFiles, DropPlan, ApplyStart, ApplyItem, ItemSkipped,
       ItemMarked, ItemInPlace, ItemAdopts, ItemJournalled, Quick, Merge, UnlinkOld,
       RenameFile, RenameFails, RenameRecorded, RenameUnrecorded, Sweep, Restart, RecoverEntry,
       Recovered, Repaired
  <2>2. ASSUME NEW t \in plan.items, ItemTwin(t)
        PROVE  disk'[repair'.path] # "none"
    BY <2>2 DEF ItemTwin, Repairing, Changed, Valid, Unmoved, Now, files
  <2> QED
    BY <2>1, <2>2
<1> QED
  BY <1>1, <1>2, <1>3, <1>4 DEF Given

LEMMA StepGiven ==
  ASSUME Careful, Inv, Tidy, Given, [Next]_libraryVars
  PROVE  Given'
<1>1. ASSUME NEW b \in Ids, DeleteBook(b)
      PROVE  Given'
  <2>1. /\ UNCHANGED <<disk, step, artifact, repair, raced, used>>
        /\ books' = [books EXCEPT ![b] = "none"]
        /\ \A i \in Ids : rows'[i] # NoRow => rows[i] # NoRow
    BY <1>1 DEF DeleteBook, files, work, spent, marks, Inv, TypeOK
  <2>2. step = "merging" => repair.id \in Ids
    BY DEF Inv, WorkOK, Mending, Job
  <2>3. \A a \in Ids : books'[a] # "none" => books[a] # "none"
    BY <2>1 DEF Inv, TypeOK
  <2>4. step \in Importing => artifact.id \in Ids
    BY DEF Inv, WorkOK, Draft
  <2> QED
    BY <2>1, <2>2, <2>3, <2>4 DEF Given, Live, Inv, TypeOK
<1>2. ASSUME NEW p \in Path, DeleteFile(p)
      PROVE  Given'
  <2>1. /\ UNCHANGED <<rows, books, step, artifact, repair, used>>
        /\ raced \subseteq raced' /\ raced' \subseteq raced \cup Takers(p)
        /\ disk' = disk \/ (disk' = [disk EXCEPT ![p] = "none"] /\ raced' = raced \cup Takers(p))
    BY <1>2 DEF DeleteFile, db, work
  <2>2. Takers(p) \subseteq used
    BY DEF Takers, Owners, Inv, Fresh, Given, Importing, Mending
  <2>3. step = "merging" /\ rows'[repair.id] # NoRow /\ disk'[repair.path] = "none" => repair.id \in raced'
    <3> SUFFICES ASSUME step = "merging", Live(repair.id), disk'[repair.path] = "none", disk[repair.path] # "none"
                 PROVE  repair.id \in raced'
      BY <2>1 DEF Given, Live
    <3>1. /\ repair.id \in Ids /\ repair.path \in Path /\ rows[repair.id].path = repair.path
          /\ disk \in [Path -> Contents \cup {"none"}]
      BY DEF Inv, TypeOK, WorkOK, Mending, Job, Tidy, MendTrue
    <3>2. repair.path = p /\ raced' = raced \cup Takers(p)
      BY <2>1, <3>1
    <3> QED
      BY <3>1, <3>2 DEF Takers, Owners, Stored, Live
  <2> QED
    BY <2>1, <2>2, <2>3 DEF Given, Live
<1>3. ASSUME NEW p \in Path, NEW c \in Edits \cup {"none"}, AlterFile(p, c)
      PROVE  Given'
  <2>1. UNCHANGED <<rows, books, step, artifact, repair, used, raced>>
    BY <1>3 DEF AlterFile, db, work, marks
  <2> QED
    BY <1>3, <2>1, AlterSpares DEF Given, Live
<1>4. CASE Crash
  BY <1>4 DEF Crash, Given, Importing, Mending, db, marks
<1>5. CASE UNCHANGED libraryVars
  BY <1>5 DEF libraryVars, Given, Live, db, files, work, spent, marks
<1> QED
  BY <1>1, <1>2, <1>3, <1>4, <1>5, ImportGiven, MaintenanceGiven DEF Next

-----------------------------------------------------------------------------
(* The books of the merged row open to the twin, which has the same bytes  *)
(* unless the late unlink of a deletion took its file or the row's own.    *)
LEMMA MergeShown ==
  ASSUME Inv, Inv', Tidy, Given, Merge
  PROVE  ShelfStep
<1> DEFINE m == repair.id
           w == repair.twin
           S == OnFile(m)
<1>1. /\ step = "merging" /\ UNCHANGED <<journal, disk, edits, raced, unrecorded, unlinks, artifact>>
      /\ books' = [b \in Ids |-> IF Mergeable /\ books[b] = m THEN w ELSE books[b]]
      /\ rows' = IF Mergeable THEN [rows EXCEPT ![m] = NoRow] ELSE rows
  BY DEF Merge, files, spent, user, marks
<1>2. /\ m \in Ids /\ w \in Ids \ {m} /\ repair.stored \in Contents /\ repair.stored # "none"
      /\ repair.stored \in edited
      /\ Live(w) => rows[w].stored = repair.stored
      /\ Live(m) => /\ rows[m].path = repair.path /\ rows[m].stored # repair.stored
                    /\ disk[repair.path] \in {repair.stored, "none"}
                    /\ Hurt \subseteq {m} /\ \A j \in journal : ~Live(j.file)
                    /\ disk[repair.path] = "none" => m \in raced
  BY <1>1, LibraryAssumption DEF Inv, WorkOK, Tidy, MendTrue, Mending, Job, Given
<1>3. \A k \in Ids \ {m} : rows'[k] = rows[k]
  BY <1>1
<1>4. \A k \in Ids \ {m} : Opens(k)' = Opens(k) /\ OpensIn(disk', rows'[k].path, journal', k) = Opens(k)
  BY <1>1, <1>3, OpensNow, OpensNext
<1>5. CASE ~Mergeable \/ ~Live(m)
  <2>1. books' = books
    BY <1>1, <1>2, <1>5, LibraryAssumption DEF Inv, TypeOK, Live
  <2>2. \A i \in Stored : Opens(i)' = Opens(i)
    <3>1. CASE ~Mergeable
      BY <1>1, <3>1, OpensNow, OpensNext
    <3>2. CASE ~Live(m)
      BY <1>4, <3>2 DEF Live, Stored
    <3> QED
      BY <1>5, <3>1, <3>2
  <2> QED
    BY <1>1, <2>1, <2>2, SteadyStep DEF Steady
<1>6. CASE Mergeable /\ Live(m) /\ S = {}
  <2>1. books' = books
    BY <1>1, <1>6 DEF OnFile, Inv, TypeOK
  <2>2. \A b \in Ids : books[b] # "none" => books[b] \in Ids \ {m}
    BY <1>6 DEF OnFile, Inv, TypeOK
  <2>3. Shown' = Shown
    BY <1>4, <2>1, <2>2, ShownThen DEF Shown
  <2>4. Astray' = Astray /\ Leaving' = Leaving
    BY <1>1, <2>1 DEF Astray, Leaving
  <2> QED
    BY <1>1, <2>3, <2>4 DEF ShelfStep
<1>7. CASE Mergeable /\ Live(m) /\ S # {}
  <2>1. Live(w)
    BY <1>7 DEF Mergeable, Live
  <2>2. \A b \in Ids : /\ b \in S => books[b] = m /\ books'[b] = w
                       /\ b \notin S => books'[b] = books[b]
    BY <1>1, <1>7 DEF OnFile
  <2>3. /\ m # "none" /\ w # "none" /\ S \subseteq Ids
        /\ \A b \in Ids : books[b] # "none" => books[b] \in Ids
    BY <1>2, LibraryAssumption DEF OnFile, Inv, TypeOK
  <2> HIDE DEF S
  <2>4. \A b \in Ids \ S : Shown'[b] = Shown[b]
    <3> SUFFICES ASSUME NEW b \in Ids \ S
                 PROVE  Shown'[b] = Shown[b]
      OBVIOUS
    <3>1. CASE books[b] = "none"
      BY <2>2, <3>1, ShownThen DEF Shown
    <3>2. CASE books[b] # "none"
      <4>1. books[b] \in Ids \ {m} /\ books'[b] = books[b]
        BY <2>2, <2>3, <3>2 DEF S, OnFile
      <4>2. Shown'[b] = Opens(books[b])' /\ Shown[b] = Opens(books[b])
        BY <3>2, <4>1, ShownThen, OpensNext DEF Shown
      <4> QED
        BY <1>4, <4>1, <4>2
    <3> QED
      BY <3>1, <3>2
  <2>5. \A b \in S : Shown[b] = Opens(m) /\ Shown'[b] = Opens(w) /\ Shown[b] # "absent"
    <3>1. \A b \in S : Shown'[b] = OpensIn(disk', rows'[w].path, journal', w)
      BY <2>2, <2>3, ShownThen
    <3>2. \A b \in S : Shown[b] = Opens(m) /\ Shown[b] # "absent"
      BY <2>2, <2>3, ShownFacts
    <3> QED
      BY <1>2, <1>4, <3>1, <3>2
  <2>6. Opens(w) \in Contents \cup {"lost"} /\ Opens(w) # "absent"
    BY <1>2, <2>1, OpensTyped, LibraryAssumption DEF Stored, Live
  <2>7. edits > 0
    BY <1>2 DEF Tidy, FilesTrue, Learnt
  <2>8. Leaving' = Leaving
    BY <1>1 DEF Leaving
  <2>9. /\ \A b \in Ids \ S : b \in Astray' <=> b \in Astray
        /\ \A b \in S : /\ b \in Astray' <=> w \in raced \cup unrecorded
                        /\ b \in Astray <=> m \in raced \cup unrecorded
    BY <1>1, <2>2, <2>3 DEF Astray
  <2>10. w \notin unrecorded
    BY <1>2, <1>7, <2>1 DEF Tidy, JournalTrue, Noted, Live
  <2>11. CASE w \in raced
    <3>1. Astray' = Astray \cup S
      BY <2>3, <2>9, <2>11 DEF Astray
    <3>2. Shown' = [b \in Ids |-> IF b \in S /\ Shown[b] # "absent" THEN Opens(w) ELSE Shown[b]]
      BY <2>4, <2>5 DEF Shown
    <3> QED
      BY <1>1, <2>3, <2>5, <2>6, <2>7, <2>8, <3>1, <3>2, GoAstrayIs
  <2>12. CASE w \notin raced
    <3>1. disk[rows[w].path] = repair.stored
      <4>1. w \notin Hurt
        BY <1>2, <1>7
      <4> QED
        BY <1>2, <2>1, <2>12, <4>1 DEF Hurt, Damaged, Sound, Stored, Live
    <3>2. Opens(w) = repair.stored
      BY <1>2, <3>1, OpensNow, OpensFile
    <3>3. \A b \in S : Shown'[b] = Shown[b] \/ b \in Astray
      <4>1. CASE disk[repair.path] = "none"
        BY <1>2, <1>7, <2>9, <4>1
      <4>2. CASE disk[repair.path] = repair.stored
        <5>1. Opens(m) = repair.stored
          BY <1>2, <1>7, <4>2, OpensNow, OpensFile
        <5> QED
          BY <2>5, <3>2, <5>1
      <4> QED
        BY <1>2, <1>7, <4>1, <4>2
    <3>4. Astray' \subseteq Astray
      BY <2>9, <2>10, <2>12 DEF Astray
    <3>5. Shown' \in [Ids -> Contents \cup {"lost", "absent"}]
      BY ShownNext DEF ShowsBooks
    <3>6. \A b \in Ids : Shown'[b] = Shown[b] \/ (b \in Astray /\ Shown[b] # "absent" /\ Shown'[b] # "absent")
      BY <2>4, <2>5, <2>6, <3>3
    <3> QED
      BY <1>1, <2>8, <3>4, <3>5, <3>6, WanderIs
  <2> QED
    BY <2>11, <2>12
<1> QED
  BY <1>5, <1>6, <1>7

\* The books of the row whose update failed are found by its entry only.
LEMMA RenameUnrecordedShown ==
  ASSUME Inv, Tidy, RenameUnrecorded
  PROVE  ShelfStep
<1> DEFINE m == repair.id
           S == OnFile(m)
           v == IF Live(m) THEN Opens(m) ELSE "lost"
<1>1. /\ step = "renamed" /\ unrecorded' = unrecorded \cup {m}
      /\ UNCHANGED <<rows, books, journal, disk, edits, raced, unlinks, artifact>>
  BY DEF RenameUnrecorded, db, files, user
<1>2. m \in Ids /\ edits > 0
  BY <1>1 DEF Inv, WorkOK, Tidy, MendTrue, FilesTrue, Learnt, Mending, Job
<1>3. Shown' = Shown
  BY <1>1 DEF Shown, Opens
<1>4. S \subseteq Ids /\ m # "none" /\ \A b \in S : books[b] = m /\ Live(m)
  BY <1>2, LibraryAssumption DEF OnFile, Inv, TypeOK, Live
<1>5. v \in Contents \cup {"lost"}
  BY <1>2, OpensTyped DEF Live, Stored
<1>6. \A b \in S : Shown[b] = v
  BY <1>4 DEF Shown
<1>7. Astray' = Astray \cup S /\ Leaving' = Leaving
  BY <1>1, <1>4 DEF Astray, Leaving, OnFile
<1> HIDE DEF S, v
<1>8. Shown' = [b \in Ids |-> IF b \in S /\ Shown[b] # "absent" THEN v ELSE Shown[b]]
  BY <1>3, <1>6 DEF Shown
<1> QED
  BY <1>1, <1>2, <1>4, <1>5, <1>6, <1>7, <1>8, GoAstrayIs

\* No other step of an audit, a repair or a recovery moves a book that is not astray.
LEMMA MaintenanceShown ==
  ASSUME Inv, Inv', Tidy, Given, MaintenanceStep
  PROVE  ShelfStep
<1>1. ScanRows \/ ScanFiles \/ DropPlan \/ ApplyStart \/ Restart \/ Recovered => Steady
  BY QuietShown DEF ScanRows, ScanFiles, DropPlan, ApplyStart, Restart, Recovered, db, files, spent, user
<1>2. ASSUME NEW t \in plan.items, ItemSkipped(t) \/ ItemTwin(t)
      PROVE  Steady
  BY <1>2, QuietShown DEF ItemSkipped, ItemTwin, db, files, spent, user
<1>3. CASE ~Merge /\ ~RenameUnrecorded
  <2>1. Steady
    BY <1>1, <1>2, <1>3, MarkedShown, InPlaceShown, JournalledShown, UnlinkOldShown, RenameFileShown,
       RenameFailsShown, RenameRecordedShown, SweepShown, RecoverEntryShown
       DEF MaintenanceStep, ApplyItem
  <2>2. UNCHANGED <<raced, unlinks, artifact>> /\ unrecorded' \subseteq unrecorded
    BY <1>3 DEF MaintenanceStep, ScanRows, ScanFiles, DropPlan, ApplyStart, ApplyItem, ItemSkipped,
     ItemMarked, ItemTwin, ItemInPlace, ItemAdopts, ItemJournalled, UnlinkOld, RenameFile,
     RenameFails, RenameRecorded, Sweep, Restart, RecoverEntry, Recovered, work, spent, marks
  <2> QED
    BY <2>1, <2>2, SteadyStep
<1> QED
  BY <1>3, MergeShown, RenameUnrecordedShown

\* The book of an import appears, already astray if an unlink took its file.
LEMMA InsertShown ==
  ASSUME Inv, Tidy, Given, ImportInsert
  PROVE  ShelfStep
<1> DEFINE i == artifact.id
           c == IF disk[Home] = "none" THEN "lost" ELSE artifact.stored
<1>1. /\ step = "published" /\ UNCHANGED <<journal, disk, edits, unlinks, raced, unrecorded>>
      /\ rows' = [rows EXCEPT ![artifact.id] =
           [path |-> Home, source |-> artifact.source, stored |-> artifact.stored,
            kind |-> artifact.kind, state |-> "healthy"]]
      /\ books' = [books EXCEPT ![artifact.id] = artifact.id] /\ artifact' = NoArtifact
  BY DEF ImportInsert, files, spent, user, marks
<1>2. /\ i \in Ids /\ i # "none" /\ rows[i] = NoRow /\ books[i] = "none" /\ i \notin unrecorded
      /\ disk[Home] = "none" => i \in raced
      /\ disk[Home] # "none" => disk[Home] = artifact.stored
      /\ \A j \in journal : j.file # i
      /\ c \in Contents \cup {"lost"}
  <2>1. /\ artifact \in Draft /\ rows[i] = NoRow /\ books[i] = "none" /\ i \notin unrecorded
        /\ disk[Home] = artifact.stored \/ (disk[Home] = "none" /\ i \in raced)
        /\ \A j \in journal : j.file # i
    BY <1>1, DraftHome DEF Inv, Fresh, Tidy, ImportTrue, Given, Importing
  <2>2. artifact.stored \in Contents
    BY <2>1 DEF Draft
  <2> QED
    BY <2>1, <2>2, LibraryAssumption DEF Draft
<1>3. /\ rows'[i].path = Home /\ books'[i] = i
      /\ \A k \in Ids \ {i} : rows'[k] = rows[k] /\ books'[k] = books[k]
  BY <1>1, <1>2 DEF Inv, TypeOK
<1>4. OpensIn(disk', Home, journal', i) = c
  BY <1>1, <1>2, OpensFile, OpensLost
<1>5. c = "lost" => i \in Astray
  <2>1. c = "lost" => disk[Home] = "none"
    BY <1>1, DraftHome, LibraryAssumption DEF Importing, Draft
  <2> QED
    BY <1>2, <2>1 DEF Astray
<1>6. Astray' = Astray /\ Leaving' = Leaving
  <2>1. NoArtifact.id = "none" /\ "none" \notin raced
    BY LibraryAssumption DEF NoArtifact, Inv, TypeOK
  <2>2. \A b \in Ids : b \in Astray' <=> b \in Astray
    BY <1>1, <1>2, <1>3, <2>1 DEF Astray
  <2> QED
    BY <1>1, <2>2 DEF Astray, Leaving
<1> HIDE DEF i, c
<1>7. Shown'[i] = c
  BY <1>2, <1>3, <1>4, ShownThen
<1>8. ASSUME NEW b \in Ids \ {i}
      PROVE  Shown'[b] = Shown[b]
  <2>1. CASE books[b] = "none"
    BY <1>3, <2>1, ShownThen DEF Shown
  <2>2. CASE books[b] # "none"
    <3>1. books[b] \in Ids /\ books[b] # i /\ books'[b] = books[b]
      BY <1>2, <1>3, <2>2 DEF Inv, TypeOK
    <3>2. Shown'[b] = OpensIn(disk, rows[books[b]].path, journal, books[b])
      BY <1>1, <1>3, <2>2, <3>1, ShownThen
    <3> QED
      BY <2>2, <3>2, OpensNow DEF Shown
  <2> QED
    BY <2>1, <2>2
<1>9. Shown' = [Shown EXCEPT ![i] = c]
  BY <1>2, <1>7, <1>8 DEF Shown
<1>10. Shown[i] = "absent"
  BY <1>2 DEF Shown
<1> QED
  BY <1>1, <1>2, <1>5, <1>6, <1>9, <1>10, AddIs

\* A deletion takes one book off the shelf.
LEMMA DeleteBookShown ==
  ASSUME Inv, Tidy, Given, NEW b \in Ids, DeleteBook(b)
  PROVE  ShelfStep
<1> DEFINE i == books[b]
           last == OnFile(i) = {b}
<1>1. /\ i # "none" /\ i \in Ids /\ UNCHANGED <<journal, disk, edits, raced, unrecorded, artifact>>
      /\ books' = [books EXCEPT ![b] = "none"]
      /\ rows' = IF last THEN [rows EXCEPT ![i] = NoRow] ELSE rows
      /\ unlinks \subseteq unlinks'
  BY DEF DeleteBook, files, work, spent, user, marks, Inv, TypeOK
<1>2. last => \A a \in Ids : books[a] = i => a = b
  BY DEF OnFile
<1>3. Shown[b] # "absent"
  BY <1>1, ShownFacts
<1> HIDE DEF last
<1>4. ASSUME NEW a \in Ids \ {b}
      PROVE  Shown'[a] = Shown[a]
  <2>1. books'[a] = books[a]
    BY <1>1
  <2>2. CASE books[a] = "none"
    BY <2>1, <2>2, ShownThen DEF Shown
  <2>3. CASE books[a] # "none"
    <3>1. books[a] \in Ids /\ rows'[books[a]] = rows[books[a]]
      BY <1>1, <1>2, <2>3 DEF Inv, TypeOK
    <3>2. Shown'[a] = OpensIn(disk, rows[books[a]].path, journal, books[a])
      BY <1>1, <2>1, <2>3, <3>1, ShownThen
    <3> QED
      BY <2>3, <3>2, OpensNow DEF Shown
  <2> QED
    BY <2>2, <2>3
<1>5. books'[b] = "none"
  BY <1>1 DEF Inv, TypeOK
<1>6. Shown' = [Shown EXCEPT ![b] = "absent"]
  <2>1. Shown'[b] = "absent"
    BY <1>5, ShownThen
  <2> QED
    BY <1>4, <2>1 DEF Shown
<1>7. Astray' = Astray \ {b}
  <2>1. artifact.id # b
    <3>1. CASE step \in Importing
      BY <1>1, <3>1 DEF Given
    <3>2. CASE step \notin Importing
      BY <3>2, LibraryAssumption DEF Given, NoArtifact
    <3> QED
      BY <3>1, <3>2
  <2>2. \A a \in Ids \ {b} : books'[a] = books[a]
    BY <1>1
  <2> QED
    BY <1>1, <1>5, <2>1, <2>2 DEF Astray
<1>8. Leaving' \in {Leaving, TRUE}
  BY <1>1 DEF Leaving
<1> QED
  BY <1>1, <1>3, <1>6, <1>7, <1>8, RemoveIs

(* The late unlink of a deletion takes a file: nobody's, the one an entry  *)
(* leads to whose row failed, or that of one row or import, whose books    *)
(* go astray.                                                              *)
LEMMA DeleteFileShown ==
  ASSUME Inv, Inv', Tidy, Given, NEW p \in Path, DeleteFile(p)
  PROVE  ShelfStep
<1>1. /\ UNCHANGED <<rows, books, journal, edits, unrecorded, artifact, repair, step>>
      /\ Leaving /\ Leaving' \in {Leaving, FALSE}
      /\ \/ disk' = disk /\ raced' = raced
         \/ disk' = [disk EXCEPT ![p] = "none"] /\ raced' = raced \cup Takers(p)
  BY DEF DeleteFile, Leaving, db, work, user
<1>2. CASE disk' = disk /\ raced' = raced
  <2>1. Shown' = Shown /\ Astray' = Astray
    BY <1>1, <1>2 DEF Shown, Opens, Astray
  <2>2. Shown' \in [Ids -> Contents \cup {"lost", "absent"}]
    BY ShownNext DEF ShowsBooks
  <2> QED
    BY <1>1, <2>1, <2>2, WanderIs
<1>3. CASE disk' = [disk EXCEPT ![p] = "none"] /\ raced' = raced \cup Takers(p)
  <2>1. /\ disk'[p] = "none" /\ \A q \in Path \ {p} : disk'[q] = disk[q]
        /\ \A j \in journal : j \in Rename /\ j.to \in Path /\ j.from \in Path
    BY <1>3 DEF Inv, TypeOK, Rename
  \* A row that is not taken and to which no entry leads there keeps its file.
  <2>2. ASSUME NEW i \in Stored, rows[i].path # p,
               \A j \in journal : j.file = i => j.to # p \/ disk[j.to] = "none"
        PROVE  OpensIn(disk', rows'[i].path, journal', i) = Opens(i)
    <3>1. Kept(i)
      BY <1>1, <2>1, <2>2, RowTyped DEF Kept, Same, Stored, Row
    <3>2. \A j \in journal : j.file = i => disk'[j.to] = disk[j.to]
      BY <2>1, <2>2
    <3> QED
      BY <1>1, <3>1, <3>2, OpensKept, OpensNext
  <2>3. \A j \in journal : Live(j.file) =>
          \/ j.to # p \/ disk[j.to] = "none"
          \/ j.file \in unrecorded /\ Unowned(p)
          \/ j.file = repair.id /\ step = "renamed" /\ repair.goal = p
    <3> SUFFICES ASSUME NEW j \in journal, Live(j.file), j.to = p, disk[j.to] # "none", j.file \notin unrecorded
                 PROVE  j.file = repair.id /\ step = "renamed" /\ repair.goal = p
      BY DEF Tidy, JournalTrue, EntriesTrue, EntryTrue
    <3>1. step \notin {"down", "recovering"}
      BY <1>1 DEF Tidy, Waits, Leaving
    <3>2. step \in {"renaming", "renamed"} /\ j = Entry(repair)
      BY <3>1 DEF Tidy, JournalTrue, EntriesTrue, EntryTrue
    <3>3. j.file = repair.id /\ j.to = repair.goal
      BY <3>2 DEF Entry
    <3> QED
      BY <3>2, <3>3 DEF Tidy, MendTrue
  \* An import in hand is taken where nobody else is.
  <2>8. artifact.id \in Takers(p) /\ (artifact.id \in Ids) /\ ~Live(artifact.id)
          => step = "published" /\ Home = p /\ Unowned(p) /\ \A j \in journal : Live(j.file) => j.to # p
    <3>1. artifact.id \in Ids => step \in Importing
      BY LibraryAssumption DEF Given, NoArtifact
    <3> QED
      BY <3>1, HomeUnowned DEF Takers, Owners, Stored, Live, Importing
  \* Only what is taken becomes astray.
  <2>4. \A b \in Ids : b \in Astray' <=>
          \/ b \in Astray
          \/ IF books[b] = "none" THEN b = artifact.id /\ b \in Takers(p) ELSE books[b] \in Takers(p)
    BY <1>1, <1>3 DEF Astray
  <2>5. CASE \E k \in Takers(p) : Live(k)
    <3>1. PICK k \in Takers(p) : Live(k)
      BY <2>5
    <3>2. ~(step \in Importing /\ k = artifact.id)
      BY <3>1 DEF Inv, Fresh, Live
    <3>3. \/ k \in Stored /\ rows[k].path = p
          \/ k = repair.id /\ step = "renamed" /\ repair.goal = p /\ Unowned(p)
      BY <3>1, <3>2 DEF Takers, Owners, Importing, Tidy, MendTrue
    <3>4. k \in Stored /\ k \in Ids /\ k # "none"
      BY <3>1, <3>3, LibraryAssumption DEF Live, Stored, Inv, WorkOK, Mending, Job
    <3>5. \A i \in Takers(p) : Live(i) => i = k
      <4> SUFFICES ASSUME NEW i \in Takers(p), Live(i)
                   PROVE  i = k
        OBVIOUS
      <4>1. ~(step \in Importing /\ i = artifact.id)
        BY DEF Inv, Fresh, Live
      <4> QED
        BY <3>3, <4>1 DEF Takers, Owners, Importing, Tidy, FilesTrue, MendTrue, NoSharedFile, Unowned
    <3>6. ASSUME NEW i \in Stored \ {k}
          PROVE  OpensIn(disk', rows'[i].path, journal', i) = Opens(i)
      <4>1. rows[i].path # p
        BY <3>3, <3>4 DEF Tidy, FilesTrue, NoSharedFile, Unowned
      <4>2. \A j \in journal : j.file = i => j.to # p \/ disk[j.to] = "none"
        <5>1. CASE rows[k].path = p
          <6>1. ~Unowned(p)
            BY <3>4, <5>1 DEF Unowned
          <6>2. step = "renamed" => repair.goal # p
            BY <6>1 DEF Tidy, MendTrue
          <6> QED
            BY <2>3, <6>1, <6>2 DEF Live, Stored
        <5>2. CASE k = repair.id /\ step = "renamed" /\ repair.goal = p
          BY <3>1, <5>2 DEF Tidy, MendTrue, Live, Stored, Entry
        <5> QED
          BY <3>3, <5>1, <5>2
      <4> QED
        BY <2>2, <4>1, <4>2
    <3> DEFINE S == OnFile(k)
               v == OpensIn(disk', rows'[k].path, journal', k)
    <3>7. S \subseteq Ids /\ \A b \in Ids : b \in S <=> books[b] = k
      BY DEF OnFile
    <3>8. v \in Contents \cup {"lost"}
      <4>1. k \in Stored'
        BY <1>1, <3>4 DEF Stored
      <4> QED
        BY <4>1, OpensAllNext, OpensNext DEF OpensAll
    <3> HIDE DEF S, v
    <3>9. \A b \in Ids : books[b] # "none" => books[b] \in Stored /\ Live(books[b])
      BY DEF Inv, TypeOK, Live, Stored
    <3>10. \A a, b \in S : Shown[a] = Shown[b] /\ Shown[a] # "absent"
      BY <3>4, <3>7, ShownFacts
    <3>11. \A b \in Ids : Shown'[b] = IF b \in S THEN v ELSE Shown[b]
      <4> SUFFICES ASSUME NEW b \in Ids
                   PROVE  Shown'[b] = IF b \in S THEN v ELSE Shown[b]
        OBVIOUS
      <4>1. CASE books[b] = "none"
        BY <1>1, <3>4, <3>7, <4>1, ShownThen DEF Shown
      <4>2. CASE books[b] = k
        BY <1>1, <3>4, <3>7, <4>2, ShownThen DEF v
      <4>3. CASE books[b] # "none" /\ books[b] # k
        BY <1>1, <3>6, <3>7, <3>9, <4>3, ShownThen DEF Shown
      <4> QED
        BY <4>1, <4>2, <4>3
    <3>12. Shown' = [b \in Ids |-> IF b \in S /\ Shown[b] # "absent" THEN v ELSE Shown[b]]
      BY <3>10, <3>11 DEF Shown
    <3>13. Astray' = Astray \cup S
      <4>1. \A b \in Ids : books[b] # "none" => (books[b] \in Takers(p) <=> b \in S)
        BY <3>1, <3>5, <3>7, <3>9
      <4>2. ASSUME NEW b \in Ids, b = artifact.id
            PROVE  b \notin Takers(p)
        <5>1. ~Live(b)
          <6>1. step \in Importing
            BY <4>2, LibraryAssumption DEF Given, NoArtifact
          <6> QED
            BY <4>2, <6>1 DEF Inv, Fresh, Live
        <5> QED
          BY <2>8, <3>3, <3>4, <4>2, <5>1 DEF Unowned
      <4>3. \A b \in Ids : books[b] = "none" => b \notin S
        BY <3>4, <3>7
      <4> QED
        BY <2>4, <3>7, <4>1, <4>2, <4>3 DEF Astray
    <3>14. /\ S \in SUBSET Ids /\ v \in Contents \cup {"lost"}
           /\ \A a, b \in S : Shown[a] # "absent" /\ Shown[b] # "absent" => Shown[a] = Shown[b]
      BY <3>7, <3>8, <3>10
    <3> QED
      BY <1>1, <3>12, <3>13, <3>14, GoAstrayIs
  <2>6. CASE (\A k \in Takers(p) : ~Live(k)) /\ artifact.id \in Takers(p)
    <3>1. artifact.id \in Ids
      BY <2>6 DEF Takers, Owners, Stored, Inv, WorkOK, Importing, Mending, Draft, Job
    <3>2. /\ step = "published" /\ Unowned(p)
          /\ \A j \in journal : Live(j.file) => j.to # p
      BY <2>6, <2>8, <3>1
    <3>3. \A i \in Stored : OpensIn(disk', rows'[i].path, journal', i) = Opens(i)
      BY <2>2, <3>2 DEF Unowned, Stored, Live
    <3>4. \A b \in Ids : books[b] # "none" => books[b] \in Stored /\ Live(books[b])
      BY DEF Inv, TypeOK, Live, Stored
    <3>5. Shown' = Shown
      BY <1>1, <3>3, <3>4, ShownThen DEF Shown
    <3>6. Shown[artifact.id] = "absent" /\ books[artifact.id] = "none"
      BY <3>1, <3>2 DEF Given, Importing, Shown
    <3>7. Astray' = Astray \cup {artifact.id}
      <4>1. \A b \in Ids : books[b] # "none" => books[b] \notin Takers(p)
        BY <2>6, <3>4
      <4> QED
        BY <2>4, <2>6, <3>1, <3>6, <4>1 DEF Astray
    <3> DEFINE S == {artifact.id}
    <3>8. S \in SUBSET Ids /\ \A b \in S : Shown[b] = "absent"
      BY <3>1, <3>6
    <3>9. Astray' = Astray \cup S
      BY <3>7
    <3> HIDE DEF S
    <3>10. Shown' = [b \in Ids |-> IF b \in S /\ Shown[b] # "absent" THEN "lost" ELSE Shown[b]]
      BY <3>5, <3>8 DEF Shown
    <3> QED
      BY <1>1, <3>8, <3>9, <3>10, GoAstrayIs
  <2>7. CASE (\A k \in Takers(p) : ~Live(k)) /\ artifact.id \notin Takers(p)
    <3>1. \A i \in Stored : OpensIn(disk', rows'[i].path, journal', i) = Opens(i) \/ i \in unrecorded
      <4> SUFFICES ASSUME NEW i \in Stored, i \notin unrecorded
                   PROVE  OpensIn(disk', rows'[i].path, journal', i) = Opens(i)
        OBVIOUS
      <4>1. rows[i].path # p
        BY <2>7 DEF Takers, Owners, Stored, Live
      <4>2. ~(i = repair.id /\ step = "renamed" /\ repair.goal = p)
        BY <2>7 DEF Takers, Stored, Live
      <4>3. \A j \in journal : j.file = i => j.to # p \/ disk[j.to] = "none"
        BY <2>3, <4>2 DEF Stored, Live
      <4> QED
        BY <2>2, <4>1, <4>3
    <3>2. Steady
      BY <1>1, <3>1, OpensNext DEF Steady
    <3>3. Astray' \subseteq Astray
      <4>1. \A b \in Ids : books[b] # "none" => Live(books[b])
        BY DEF Inv, TypeOK, Live
      <4> QED
        BY <2>4, <2>7, <4>1 DEF Astray
    <3> QED
      BY <1>1, <3>2, <3>3, SteadyWanders
  <2> QED
    BY <2>5, <2>6, <2>7
<1> QED
  BY <1>1, <1>2, <1>3

\* What the user does to a file changes books that showed the same.
LEMMA AlterFileShown ==
  ASSUME Inv, Tidy, Careful, NEW p \in Path, NEW c \in Edits \cup {"none"}, AlterFile(p, c)
  PROVE  ShelfStep
<1>1. /\ disk[p] # "none"
      /\ disk'[p] = c /\ \A q \in Path \ {p} : disk'[q] = disk[q]
      /\ UNCHANGED <<rows, journal, artifact, repair, step, unlinks, raced, unrecorded>>
  BY AlterFacts DEF marks
<1>2. edits' = edits + 1 /\ books' = books
  BY DEF AlterFile, db
<1>3. PICK o \in Stored : rows[o].path = p /\ \A i \in Stored : rows[i].path = p => i = o
  BY AlterFacts
<1> DEFINE S == {b \in Ids : books[b] = o}
           v == IF c = "none" THEN "lost" ELSE c
<1>4. o \in Ids /\ o # "none" /\ v \in Contents \cup {"lost"}
  BY <1>3, LibraryAssumption DEF Stored
<1>5. S \subseteq {b \in Ids : Shown[b] # "absent"} /\ \A a, b \in S : Shown[a] = Shown[b]
  BY <1>4, ShownFacts
<1>6. \A j \in journal : j \in Rename /\ j.to \in Path /\ j.from \in Path
  BY DEF Inv, TypeOK, Rename
<1>7. \A j \in journal : Live(j.file) => j.to # p /\ disk'[j.to] = disk[j.to]
  BY <1>1, <1>3, <1>6 DEF Tidy, JournalTrue, EntriesTrue, EntryTrue, Unowned
<1>8. \A j \in journal : j.file = o => disk[j.to] = "none"
  <2> SUFFICES ASSUME NEW j \in journal, j.file = o
               PROVE  disk[j.to] = "none"
    OBVIOUS
  <2>1. Live(j.file) /\ EntryTrue(j)
    BY <1>3 DEF Live, Stored, Tidy, JournalTrue, EntriesTrue
  <2>2. disk[j.from] # "none"
    BY <1>1, <1>3, <2>1 DEF EntryTrue
  <2>3. ~(step \in {"renaming", "renamed"} /\ j = Entry(repair))
    BY <2>1, AlterSpares DEF Entry
  <2> QED
    BY <2>1, <2>2, <2>3 DEF EntryTrue
<1>9. OpensIn(disk', p, journal, o) = v
  <2>1. CASE c = "none"
    BY <1>1, <1>3, <1>7, <1>8, <2>1, OpensLost DEF Live, Stored
  <2>2. CASE c # "none"
    BY <1>1, <2>2, OpensFile
  <2> QED
    BY <2>1, <2>2
<1> HIDE DEF v
<1>10. \A b \in S : Shown'[b] = v
  BY <1>1, <1>2, <1>3, <1>4, <1>9, ShownThen
<1>11. ASSUME NEW b \in Ids, b \notin S
       PROVE  Shown'[b] = Shown[b]
  <2>1. CASE books[b] = "none"
    BY <1>2, <2>1, ShownThen DEF Shown
  <2>2. CASE books[b] # "none"
    <3>1. books[b] \in Stored /\ books[b] # o
      BY <1>11, <2>2, ShownFacts
    <3>2. Kept(books[b])
      BY <1>1, <1>3, <3>1, RowTyped DEF Kept, Same, Stored, Row
    <3>3. OpensIn(disk', rows'[books[b]].path, journal', books[b]) = OpensIn(disk, rows[books[b]].path, journal, books[b])
      BY <1>1, <1>7, <3>1, <3>2, OpensSame DEF Kept, Same, Live, Stored
    <3> QED
      BY <1>2, <2>2, <3>3, ShownThen, OpensNow DEF Shown
  <2> QED
    BY <2>1, <2>2
<1>12. Shown' = [b \in Ids |-> IF b \in S THEN v ELSE Shown[b]]
  BY <1>10, <1>11 DEF Shown
<1>13. Astray' = Astray /\ Leaving' = Leaving
  BY <1>1, <1>2 DEF Astray, Leaving
<1> HIDE DEF S
<1> QED
  BY <1>2, <1>4, <1>5, <1>12, <1>13, AlterIs

-----------------------------------------------------------------------------
(* The refinement: the shelf is what books, rows, folder and journal show, *)
(* and every step of the library is a step of it.                          *)
LEMMA StepSimulates ==
  ASSUME Careful, Inv, Inv', Tidy, Given, [Next]_libraryVars
  PROVE  ShelfStep
<1>1. CASE ImportStep /\ ~ImportInsert
  <2>1. UNCHANGED <<raced, unrecorded, unlinks>> /\ raced' \cap {artifact'.id} \subseteq {artifact.id}
    <3>1. UNCHANGED <<raced, unrecorded, unlinks>>
      BY <1>1 DEF ImportStep, ImportStart, ImportCopy, ImportStops, ImportRaises, ImportAccept,
         ImportVerbatim, ImportConvert, ImportConverted, ImportUnconverted, ImportPublish,
         ImportRefused, ImportInsertFails, ImportEnd, Dropped, spent, marks
    <3>2. ASSUME NEW i \in Ids, NEW c \in Sources, ImportCopy(i, c)
          PROVE  artifact'.id \notin raced
      BY <3>2 DEF ImportCopy, Given
    <3>3. CASE ImportConverted \/ ImportPublish
      <4>1. artifact \in Draft
        BY <3>3, DraftHome DEF ImportConverted, ImportPublish, Importing
      <4> QED
        BY <3>1, <3>3, <4>1 DEF ImportConverted, ImportPublish, Draft
    <3>4. CASE \/ ImportStart \/ ImportStops \/ ImportRaises \/ ImportAccept \/ ImportVerbatim
               \/ ImportConvert \/ ImportUnconverted \/ ImportRefused \/ ImportInsertFails \/ ImportEnd
      <4>1. artifact' \in {artifact, NoArtifact}
        BY <3>4 DEF ImportStart, ImportStops, ImportRaises, ImportAccept, ImportVerbatim, ImportConvert,
           ImportUnconverted, ImportRefused, ImportInsertFails, ImportEnd, Dropped, files, work
      <4>2. NoArtifact.id \notin raced
        BY LibraryAssumption DEF NoArtifact, Inv, TypeOK
      <4> QED
        BY <3>1, <4>1, <4>2
    <3> QED
      BY <1>1, <3>1, <3>2, <3>3, <3>4 DEF ImportStep
  <2> QED
    BY <1>1, <2>1, ImportShown, SteadyStep
<1>2. CASE Crash
  <2>1. Steady
    BY <1>2, QuietShown DEF Crash, db, files, user
  <2>2. NoArtifact.id \notin raced
    BY LibraryAssumption DEF NoArtifact, Inv, TypeOK
  <2> QED
    BY <1>2, <2>1, <2>2, SteadyStep DEF Crash, marks
<1>3. CASE UNCHANGED libraryVars
  <2>1. Steady
    BY <1>3, QuietShown DEF libraryVars, db, files, spent, user
  <2> QED
    BY <1>3, <2>1, SteadyStep DEF libraryVars, spent, marks, work
<1> QED
  BY <1>1, <1>2, <1>3, InsertShown, MaintenanceShown, DeleteBookShown, DeleteFileShown, AlterFileShown
     DEF Next, ImportStep

\* An empty library shows an empty shelf.
LEMMA InitShown ==
  ASSUME Init
  PROVE  Shelf!Init
BY DEF Init, Shelf!Init

LEMMA InitGiven ==
  ASSUME Init
  PROVE  Given
BY DEF Init, Given, Importing, Mending

(* The library implements the Bookshelf: a book opens to the bytes it was  *)
(* imported with until the user alters or deletes it, through every audit, *)
(* repair, crash and recovery, unless the late unlink of a deletion takes  *)
(* its file or the row of its renamed file could not be updated.           *)
THEOREM PromiseKept ==
  ASSUME Careful
  PROVE  Spec => KeepsPromise
<1>1. Inv /\ [Next]_libraryVars => Inv'
  BY ImportKeeps, MaintenanceKeeps, DeleteBookKeeps, DeleteFileKeeps, AlterFileKeeps,
     CrashKeeps, StutterKeeps DEF Next
<1>2. Init => Given
  BY InitGiven
<1>3. Inv /\ Tidy /\ Given /\ [Next]_libraryVars => Given'
  BY StepGiven
<1>4. Inv /\ Tidy /\ Given /\ [Next]_libraryVars => ShelfStep
  BY <1>1, StepSimulates
<1>5. ShelfStep <=> [Shelf!Next]_<<
         [b \in Ids |-> IF books[b] = "none" THEN "absent" ELSE Opens(books[b])],
         {b \in Ids : IF books[b] = "none" THEN b \in raced \cap {artifact.id} ELSE books[b] \in raced \cup unrecorded},
         unlinks # {}, edits>>
  BY DEF ShelfStep, Shown, Astray, Leaving
<1>6. Init => Shelf!Init
  BY InitShown
<1> QED
  BY <1>2, <1>3, <1>4, <1>5, <1>6, TidyHolds, PTL DEF Spec, KeepsPromise, Shelf!Spec
=============================================================================
