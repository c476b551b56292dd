----------------------------- MODULE LibraryStore -----------------------------
(***************************************************************************)
(* What the managed library keeps: the rows of book_files and books, the   *)
(* files under Books/ and Books/.staging, the rename journal, and the gate *)
(* that imports, audits and recoveries hold in turn.  Here also are the    *)
(* things that may happen at any time: the user removes a book or alters   *)
(* a file, and the process dies.                                           *)
(*                                                                         *)
(* A hash is the bytes it is the hash of.  A verbatim artifact lives at a  *)
(* path named for its bytes, a canonical one at a path named for its row,  *)
(* so a path is a member of Contents or of Ids.  An import makes one row   *)
(* of book_files and one book under the same fresh identifier.  A callback *)
(* of the database actor is one step; so is one effect on the disk.        *)
(***************************************************************************)
EXTENDS Naturals, FiniteSets

CONSTANTS
  Ids,            \* bound: the fresh identifiers of the imports
  Contents,       \* what a file may hold
  Sources,        \* what the user offers for import
  Canon,          \* Canon[c]: what the canonical writer makes of c
  Broken,         \* what the probe of an audit refuses
  Edits,          \* what the user writes over a managed file
  MaxEdits, MaxCrashes, MaxAudits,    \* bounds
  EditsImported,  \* may the user import bytes he wrote over a managed file?
  MovesOver       \* may he move one managed file over another?

ASSUME LibraryAssumption ==
  /\ Sources \cup Broken \cup Edits \subseteq Contents
  /\ Canon \in [Sources -> Contents]
  /\ Ids \cap Contents = {}
  /\ {"none", "lost", "absent", "unread"} \cap (Ids \cup Contents) = {}
  /\ {MaxEdits, MaxCrashes, MaxAudits} \subseteq Nat
  /\ {EditsImported, MovesOver} \subseteq BOOLEAN

VARIABLES
  rows,       \* book_files: rows[i], or NoRow
  books,      \* books[b]: the file of book b, or "none"
  disk,       \* Books/: what is at a path, or "none"
  staging,    \* Books/.staging: the copies and the conversions of imports
  journal,    \* library_maintenance_journal
  step,       \* where the holder of the gate stands; "idle": the gate is free
  artifact,   \* the artifact the import is working on
  repair,     \* the row the audit is repairing
  plan,       \* the audit plan that awaits the user or is being applied
  unlinks,    \* files whose rows a deletion has removed, still to be unlinked
  used,       \* identifiers given out
  edited,     \* bytes the user wrote over managed files
  touched,    \* rows whose file the user has altered
  raced,      \* rows (or imports) whose file the unlink of a deletion took
  unrecorded, \* rows whose file was renamed and whose update then failed
  edits, crashes, audits

db     == <<rows, books, journal>>
files  == <<disk, staging>>
work   == <<artifact, repair, plan>>
user   == <<edited, touched, edits>>
marks  == <<raced, unrecorded>>
spent  == <<used, user, crashes, audits, marks>>
libraryVars == <<db, files, work, step, unlinks, spent>>

Path   == Contents \cup Ids
\* Mutant: canonical artifacts too are named for their bytes.
TargetByBytes(kind, stored, i) == stored
\* storage_target
Target(kind, stored, i) == IF kind = "canonical" THEN i ELSE stored
States == {"healthy", "missing", "unavailable"}
Row    == [path : Path, source : Contents, stored : Contents,
           kind : {"verbatim", "canonical"}, state : States]
NoRow  == [path |-> "none"]
Rename == [file : Ids, from : Path, to : Path, hash : Contents]

Stored    == {i \in Ids : rows[i] # NoRow}
OnFile(i) == {b \in Ids : books[b] = i}
Sound(i)  == disk[rows[i].path] = rows[i].stored
Damaged   == {i \in Stored : ~Sound(i)}
\* Every file is as its row says, and no plan still means to change one.
Settled   == Damaged = {} /\ \A t \in plan.items : t.observed \in {"unread", t.recorded}

NoArtifact == [id |-> "none"]
NoRepair   == [id |-> "none"]
NoPlan     == [items |-> {}, orphans |-> {}, staged |-> {}, ready |-> FALSE]

Init ==
  /\ rows = [i \in Ids |-> NoRow] /\ books = [b \in Ids |-> "none"]
  /\ disk = [p \in Path |-> "none"] /\ staging = {} /\ journal = {}
  /\ step = "idle" /\ artifact = NoArtifact /\ repair = NoRepair
  /\ plan = NoPlan /\ unlinks = {}
  /\ used = {} /\ edited = {} /\ touched = {} /\ raced = {} /\ unrecorded = {}
  /\ edits = 0 /\ crashes = 0 /\ audits = 0

Running == step \notin {"down", "recovering"}
\* Nobody holds the gate.  The unlinks of deletions do not hold it.
Free    == step = "idle"

\* Where the import in hand is, or will be, published.
Home == Target(artifact.kind, artifact.stored, artifact.id)
Owners(p) == {i \in Stored : rows[i].path = p}

(* delete_book: one transaction takes the book, and its row when no other  *)
(* book refers to it; the file goes afterwards.  Neither takes the gate.    *)
DeleteBook(b) ==
  LET i == books[b]
      last == OnFile(i) = {b}
  IN
  /\ Running /\ i # "none"
  /\ books' = [books EXCEPT ![b] = "none"]
  /\ rows' = IF last THEN [rows EXCEPT ![i] = NoRow] ELSE rows
  /\ unlinks' = unlinks \cup (IF last THEN {rows[i].path} ELSE {})
  /\ UNCHANGED <<journal, files, work, step, spent>>

(* _delete_managed_artifacts, which does not ask again whose the path is   *)
(* by now: an import may have published there since, or an audit moved a   *)
(* file there.  The operating system may refuse.                           *)
Takers(p) == Owners(p) \cup {i \in {artifact.id} : step = "published" /\ Home = p}
                       \cup {i \in {repair.id} : step = "renamed" /\ repair.goal = p}

DeleteFile(p) ==
  /\ p \in unlinks /\ unlinks' = unlinks \ {p}
  /\ \/ /\ disk[p] # "none" /\ disk' = [disk EXCEPT ![p] = "none"]
        /\ raced' = raced \cup Takers(p)
     \/ UNCHANGED <<disk, raced>>
  /\ UNCHANGED <<db, staging, work, step, used, user, crashes, audits, unrecorded>>

(* The user writes over a managed file or removes it, or moves another     *)
(* over it, when his last alteration is settled; between audits he may     *)
(* also restore it.                                                        *)
Owned(p)  == disk[p] # "none" /\ Owners(p) # {}

AlterFile(p, c) ==
  /\ edits < MaxEdits /\ Owned(p) /\ c # disk[p]
  /\ Settled \/ (plan = NoPlan /\ \A i \in Owners(p) : c = rows[i].stored)
  /\ \E moved \in {{}} \cup {{q} : q \in {q \in Path \ {p} : MovesOver /\ Owned(q) /\ disk[q] = c}} :
       /\ disk' = [q \in Path |-> IF q = p THEN c ELSE IF q \in moved THEN "none" ELSE disk[q]]
       /\ touched' = touched \cup UNION {Owners(q) : q \in {p} \cup moved}
  /\ edited' = edited \cup ({c} \cap Contents) /\ edits' = edits + 1
  /\ UNCHANGED <<db, staging, work, step, unlinks, used, crashes, audits, marks>>

\* The process dies.  The database and the disk are as the last step left them.
Crash ==
  /\ step # "down" /\ crashes < MaxCrashes
  /\ step' = "down" /\ crashes' = crashes + 1
  /\ artifact' = NoArtifact /\ repair' = NoRepair /\ plan' = NoPlan /\ unlinks' = {}
  /\ UNCHANGED <<db, files, used, user, audits, marks>>
=============================================================================
