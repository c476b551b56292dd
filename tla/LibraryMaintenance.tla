-------------------------- MODULE LibraryMaintenance --------------------------
(***************************************************************************)
(* LibraryMaintenanceService: an audit reads every row and every file and  *)
(* makes a plan; the plan is applied later, under the gate again, row by   *)
(* row, each rechecked first; a file that has to move is renamed between a *)
(* journal entry and the update of its row, and a start of the application *)
(* settles the entries that a crash left.                                  *)
(***************************************************************************)
EXTENDS LibraryImport

(* _scan_bound: the rows are read in one callback, the files one after     *)
(* another afterwards.                                                     *)
ScanRows ==
  /\ Free /\ plan = NoPlan /\ audits < MaxAudits
  /\ audits' = audits + 1 /\ step' = "scanning"
  /\ plan' = [NoPlan EXCEPT !.items =
       {[id |-> i, path |-> rows[i].path, recorded |-> rows[i].stored, kind |-> rows[i].kind,
         healthy |-> rows[i].state = "healthy", observed |-> "unread"] : i \in Stored}]
  /\ UNCHANGED <<db, files, artifact, repair, unlinks, used, user, crashes, marks>>

\* Orphans: whatever lies under Books/ and no row that was read names.
ScanFiles ==
  /\ step = "scanning" /\ step' = "idle"
  /\ plan' = [items   |-> {[t EXCEPT !.observed = disk[t.path]] : t \in plan.items},
              orphans |-> {p \in Path : disk[p] # "none"} \ {t.path : t \in plan.items},
              staged  |-> staging, ready |-> TRUE]
  /\ UNCHANGED <<db, files, artifact, repair, unlinks, spent>>

\* The user declines the plan.
DropPlan ==
  /\ plan.ready /\ step = "idle" /\ plan' = NoPlan
  /\ UNCHANGED <<db, files, artifact, repair, step, unlinks, spent>>

ApplyStart ==
  /\ Free /\ plan.ready /\ step' = "applying"
  /\ UNCHANGED <<db, files, work, unlinks, spent>>

(* _apply_item, up to its first effect.  t.observed is what the scan saw,  *)
(* Now(t) what is there now; a row that a deletion has taken since is      *)
(* updated without effect.                                                 *)
Now(t)        == disk[t.path]
Unmoved(t)    == Now(t) = t.observed /\ Now(t) # "none"
Valid(t)      == Unmoved(t) /\ Now(t) \notin Broken
Untroubled(t) == Valid(t) /\ t.observed = t.recorded /\ t.healthy
Changed(t)    == Valid(t) /\ t.observed # t.recorded
\* Mutant: a changed canonical artifact is renamed for its new bytes.
GoalByBytes(t) == t.observed
\* _storage_target
Goal(t) == Target(t.kind, t.observed, t.id)
\* _find_file_by_hash
Twins(t)      == {i \in Stored \ {t.id} : /\ rows[i].kind = "verbatim"
                                          /\ rows[i].stored = t.observed
                                          /\ t.kind = "verbatim"}
Quick(t) == step = "applying" /\ t \in plan.items /\ plan' = [plan EXCEPT !.items = @ \ {t}]

Marked(i, state) == IF rows[i] = NoRow THEN rows ELSE [rows EXCEPT ![i].state = state]
\* _update_changed_file
Updated(i, stored, path) ==
  IF rows[i] = NoRow THEN rows
  ELSE [rows EXCEPT ![i].path = path, ![i].stored = stored, ![i].state = "healthy"]

\* Healthy, or not as the scan saw it, or its path is taken by other bytes.
ItemSkipped(t) ==
  /\ Quick(t)
  /\ \/ t.observed = t.recorded /\ t.healthy /\ t.observed \notin Broken
     \/ t.observed = "none" /\ Now(t) # "none"
     \/ t.observed # "none" /\ Now(t) \notin {"none", t.observed}
     \/ Changed(t) /\ Twins(t) = {} /\ Goal(t) # t.path /\ disk[Goal(t)] \notin {"none", t.observed}
  /\ UNCHANGED <<db, files, artifact, repair, step, unlinks, spent>>

ItemMarked(t) ==
  /\ Quick(t) /\ ~(t.observed = t.recorded /\ t.healthy /\ t.observed \notin Broken)
  /\ \/ t.observed = "none" /\ Now(t) = "none" /\ rows' = Marked(t.id, "missing")
     \/ t.observed # "none" /\ Now(t) = "none" /\ rows' = Marked(t.id, "unavailable")
     \/ Unmoved(t) /\ Now(t) \in Broken /\ rows' = Marked(t.id, "unavailable")
     \/ Valid(t) /\ t.observed = t.recorded /\ rows' = Marked(t.id, "healthy")
  /\ UNCHANGED <<books, journal, files, artifact, repair, step, unlinks, spent>>

Repairing(t, twin) == [id |-> t.id, path |-> t.path, stored |-> t.observed,
                       goal |-> Goal(t), twin |-> twin]

\* The bytes are those another row is known by.
ItemTwin(t) ==
  /\ Quick(t) /\ Changed(t) /\ step' = "merging"
  /\ \E i \in Twins(t) : repair' = Repairing(t, i)
  /\ UNCHANGED <<db, files, artifact, unlinks, spent>>

\* The path does not follow the bytes: only the row has to catch up.
ItemInPlace(t) ==
  /\ Quick(t) /\ Changed(t) /\ Twins(t) = {} /\ Goal(t) = t.path
  /\ rows' = Updated(t.id, t.observed, t.path)
  /\ UNCHANGED <<books, journal, files, artifact, repair, step, unlinks, spent>>

\* The bytes are already at their path: the row moves there, the file goes after.
ItemAdopts(t) ==
  /\ Quick(t) /\ Changed(t) /\ Twins(t) = {} /\ Goal(t) # t.path /\ disk[Goal(t)] = t.observed
  /\ rows' = Updated(t.id, t.observed, Goal(t))
  /\ repair' = Repairing(t, "none") /\ step' = "unlinking"
  /\ UNCHANGED <<books, journal, files, artifact, unlinks, spent>>

Entry(r) == [file |-> r.id, from |-> r.path, to |-> r.goal, hash |-> r.stored]

\* Mutant: the rename goes ahead without an entry.
ItemUnjournalled(t) ==
  /\ Quick(t) /\ Changed(t) /\ Twins(t) = {} /\ Goal(t) # t.path /\ disk[Goal(t)] = "none"
  /\ repair' = Repairing(t, "none") /\ step' = "renaming"
  /\ UNCHANGED <<db, files, artifact, unlinks, spent>>

ItemJournalled(t) ==
  /\ Quick(t) /\ Changed(t) /\ Twins(t) = {} /\ Goal(t) # t.path /\ disk[Goal(t)] = "none"
  /\ repair' = Repairing(t, "none") /\ step' = "renaming"
  /\ journal' = journal \cup {Entry(repair')}
  /\ UNCHANGED <<rows, books, files, artifact, unlinks, spent>>

Repaired == repair' = NoRepair /\ step' = "applying"

(* _merge_duplicate_file: the books move to the twin and the row goes; a   *)
(* twin deleted meanwhile fails the foreign key, and nothing is merged.    *)
Mergeable == rows[repair.twin] # NoRow \/ OnFile(repair.id) = {}

Merge ==
  /\ step = "merging"
  /\ step' = IF Mergeable THEN "unlinking" ELSE "applying"
  /\ repair' = IF Mergeable THEN repair ELSE NoRepair
  /\ books' = [b \in Ids |-> IF Mergeable /\ books[b] = repair.id THEN repair.twin ELSE books[b]]
  /\ rows' = IF Mergeable THEN [rows EXCEPT ![repair.id] = NoRow] ELSE rows
  /\ UNCHANGED <<journal, files, artifact, plan, unlinks, spent>>

UnlinkOld ==
  /\ step = "unlinking" /\ Repaired
  /\ disk' \in {disk, [disk EXCEPT ![repair.path] = "none"]}   \* the system may refuse
  /\ UNCHANGED <<db, staging, artifact, plan, unlinks, spent>>

RenameFile ==
  /\ step = "renaming" /\ disk[repair.path] # "none" /\ step' = "renamed"
  /\ disk' = [disk EXCEPT ![repair.path] = "none", ![repair.goal] = disk[repair.path]]
  /\ UNCHANGED <<db, staging, work, unlinks, spent>>

\* Mutant: a rename that failed leaves its entry.
RenameFailsOpen ==
  /\ step = "renaming" /\ Repaired
  /\ UNCHANGED <<db, files, artifact, plan, unlinks, spent>>

RenameFails ==
  /\ step = "renaming" /\ journal' = journal \ {Entry(repair)} /\ Repaired
  /\ UNCHANGED <<rows, books, files, artifact, plan, unlinks, spent>>

RenameRecorded ==
  /\ step = "renamed" /\ Repaired
  /\ rows' = Updated(repair.id, repair.stored, repair.goal)
  /\ journal' = journal \ {Entry(repair)}
  /\ UNCHANGED <<books, files, artifact, plan, unlinks, spent>>

(* The update of the row fails, and takes the removal of the entry with it: *)
(* the item is reported, the next one follows, and the file is where no    *)
(* row says until a start settles the entry, if the file is still there.   *)
RenameUnrecorded ==
  /\ step = "renamed" /\ Repaired /\ unrecorded' = unrecorded \cup {repair.id}
  /\ UNCHANGED <<db, files, artifact, plan, unlinks, used, user, crashes, audits, raced>>

\* Mutant: the plan's orphans are unlinked without asking the rows again.
ReferencedByNone == {}
\* _referenced_storage_paths
Referenced == {rows[i].path : i \in Stored}

\* After the last item the orphans go, as far as the system lets them.
Sweep ==
  /\ step = "applying" /\ plan.items = {} /\ step' = "idle" /\ plan' = NoPlan
  /\ \E gone \in {{}, plan.orphans \ Referenced} :
       disk' = [p \in Path |-> IF p \in gone THEN "none" ELSE disk[p]]
  /\ staging' = staging \ plan.staged
  /\ UNCHANGED <<db, artifact, repair, unlinks, spent>>

(* _recover_pending_journal_bound, before anything else may touch the      *)
(* library.  An entry with both files, or neither, or other bytes, or no   *)
(* row, is kept as a conflict.                                             *)
Undone(j) == disk[j.from] # "none" /\ disk[j.to] = "none"
Done(j)   == /\ disk[j.from] = "none" /\ disk[j.to] = j.hash
             /\ rows[j.file] # NoRow

Restart ==
  /\ step = "down" /\ step' = "recovering"
  /\ UNCHANGED <<db, files, work, unlinks, spent>>

RecoverEntry(j) ==
  /\ step = "recovering" /\ j \in journal
  /\ \/ Undone(j) /\ UNCHANGED rows
     \/ Done(j) /\ rows' = Updated(j.file, j.hash, j.to)
  /\ journal' = journal \ {j} /\ unrecorded' = unrecorded \ {j.file}
  /\ UNCHANGED <<books, files, work, step, unlinks, used, user, crashes, audits, raced>>

Recovered ==
  /\ step = "recovering" /\ \A j \in journal : ~Undone(j) /\ ~Done(j)
  /\ step' = "idle"
  /\ UNCHANGED <<db, files, work, unlinks, spent>>

ApplyItem(t) ==
  \/ ItemSkipped(t) \/ ItemMarked(t) \/ ItemTwin(t)
  \/ ItemInPlace(t) \/ ItemAdopts(t) \/ ItemJournalled(t)

MaintenanceStep ==
  \/ ScanRows \/ ScanFiles \/ DropPlan \/ ApplyStart \/ (\E t \in plan.items : ApplyItem(t))
  \/ Merge \/ UnlinkOld \/ RenameFile \/ RenameFails \/ RenameRecorded \/ RenameUnrecorded \/ Sweep
  \/ Restart \/ (\E j \in journal : RecoverEntry(j)) \/ Recovered
=============================================================================
