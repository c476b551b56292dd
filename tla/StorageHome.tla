----------------------------- MODULE StorageHome -----------------------------
(***************************************************************************)
(* Where the library is: the directories that may hold one, the settings   *)
(* file that names the one in use, and the disk phases that change both -  *)
(* StorageMigrationService's move and reset, AppContext's select and the   *)
(* rebuild that ends them.  A worker runs the disk phase while the UI      *)
(* thread goes on saving settings; the process may stop between two steps. *)
(* Opening the library at start is module LibraryStartup, over this one.   *)
(***************************************************************************)
EXTENDS Integers, FiniteSets

CONSTANTS
  Roots,      \* directories a library may be in
  Default,    \* the application's own: default_storage_root
  Libraries,  \* the user's libraries at the beginning
  New,        \* the database of a library the application made itself
  None,
  MaxMoves,   \* bound: moves, selections and resets
  MaxPrefs    \* bound: settings saved for something else

ASSUME HomeAssumption ==
  /\ Default \in Roots
  /\ New \notin Libraries /\ None \notin Libraries \cup Roots \cup {New}
  /\ MaxPrefs \in Nat

VARIABLES
  disk,      \* what is at each root: a directory, its database, its files
  drive,     \* what is at a root whose drive is detached
  file,      \* settings.json
  save,      \* of each thread: its SettingsStore.update under way
  library,   \* library_state; "broken" is a rebuild that failed
  at,        \* settings.storage_location of the running library
  worker,    \* the disk phase
  moves, prefs,
  erased,    \* libraries the user has reset (history)
  vacant,    \* roots where the application is to make a library (history)
  collided   \* two updates of the settings have overlapped (history)

settingsVars == <<file, save, collided>>
workerVars == <<worker, moves, erased>>
diskVars == <<disk, drive, vacant>>
sessionVars == <<library, at>>
homeVars == <<settingsVars, workerVars, diskVars, sessionVars, prefs>>

Directory ==
  [there: BOOLEAN, db: Libraries \cup {New, None}, files: Libraries \cup {None}]
Absent == [there |-> FALSE, db |-> None, files |-> None]
Full(l) == [there |-> TRUE, db |-> l, files |-> l]

Content == [location: Roots, good: Roots \cup {None}, pref: 0 .. MaxPrefs]
Defaults == [location |-> Default, good |-> None, pref |-> 0]
File == [form: {"missing", "torn", "json"}, data: Content]
Torn == [form |-> "torn", data |-> Defaults]
Json(c) == [form |-> "json", data |-> c]

Threads == {"ui", "worker"}
Idle == [step |-> "idle", next |-> Defaults]
NoWork == [kind |-> "none", phase |-> "idle", from |-> Default, to |-> Default,
           staging |-> Absent]

------------------------------------------------------------------------------
(* SettingsStore                                                           *)

\* update(): the file has been read; what will be written is this content.
Loaded(t, c) ==
  /\ save' = [save EXCEPT ![t] = [step |-> "loaded", next |-> c]]
  /\ collided' = (collided \/ \E u \in Threads \ {t} : save[u].step # "idle")
  /\ UNCHANGED file
\* write_text: the file is opened, which empties it.
OpenFile(t) ==
  /\ save[t].step = "loaded"
  /\ save' = [save EXCEPT ![t].step = "opened"] /\ file' = Torn
  /\ UNCHANGED <<collided, workerVars, diskVars, sessionVars, prefs>>
\* Over what the other thread wrote after that, the end of it may be left.
WriteFile(t) ==
  /\ save[t].step = "opened" /\ save' = [save EXCEPT ![t] = Idle]
  /\ \/ file' = Json(save[t].next)
     \/ file.form = "json" /\ file' = Torn
  /\ UNCHANGED <<collided, workerVars, diskVars, sessionVars, prefs>>

\* The UI thread is in none of its own calls.
UIFree == save["ui"].step = "idle" /\ library \notin {"down", "booting", "adopting"}

\* A window's size, a sort order, a cache budget: the UI thread saves it.
SavePreference ==
  /\ UIFree /\ file.form = "json" /\ prefs < MaxPrefs /\ prefs' = prefs + 1
  /\ Loaded("ui", [file.data EXCEPT !.pref = prefs + 1])
  /\ UNCHANGED <<workerVars, diskVars, sessionVars>>

------------------------------------------------------------------------------
(* The disk phase                                                          *)

Goes(phase) == worker' = [worker EXCEPT !.phase = phase, !.staging = Absent]
AtWork(kind, phase) == worker.kind = kind /\ worker.phase = phase

HasDatabase(d) == d.there /\ d.db # None

Begin(kind, to, phase) ==
  /\ library \in {"ready", "broken"} /\ UIFree /\ worker = NoWork
  /\ moves < MaxMoves /\ moves' = moves + 1
  /\ worker' = [NoWork EXCEPT !.kind = kind, !.phase = phase,
                              !.from = at, !.to = to]
  /\ UNCHANGED <<settingsVars, disk, drive, sessionVars, prefs>>

\* begin_storage_move: nothing to do, or a library there already, ends it.
BeginMove(to) ==
  /\ ~drive[to].there
  /\ Begin("move", to, IF to = at \/ disk[to].there THEN "finish" ELSE "copy")
  /\ UNCHANGED <<erased, vacant>>
\* begin_storage_select: the choice is validated before anything is touched.
BeginSelect(root) ==
  /\ Begin("select", root, IF HasDatabase(disk[root]) THEN "adopt" ELSE "finish")
  /\ UNCHANGED <<erased, vacant>>
BeginReset ==
  /\ Begin("reset", at, IF disk[at].there THEN "remove" ELSE "mkdir")
  /\ erased' = erased \cup ({disk[at].db} \cap Libraries)
  /\ vacant' = vacant \cup {at}

\* Mutant: more than the old Cache directory is left out of the copy.
CopiedBare == [disk[worker.from] EXCEPT !.there = TRUE, !.files = None]
\* Into a staging directory beside the target; a copy that fails is removed.
Copied == [disk[worker.from] EXCEPT !.there = TRUE]
Copy ==
  /\ AtWork("move", "copy")
  /\ \/ /\ HasDatabase(Copied)
        /\ worker' = [worker EXCEPT !.phase = "replace", !.staging = Copied]
     \/ Goes("finish")
  /\ UNCHANGED <<settingsVars, moves, erased, diskVars, sessionVars, prefs>>

\* staging.replace(target_root)
Replace ==
  /\ AtWork("move", "replace")
  /\ \/ /\ ~disk[worker.to].there /\ Goes("adopt")
        /\ disk' = [disk EXCEPT ![worker.to] = worker.staging]
        /\ vacant' = vacant \ {worker.to}
     \/ Goes("finish") /\ UNCHANGED <<disk, vacant>>
  /\ UNCHANGED <<settingsVars, moves, erased, drive, sessionVars, prefs>>

\* Mutant: only the location in use follows the library.
AdoptLocation ==
  /\ worker.phase = "adopt" /\ file.form = "json" /\ Goes("adopting")
  /\ Loaded("worker", [file.data EXCEPT !.location = worker.to])
  /\ UNCHANGED <<moves, erased, diskVars, sessionVars, prefs>>
\* The location and the known-good one, in one write.
Adopt ==
  /\ worker.phase = "adopt" /\ file.form = "json" /\ Goes("adopting")
  /\ Loaded("worker",
            [file.data EXCEPT !.location = worker.to, !.good = worker.to])
  /\ UNCHANGED <<moves, erased, diskVars, sessionVars, prefs>>
\* The file cannot be read while the other thread has it open.
AdoptRaises ==
  /\ worker.phase = "adopt" /\ file.form = "torn" /\ Goes("finish")
  /\ UNCHANGED <<settingsVars, moves, erased, diskVars, sessionVars, prefs>>
Adopted ==
  /\ worker.phase = "adopting" /\ save["worker"] = Idle
  /\ Goes(IF worker.kind = "move" THEN "remove" ELSE "finish")
  /\ UNCHANGED <<settingsVars, moves, erased, diskVars, sessionVars, prefs>>

\* rmtree takes the tree apart in the order the directories are listed.
RemovePiece ==
  /\ worker.phase = "remove"
  /\ \E d \in {[disk[worker.from] EXCEPT !.db = None],
              [disk[worker.from] EXCEPT !.files = None]} :
       disk[worker.from] # d /\ disk' = [disk EXCEPT ![worker.from] = d]
  /\ UNCHANGED <<settingsVars, workerVars, drive, vacant, sessionVars, prefs>>
RemoveDirectory ==
  /\ worker.phase = "remove"
  /\ disk[worker.from].db = None /\ disk[worker.from].files = None
  /\ disk' = [disk EXCEPT ![worker.from] = Absent]
  /\ Goes(IF worker.kind = "reset" THEN "mkdir" ELSE "finish")
  /\ UNCHANGED <<settingsVars, moves, erased, drive, vacant, sessionVars, prefs>>
\* A file that is held open ends it: a move only logs that, a reset raises.
RemoveFails ==
  /\ worker.phase = "remove" /\ Goes("finish")
  /\ UNCHANGED <<settingsVars, moves, erased, diskVars, sessionVars, prefs>>
MakeRoot ==
  /\ worker.phase = "mkdir" /\ Goes("finish")
  /\ disk' = [disk EXCEPT ![worker.from].there = TRUE]
  /\ UNCHANGED <<settingsVars, moves, erased, drive, vacant, sessionVars, prefs>>

\* ensure_directories, and create_library_runtime's database.
WithDirectories(r) == [disk EXCEPT ![r].there = TRUE]
WithDatabase(r) ==
  [disk EXCEPT ![r].there = TRUE,
               ![r].db = IF disk[r].db = None THEN New ELSE @]

\* finish_storage_transition: the services are rebuilt on what the settings say.
Finish ==
  /\ worker.phase = "finish" /\ save["ui"].step = "idle" /\ worker' = NoWork
  /\ \/ /\ file.form = "json" /\ library' = "ready" /\ at' = file.data.location
        /\ disk' = WithDatabase(at') /\ vacant' = vacant \ {at'}
     \/ /\ library' = "broken" /\ UNCHANGED <<at, vacant>>
        /\ \/ UNCHANGED disk
           \/ file.form = "json" /\ disk' = WithDirectories(file.data.location)
  /\ UNCHANGED <<settingsVars, moves, erased, drive, prefs>>

------------------------------------------------------------------------------
BeginTransition == BeginReset \/ \E to \in Roots : BeginMove(to) \/ BeginSelect(to)
Transition ==
  \/ Copy \/ Replace \/ Adopt \/ AdoptRaises \/ Adopted
  \/ RemovePiece \/ RemoveDirectory \/ RemoveFails \/ MakeRoot \/ Finish

SaveStep == \E t \in Threads : OpenFile(t) \/ WriteFile(t)
==============================================================================
