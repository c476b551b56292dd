---------------------------- MODULE LibraryStartup ----------------------------
(***************************************************************************)
(* Opening the library the settings name: AppContext.start_library_load    *)
(* builds it in a task while the UI thread stays usable, and adopts the    *)
(* result of the latest attempt only.  It is composed with StorageHome,    *)
(* whose transitions begin once a library is open; the process may stop at *)
(* any step, and drives come and go.                                       *)
(***************************************************************************)
EXTENDS StorageHome

CONSTANTS
  MaxLoads,    \* bound: loads not counting those a setting makes run again
  MaxCrashes,  \* bound: ends of the process
  MaxUnplugs   \* bound: drives detached

VARIABLES
  generation,  \* _library_load_generation
  loads,       \* attempts whose task is in the executor
  selected,    \* _library_selected_root
  crashes, unplugs

loadVars == <<generation, loads, selected>>
counters == <<crashes, unplugs>>
vars == <<homeVars, loadVars, counters>>

------------------------------------------------------------------------------
(* The UI thread                                                           *)

\* start_library_load: a task still queued is discarded, a running one goes on.
StartLoad(choice) ==
  LET root == IF choice = None THEN file.data.location ELSE choice IN
    /\ generation' = generation + 1 /\ selected' = choice /\ library' = "loading"
    /\ loads' = {l \in loads : l.phase # "queued"} \cup
                {[gen |-> generation + 1, phase |-> "queued", root |-> root,
                  chosen |-> choice # None, pref |-> file.data.pref]}

\* A first launch writes the default settings before it reads any.
Launch ==
  /\ library = "down" /\ file.form = "missing" /\ library' = "booting"
  /\ Loaded("ui", Defaults)
  /\ UNCHANGED <<workerVars, diskVars, at, prefs, loadVars, counters>>
\* Settings that cannot be read end the launch: no action.
ShowLibrary ==
  /\ library \in {"down", "booting"} /\ save["ui"] = Idle /\ file.form = "json"
  /\ StartLoad(None)
  /\ UNCHANGED <<settingsVars, workerVars, diskVars, at, prefs, counters>>
\* Try again, or look at another directory.
Request(choice) ==
  /\ library \in {"loading", "failed", "skipped"} /\ UIFree /\ file.form = "json"
  /\ generation < MaxLoads /\ StartLoad(choice)
  /\ UNCHANGED <<settingsVars, workerVars, diskVars, at, prefs, counters>>
Skip ==
  /\ library \in {"loading", "failed"} /\ UIFree /\ generation < MaxLoads
  /\ generation' = generation + 1 /\ library' = "skipped"
  /\ loads' = {l \in loads : l.phase # "queued"}
  /\ UNCHANGED <<settingsVars, workerVars, diskVars, at, prefs, selected, counters>>

------------------------------------------------------------------------------
(* The task                                                                *)

Moves(l, phase) == loads' = (loads \ {l}) \cup {[l EXCEPT !.phase = phase]}

\* Mutant: a directory that is not there is made, whichever it is.
NewAnywhere(l) == ~l.chosen /\ ~disk[l.root].there
\* A missing default can be made; a damaged or a custom one is not reset.
NewDefault(l) == ~l.chosen /\ l.root = Default /\ ~disk[l.root].there

Check(l) ==
  /\ l.phase = "queued"
  /\ Moves(l, IF NewDefault(l) \/ HasDatabase(disk[l.root])
              THEN "directories" ELSE "refused")
  /\ UNCHANGED <<homeVars, generation, selected, counters>>
MakeDirectories(l) ==
  /\ l.phase = "directories"
  /\ \/ disk' = WithDirectories(l.root) /\ Moves(l, "build")
     \/ UNCHANGED disk /\ Moves(l, "refused")
  /\ UNCHANGED <<settingsVars, workerVars, drive, vacant, sessionVars, prefs,
                 generation, selected, counters>>
Build(l) ==
  /\ l.phase = "build"
  /\ \/ /\ disk' = WithDatabase(l.root) /\ vacant' = vacant \ {l.root}
        /\ Moves(l, "built")
     \/ UNCHANGED <<disk, vacant>> /\ Moves(l, "refused")
  /\ UNCHANGED <<settingsVars, workerVars, drive, sessionVars, prefs,
                 generation, selected, counters>>

\* Mutant: the answer of an attempt that was given up is taken as well.
LatestOrNot(l) == TRUE
Latest(l) == l.gen = generation

\* _finish_library_load
Answered(l) == l.phase \in {"built", "refused"} /\ UIFree
Superseded(l) ==
  /\ Answered(l) /\ ~Latest(l) /\ loads' = loads \ {l}
  /\ UNCHANGED <<homeVars, generation, selected, counters>>
\* Refused; or built, and reading the settings or wiring it to them raises.
Fail(l) ==
  /\ Answered(l) /\ Latest(l)
  /\ loads' = loads \ {l} /\ library' = "failed"
  /\ UNCHANGED <<settingsVars, workerVars, diskVars, at, prefs,
                 generation, selected, counters>>
\* A setting the library is built from has changed since: it is built again.
Rebuild(l) ==
  /\ Answered(l) /\ Latest(l) /\ l.phase = "built" /\ file.form = "json"
  /\ file.data.pref # l.pref
  /\ LET root == IF selected = None THEN file.data.location ELSE selected IN
       loads' = (loads \ {l}) \cup {[gen |-> generation + 1, phase |-> "queued",
                                     root |-> root, chosen |-> selected # None,
                                     pref |-> file.data.pref]}
  /\ generation' = generation + 1
  /\ UNCHANGED <<homeVars, selected, counters>>
\* Adopted; the settings follow, unless they name it already.
Complete(l) ==
  /\ Answered(l) /\ Latest(l) /\ l.phase = "built" /\ file.form = "json"
  /\ file.data.pref = l.pref
  /\ loads' = loads \ {l} /\ at' = l.root
  /\ IF file.data.location = l.root /\ file.data.good = l.root
     THEN library' = "ready" /\ UNCHANGED settingsVars
     ELSE /\ library' = "adopting"
          /\ Loaded("ui", [file.data EXCEPT !.location = l.root, !.good = l.root])
  /\ UNCHANGED <<workerVars, diskVars, prefs, generation, selected, counters>>
\* The wiring may raise after the settings have followed as well.
Opened ==
  /\ library = "adopting" /\ save["ui"] = Idle /\ library' \in {"ready", "failed"}
  /\ UNCHANGED <<settingsVars, workerVars, diskVars, at, prefs, loadVars, counters>>

------------------------------------------------------------------------------
(* The process and the drives                                              *)

Stop ==
  /\ library # "down" /\ crashes < MaxCrashes /\ crashes' = crashes + 1
  /\ library' = "down" /\ at' = Default /\ worker' = NoWork
  /\ save' = [t \in Threads |-> Idle] /\ loads' = {} /\ selected' = None
  /\ UNCHANGED <<file, collided, moves, erased, diskVars, prefs, generation, unplugs>>

Unplug(r) ==
  /\ library = "down" /\ r # Default /\ disk[r].there
  /\ unplugs < MaxUnplugs /\ unplugs' = unplugs + 1
  /\ disk' = [disk EXCEPT ![r] = Absent] /\ drive' = [drive EXCEPT ![r] = disk[r]]
  /\ UNCHANGED <<settingsVars, workerVars, vacant, sessionVars, prefs, loadVars, crashes>>
Plug(r) ==
  /\ drive[r].there
  /\ disk' = [disk EXCEPT ![r] = drive[r]] /\ drive' = [drive EXCEPT ![r] = Absent]
  /\ UNCHANGED <<settingsVars, workerVars, vacant, sessionVars, prefs, loadVars, counters>>

------------------------------------------------------------------------------
\* Every library is somewhere, and the settings name one unless there are none.
Init ==
  /\ \E place \in [Libraries -> Roots] :
       /\ \A l, m \in Libraries : place[l] = place[m] => l = m
       /\ disk = [r \in Roots |->
                   IF \E l \in Libraries : place[l] = r
                   THEN Full(CHOOSE l \in Libraries : place[l] = r) ELSE Absent]
       /\ file \in {[form |-> "missing", data |-> Defaults]} \cup
                   {Json([location |-> place[l], good |-> place[l], pref |-> 0])
                     : l \in Libraries}
  /\ vacant = IF file.form = "missing" /\ ~disk[Default].there THEN {Default} ELSE {}
  /\ drive = [r \in Roots |-> Absent] /\ save = [t \in Threads |-> Idle]
  /\ collided = FALSE /\ library = "down" /\ at = Default
  /\ worker = NoWork /\ moves = 0 /\ prefs = 0 /\ erased = {}
  /\ generation = 0 /\ loads = {} /\ selected = None /\ crashes = 0 /\ unplugs = 0

Loading ==
  \/ Launch \/ ShowLibrary \/ Opened
  \/ \E l \in loads : \/ Check(l) \/ MakeDirectories(l) \/ Build(l)
                      \/ Superseded(l) \/ Fail(l) \/ Rebuild(l) \/ Complete(l)
\* A transition waits for the library's tasks, the superseded loads included.
HomeStep ==
  /\ (BeginTransition /\ loads = {}) \/ Transition \/ SavePreference \/ SaveStep
  /\ UNCHANGED <<loadVars, counters>>
Next ==
  \/ Loading \/ HomeStep
  \/ \E choice \in Roots \cup {None} : Request(choice)
  \/ Skip \/ Stop \/ \E r \in Roots : Unplug(r) \/ Plug(r)

Spec == Init /\ [][Next]_vars
------------------------------------------------------------------------------
DiskTypes ==
  /\ disk \in [Roots -> Directory] /\ drive \in [Roots -> Directory]
  /\ erased \subseteq Libraries /\ vacant \subseteq Roots
SettingsTypes ==
  /\ file \in [form: {"missing", "torn", "json"}, data: Content]
  /\ save \in [Threads -> [step: {"idle", "loaded", "opened"}, next: Content]]
  /\ prefs \in 0 .. MaxPrefs /\ collided \in BOOLEAN
WorkerTypes ==
  /\ library \in {"down", "booting", "loading", "adopting", "ready", "broken",
                  "failed", "skipped"}
  /\ at \in Roots /\ moves \in Nat
  /\ worker \in [kind: {"none", "move", "select", "reset"},
                 phase: {"idle", "copy", "replace", "adopt", "adopting", "remove",
                         "mkdir", "finish"},
                 from: Roots, to: Roots, staging: Directory]
Load == [gen: Nat, root: Roots, chosen: BOOLEAN, pref: 0 .. MaxPrefs,
         phase: {"queued", "directories", "build", "built", "refused"}]
LoadTypes ==
  /\ loads \subseteq Load /\ generation \in Nat /\ selected \in Roots \cup {None}
  /\ \A l \in loads : l.gen <= generation
TypeOK == DiskTypes /\ SettingsTypes /\ WorkerTypes /\ LoadTypes

\* What is at r, its drive attached or not.
At(r) == IF drive[r].there THEN drive[r] ELSE disk[r]

\* A library the user did not reset is whole somewhere: move_to_parent keeps
\* the old root until the copy is in place and adopted, wherever it stops.
LibrarySurvives ==
  \A l \in Libraries \ erased : \E r \in Roots : At(r) = Full(l)

\* The settings, whenever they can be read, name a library and a known-good
\* one that are there, or are to be made: the pointer is never left on a root
\* that was removed, at any crash (storage_migration_service.py:168).
PointsToLibrary(c) ==
  \A r \in {c.location, c.good} \ {None} : HasDatabase(At(r)) \/ r \in vacant
PointerUsable == file.form = "json" => PointsToLibrary(file.data) \/ collided
\* The same without the exception.
PointerAlwaysUsable == file.form = "json" => PointsToLibrary(file.data)

\* The library that runs is the one the next launch opens and, until it is
\* moved or exchanged, the one that was asked for last, whatever attempts were
\* superseded, skipped or run again on the way.
OpensWhatWasAsked ==
  library = "ready" /\ worker = NoWork /\ file.form = "json" =>
    /\ file.data.location = at
    /\ moves = 0 /\ selected # None => at = selected

\* An empty library is made only where the application's own was never made or
\* the user has reset one: a damaged default, or a root that is missing, is
\* never reset implicitly (app_context.py:231).
Made(r) ==
  /\ disk[r].db = None /\ disk'[r].db = New
  /\ UNCHANGED drive /\ ~AtWork("move", "replace")  \* it was not there before
NeverResetImplicitly ==
  [][ \A r \in Roots : Made(r) => r \in vacant \/ collided ]_vars
===============================================================================
