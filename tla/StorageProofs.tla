---------------------------- MODULE StorageProofs ----------------------------
(***************************************************************************)
(* What LibraryStartup keeps, for every set of roots and of libraries and  *)
(* every bound: its types, that no step - of a transition, of a load, of a *)
(* saved setting, of a crash or of a drive - leaves a library that was not *)
(* reset without a whole copy, and that the settings file goes on naming a *)
(* usable root.                                                            *)
(***************************************************************************)
EXTENDS LibraryStartup, TLAPS

Attached(r) == ~drive[r].there

\* What the end of the process takes with it.
DownQuiet ==
  library = "down" =>
    /\ loads = {} /\ worker.phase = "idle" /\ \A t \in Threads : save[t].step = "idle"

\* The worker writes the settings in one phase, and works alone with the disk,
\* on roots that are attached.
WorkerAlone ==
  /\ worker.phase # "adopting" => save["worker"].step = "idle"
  /\ worker.phase # "idle" =>
       library \in {"ready", "broken"} /\ loads = {} /\ Attached(worker.from)
  /\ worker.phase \in {"copy", "replace"} => worker.kind = "move"
  /\ worker.phase \in {"adopt", "adopting"} => worker.kind \in {"move", "select"}
  /\ worker.phase = "remove" => worker.kind \in {"move", "reset"}
  /\ worker.phase \in {"copy", "replace", "adopt", "adopting"} => Attached(worker.to)
  /\ worker.phase = "remove" /\ worker.kind = "move" => Attached(worker.to)
  /\ worker.kind = "move" /\ worker.phase \in {"copy", "replace", "adopt", "adopting",
    "remove"}
       => worker.from # worker.to

\* Nothing is made where a detached drive belongs.
DrivesClean ==
  /\ Attached(Default)
  /\ \A r \in Roots : drive[r].there => disk[r] = Absent
LoadsAttached ==
  \A l \in loads : l.phase \in {"directories", "build", "built"} => Attached(l.root)

\* Once a library is open, whatever the settings are or are about to be names
\* a root that is attached.
SessionAttached ==
  /\ library \in {"adopting", "ready", "broken"} => Attached(at)
  /\ library \in {"ready", "broken"} =>
       /\ file.form = "json" => Attached(file.data.location)
       /\ \A t \in Threads : save[t].step # "idle" => Attached(save[t].next.location)
  /\ library = "adopting" =>
       /\ worker.phase = "idle"
       /\ save["ui"].step # "idle" => Attached(save["ui"].next.location)
       /\ save["ui"].step = "idle" /\ file.form = "json" => Attached(file.data.location)

\* Before the old root goes, what is whole in it is whole in the new one.
CopyKept ==
  /\ worker.phase = "replace" =>
       \A l \in Libraries : disk[worker.from] = Full(l) => worker.staging = Full(l)
  /\ worker.kind = "move" /\ worker.phase \in {"adopt", "adopting", "remove"} =>
       \A l \in Libraries : disk[worker.from] = Full(l) => disk[worker.to] = Full(l)
  /\ worker.kind = "reset" /\ worker.phase = "remove" =>
       \A l \in Libraries \ erased : disk[worker.from] # Full(l)

Inv ==
  /\ TypeOK /\ DownQuiet /\ WorkerAlone /\ DrivesClean /\ LoadsAttached
  /\ SessionAttached /\ CopyKept /\ LibrarySurvives

------------------------------------------------------------------------------
(* Types                                                                   *)

LEMMA DirectoryKept ==
  ASSUME NEW d \in Directory
  PROVE  /\ [d EXCEPT !.there = TRUE] \in Directory
         /\ [d EXCEPT !.db = None] \in Directory
         /\ [d EXCEPT !.files = None] \in Directory
         /\ [d EXCEPT !.there = TRUE, !.db = IF d.db = None THEN New ELSE @] \in Directory
         /\ Absent \in Directory
  BY DEF Directory, Absent

LEMMA RootsMade ==
  ASSUME DiskTypes, NEW r \in Roots
  PROVE  WithDirectories(r) \in [Roots -> Directory] /\ WithDatabase(r) \in [Roots -> Directory]
  BY DirectoryKept DEF DiskTypes, WithDirectories, WithDatabase

LEMMA DiskTypesStep == TypeOK /\ [Next]_vars => DiskTypes'
  <1> SUFFICES ASSUME TypeOK, [Next]_vars PROVE DiskTypes'
    OBVIOUS
  <1> USE DEF homeVars, settingsVars, workerVars, diskVars, sessionVars, loadVars, counters
  <1>1. ASSUME loads = {}, BeginReset PROVE DiskTypes'
    BY <1>1, DirectoryKept DEF BeginReset, Begin, UIFree, TypeOK, DiskTypes, WorkerTypes
  <1>2. ASSUME loads = {}, NEW r \in Roots, BeginMove(r) PROVE DiskTypes'
    BY <1>2, DirectoryKept DEF BeginMove, Begin, UIFree, TypeOK, DiskTypes, WorkerTypes
  <1>3. ASSUME loads = {}, NEW r \in Roots, BeginSelect(r) PROVE DiskTypes'
    BY <1>3, DirectoryKept DEF BeginSelect, Begin, UIFree, TypeOK, DiskTypes, WorkerTypes
  <1>4. ASSUME Replace PROVE DiskTypes'
    BY <1>4, DirectoryKept DEF Replace, AtWork, Goes, TypeOK, DiskTypes, WorkerTypes
  <1>5. ASSUME RemovePiece PROVE DiskTypes'
    <2>1. PICK d \in {[disk[worker.from] EXCEPT !.db = None],
                   [disk[worker.from] EXCEPT !.files = None]} :
            disk' = [disk EXCEPT ![worker.from] = d]
      BY <1>5 DEF RemovePiece
    <2>2. disk[worker.from] \in Directory
      BY DEF TypeOK, DiskTypes, WorkerTypes
    <2>3. d \in Directory
      BY <2>1, <2>2, DirectoryKept
    <2> QED
      BY <1>5, <2>1, <2>3 DEF RemovePiece, TypeOK, DiskTypes
  <1>6. ASSUME RemoveDirectory PROVE DiskTypes'
    BY <1>6, DirectoryKept DEF RemoveDirectory, Goes, TypeOK, DiskTypes, WorkerTypes
  <1>7. ASSUME MakeRoot PROVE DiskTypes'
    BY <1>7, DirectoryKept DEF MakeRoot, Goes, TypeOK, DiskTypes, WorkerTypes
  <1>8. ASSUME NEW l \in loads, MakeDirectories(l) PROVE DiskTypes'
    BY <1>8, RootsMade DEF MakeDirectories, TypeOK, DiskTypes, LoadTypes, Load
  <1>9. ASSUME NEW l \in loads, Build(l) PROVE DiskTypes'
    BY <1>9, RootsMade DEF Build, TypeOK, DiskTypes, LoadTypes, Load
  <1>10. ASSUME Finish PROVE DiskTypes'
    BY <1>10, RootsMade DEF Finish, TypeOK, DiskTypes, SettingsTypes, Content
  <1>11. ASSUME NEW r \in Roots, Unplug(r) PROVE DiskTypes'
    BY <1>11, DirectoryKept DEF Unplug, TypeOK, DiskTypes, WorkerTypes
  <1>12. ASSUME NEW r \in Roots, Plug(r) PROVE DiskTypes'
    BY <1>12, DirectoryKept DEF Plug, TypeOK, DiskTypes, WorkerTypes
  <1>13. ASSUME UNCHANGED <<disk, drive, vacant, erased>> PROVE DiskTypes'
    BY <1>13, DirectoryKept DEF TypeOK, DiskTypes, WorkerTypes
  <1> QED
    BY <1>1, <1>2, <1>3, <1>4, <1>5, <1>6, <1>7, <1>8, <1>9, <1>10, <1>11,
      <1>12, <1>13 DEF Next, Loading, HomeStep, Transition, BeginTransition, SaveStep, vars,
      Launch, ShowLibrary, StartLoad, Opened, Check, Moves, Superseded, Fail,
      Rebuild, Complete, Copy, Goes, Adopt, AdoptRaises, Adopted, RemoveFails,
      SavePreference, OpenFile, WriteFile, Request, Skip, Stop

LEMMA SettingsTypesStep == TypeOK /\ [Next]_vars => SettingsTypes'
  <1> SUFFICES ASSUME TypeOK, [Next]_vars PROVE SettingsTypes'
    OBVIOUS
  <1> USE DEF homeVars, settingsVars, workerVars, diskVars, sessionVars, loadVars, counters
  <1>1. ASSUME Launch PROVE SettingsTypes'
    BY <1>1, HomeAssumption DEF Launch, TypeOK, SettingsTypes, Content, Defaults, Torn,
      Json, Threads,
      Idle, Loaded
  <1>2. ASSUME NEW l \in loads, Complete(l) PROVE SettingsTypes'
    <2>1. l.root \in Roots
      BY <1>2 DEF TypeOK, LoadTypes, Load
    <2>2. [file.data EXCEPT !.location = l.root, !.good = l.root] \in Content
      BY <2>1 DEF TypeOK, SettingsTypes, Content
    <2>3. CASE UNCHANGED settingsVars
      BY <1>2, <2>3 DEF Complete, TypeOK, SettingsTypes
    <2>4. CASE Loaded("ui", [file.data EXCEPT !.location = l.root, !.good = l.root])
      BY <1>2, <2>2, <2>4 DEF Complete, Loaded, TypeOK, SettingsTypes, Threads
    <2> QED
      BY <1>2, <2>3, <2>4 DEF Complete
  <1>3. ASSUME Adopt PROVE SettingsTypes'
    BY <1>3, HomeAssumption DEF Adopt, Goes, WorkerTypes, TypeOK, SettingsTypes,
      Content, Defaults, Torn,
      Json, Threads, Idle, Loaded
  <1>4. ASSUME SavePreference PROVE SettingsTypes'
    BY <1>4, HomeAssumption DEF SavePreference, UIFree, TypeOK, SettingsTypes, Content,
      Defaults, Torn,
      Json, Threads, Idle, Loaded
  <1>5. ASSUME NEW t \in Threads, OpenFile(t) PROVE SettingsTypes'
    BY <1>5, HomeAssumption DEF OpenFile, TypeOK, SettingsTypes, Content, Defaults,
      Torn, Json, Threads,
      Idle, Loaded
  <1>6. ASSUME NEW t \in Threads, WriteFile(t) PROVE SettingsTypes'
    BY <1>6, HomeAssumption DEF WriteFile, TypeOK, SettingsTypes, Content, Defaults,
      Torn, Json, Threads,
      Idle, Loaded
  <1>7. ASSUME Stop PROVE SettingsTypes'
    BY <1>7, HomeAssumption DEF Stop, TypeOK, SettingsTypes, Content, Defaults, Torn,
      Json, Threads,
      Idle, Loaded
  <1>8. ASSUME UNCHANGED <<file, save, collided, prefs>> PROVE SettingsTypes'
    BY <1>8, HomeAssumption DEF TypeOK, SettingsTypes, Content, Defaults, Torn, Json,
      Threads, Idle,
      Loaded
  <1> QED
    BY <1>1, <1>2, <1>3, <1>4, <1>5, <1>6, <1>7, <1>8 DEF Next, Loading, HomeStep,
      Transition, BeginTransition, SaveStep, vars,
      ShowLibrary, StartLoad, Opened, Check, Moves, MakeDirectories, Build,
      Superseded, Fail, Rebuild, BeginReset, Begin, BeginMove, BeginSelect,
      Copy, Goes, Replace, AdoptRaises, Adopted, RemovePiece, RemoveDirectory,
      RemoveFails, MakeRoot, Finish, Request, Skip, Unplug, Plug

LEMMA BegunTypes ==
  ASSUME at \in Roots, moves \in Nat, NEW kind \in {"move", "select", "reset"},
         NEW to \in Roots, NEW phase \in {"copy", "adopt", "remove", "mkdir", "finish"},
         Begin(kind, to, phase)
  PROVE  /\ worker' = [kind |-> kind, phase |-> phase, from |-> at, to |-> to,
                       staging |-> Absent]
         /\ worker' \in [kind: {"none", "move", "select", "reset"},
                       phase: {"idle", "copy", "replace", "adopt", "adopting",
                               "remove", "mkdir", "finish"},
                       from: Roots, to: Roots, staging: Directory]
         /\ moves' \in Nat /\ UNCHANGED <<library, at>>
  <1>1. worker' = [kind |-> kind, phase |-> phase, from |-> at, to |-> to,
                  staging |-> Absent]
    BY DEF Begin, NoWork
  <1>2. moves' \in Nat /\ UNCHANGED <<library, at>>
    BY DEF Begin, sessionVars
  <1>3. Absent \in Directory
    BY DEF Absent, Directory
  <1> QED
    BY <1>1, <1>2, <1>3

LEMMA WorkerTypesStep == TypeOK /\ [Next]_vars => WorkerTypes'
  <1> SUFFICES ASSUME TypeOK, [Next]_vars PROVE WorkerTypes'
    OBVIOUS
  <1> USE DEF homeVars, settingsVars, workerVars, diskVars, sessionVars, loadVars, counters
  <1>1. ASSUME Launch PROVE WorkerTypes'
    BY <1>1, DirectoryKept, HomeAssumption DEF Launch, TypeOK, WorkerTypes, DiskTypes,
      LoadTypes, Load, SettingsTypes,
      Content, NoWork
  <1>2. ASSUME ShowLibrary PROVE WorkerTypes'
    BY <1>2, DirectoryKept, HomeAssumption DEF ShowLibrary, StartLoad, TypeOK,
      WorkerTypes, DiskTypes, LoadTypes, Load,
      SettingsTypes, Content, NoWork
  <1>3. ASSUME Opened PROVE WorkerTypes'
    BY <1>3, DirectoryKept, HomeAssumption DEF Opened, TypeOK, WorkerTypes, DiskTypes,
      LoadTypes, Load, SettingsTypes,
      Content, NoWork
  <1>4. ASSUME NEW l \in loads, Fail(l) PROVE WorkerTypes'
    BY <1>4, DirectoryKept, HomeAssumption DEF Fail, Answered, UIFree, TypeOK,
      WorkerTypes, DiskTypes, LoadTypes, Load,
      SettingsTypes, Content, NoWork
  <1>5. ASSUME NEW l \in loads, Complete(l) PROVE WorkerTypes'
    BY <1>5, DirectoryKept, HomeAssumption DEF Complete, Answered, UIFree, TypeOK,
      WorkerTypes, DiskTypes, LoadTypes,
      Load, SettingsTypes, Content, NoWork
  <1>6. ASSUME loads = {}, BeginReset PROVE WorkerTypes'
    BY <1>6, BegunTypes DEF BeginReset, TypeOK, WorkerTypes
  <1>7. ASSUME loads = {}, NEW r \in Roots, BeginMove(r) PROVE WorkerTypes'
    BY <1>7, BegunTypes DEF BeginMove, TypeOK, WorkerTypes
  <1>8. ASSUME loads = {}, NEW r \in Roots, BeginSelect(r) PROVE WorkerTypes'
    BY <1>8, BegunTypes DEF BeginSelect, TypeOK, WorkerTypes
  <1>9. ASSUME Copy PROVE WorkerTypes'
    <2>1. Copied \in Directory
      BY DirectoryKept DEF Copied, TypeOK, DiskTypes, WorkerTypes
    <2> QED
      BY <1>9, <2>1, DirectoryKept DEF Copy, Goes, TypeOK, WorkerTypes
  <1>10. ASSUME Replace PROVE WorkerTypes'
    BY ZenonT(40), <1>10, DirectoryKept, HomeAssumption DEF Replace, AtWork, Goes, TypeOK,
      WorkerTypes, DiskTypes, LoadTypes, Load,
      SettingsTypes, Content, NoWork
  <1>11. ASSUME Adopt PROVE WorkerTypes'
    BY <1>11, DirectoryKept, HomeAssumption DEF Adopt, Goes, TypeOK, WorkerTypes,
      DiskTypes, LoadTypes, Load,
      SettingsTypes, Content, NoWork
  <1>12. ASSUME AdoptRaises PROVE WorkerTypes'
    BY <1>12, DirectoryKept, HomeAssumption DEF AdoptRaises, Goes, TypeOK, WorkerTypes,
      DiskTypes, LoadTypes, Load,
      SettingsTypes, Content, NoWork
  <1>13. ASSUME Adopted PROVE WorkerTypes'
    BY <1>13, DirectoryKept, HomeAssumption DEF Adopted, Goes, Idle, TypeOK,
      WorkerTypes, DiskTypes, LoadTypes, Load,
      SettingsTypes, Content, NoWork
  <1>14. ASSUME RemoveDirectory PROVE WorkerTypes'
    BY <1>14, DirectoryKept, HomeAssumption DEF RemoveDirectory, Goes, TypeOK,
      WorkerTypes, DiskTypes, LoadTypes, Load,
      SettingsTypes, Content, NoWork
  <1>15. ASSUME RemoveFails PROVE WorkerTypes'
    BY <1>15, DirectoryKept, HomeAssumption DEF RemoveFails, Goes, TypeOK, WorkerTypes,
      DiskTypes, LoadTypes, Load,
      SettingsTypes, Content, NoWork
  <1>16. ASSUME MakeRoot PROVE WorkerTypes'
    BY <1>16, DirectoryKept, HomeAssumption DEF MakeRoot, Goes, TypeOK, WorkerTypes,
      DiskTypes, LoadTypes, Load,
      SettingsTypes, Content, NoWork
  <1>17. ASSUME Finish PROVE WorkerTypes'
    BY <1>17, DirectoryKept, HomeAssumption DEF Finish, WithDatabase, WithDirectories,
      TypeOK, WorkerTypes, DiskTypes,
      LoadTypes, Load, SettingsTypes, Content, NoWork
  <1>18. ASSUME NEW c \in Roots \cup {None}, Request(c) PROVE WorkerTypes'
    BY <1>18, DirectoryKept, HomeAssumption DEF Request, StartLoad, UIFree, TypeOK,
      WorkerTypes, DiskTypes, LoadTypes,
      Load, SettingsTypes, Content, NoWork
  <1>19. ASSUME Skip PROVE WorkerTypes'
    BY <1>19, DirectoryKept, HomeAssumption DEF Skip, UIFree, TypeOK, WorkerTypes,
      DiskTypes, LoadTypes, Load,
      SettingsTypes, Content, NoWork
  <1>20. ASSUME Stop PROVE WorkerTypes'
    BY <1>20, DirectoryKept, HomeAssumption DEF Stop, TypeOK, WorkerTypes, DiskTypes,
      LoadTypes, Load, SettingsTypes,
      Content, NoWork
  <1>21. ASSUME UNCHANGED <<library, at, moves, worker>> PROVE WorkerTypes'
    BY <1>21, DirectoryKept, HomeAssumption DEF TypeOK, WorkerTypes, DiskTypes,
      LoadTypes, Load, SettingsTypes, Content,
      NoWork
  <1> QED
    BY <1>1, <1>2, <1>3, <1>4, <1>5, <1>6, <1>7, <1>8, <1>9, <1>10, <1>11,
      <1>12, <1>13, <1>14, <1>15, <1>16, <1>17, <1>18, <1>19, <1>20, <1>21 DEF Next,
        Loading, HomeStep, Transition, BeginTransition, SaveStep, vars,
      Check, Moves, MakeDirectories, Build, Superseded, Rebuild, RemovePiece,
      SavePreference, OpenFile, WriteFile, Unplug, Plug

LEMMA StartedTypes ==
  ASSUME TypeOK, NEW c \in Roots \cup {None}, StartLoad(c)
  PROVE  LoadTypes'
  <1> DEFINE new == [gen |-> generation + 1, phase |-> "queued",
                     root |-> IF c = None THEN file.data.location ELSE c,
                     chosen |-> c # None, pref |-> file.data.pref]
  <1>1. new \in Load
    BY HomeAssumption DEF Load, TypeOK, LoadTypes, SettingsTypes, Content
  <1>2. loads' = {l \in loads : l.phase # "queued"} \cup {new} /\ generation' = generation + 1
    BY DEF StartLoad
  <1>3. new.gen <= generation'
    BY <1>2 DEF TypeOK, LoadTypes
  <1>4. \A l \in loads : l.gen \in Nat /\ l.gen <= generation
    BY DEF TypeOK, LoadTypes, Load
  <1>5. \A l \in loads' : l.gen <= generation'
    BY <1>2, <1>3, <1>4 DEF TypeOK, LoadTypes
  <1> QED
    BY <1>1, <1>2, <1>5 DEF StartLoad, TypeOK, LoadTypes

LEMMA LoadTypesStep == TypeOK /\ [Next]_vars => LoadTypes'
  <1> SUFFICES ASSUME TypeOK, [Next]_vars PROVE LoadTypes'
    OBVIOUS
  <1> USE DEF homeVars, settingsVars, workerVars, diskVars, sessionVars, loadVars, counters
  <1>1. ASSUME ShowLibrary PROVE LoadTypes'
    BY <1>1, StartedTypes DEF ShowLibrary
  <1>2. ASSUME NEW c \in Roots \cup {None}, Request(c) PROVE LoadTypes'
    BY <1>2, StartedTypes DEF Request
  <1>3. ASSUME NEW l \in loads, Rebuild(l) PROVE LoadTypes'
    <2> DEFINE new == [gen |-> generation + 1, phase |-> "queued",
                       root |-> IF selected = None THEN file.data.location ELSE selected,
                       chosen |-> selected # None, pref |-> file.data.pref]
    <2>1. new \in Load
      BY HomeAssumption DEF Load, TypeOK, LoadTypes, SettingsTypes, Content
    <2>2. loads' = (loads \ {l}) \cup {new} /\ generation' = generation + 1
      BY <1>3 DEF Rebuild
    <2>3. new.gen <= generation'
      BY <2>2 DEF TypeOK, LoadTypes
    <2>4. \A k \in loads : k.gen \in Nat /\ k.gen <= generation
      BY DEF TypeOK, LoadTypes, Load
    <2>5. \A k \in loads' : k.gen <= generation'
      BY <2>2, <2>3, <2>4 DEF TypeOK, LoadTypes
    <2> QED
      BY <1>3, <2>1, <2>2, <2>5 DEF Rebuild, TypeOK, LoadTypes
  <1>4. ASSUME Skip PROVE LoadTypes'
    BY <1>4, HomeAssumption DEF Skip, UIFree, TypeOK, LoadTypes, Load, SettingsTypes, Content
  <1>5. ASSUME Stop PROVE LoadTypes'
    BY <1>5, HomeAssumption DEF Stop, TypeOK, LoadTypes, Load, SettingsTypes, Content
  <1>6. ASSUME NEW l \in loads, Check(l) PROVE LoadTypes'
    BY <1>6, HomeAssumption DEF Check, Moves, NewDefault, TypeOK, LoadTypes, Load,
      SettingsTypes, Content
  <1>7. ASSUME NEW l \in loads, MakeDirectories(l) PROVE LoadTypes'
    BY <1>7, HomeAssumption DEF MakeDirectories, Moves, WithDirectories, TypeOK,
      LoadTypes, Load,
      SettingsTypes, Content
  <1>8. ASSUME NEW l \in loads, Build(l) PROVE LoadTypes'
    BY SMTT(30), <1>8, HomeAssumption DEF Build, Moves, WithDatabase, TypeOK, LoadTypes, Load,
      SettingsTypes,
      Content
  <1>9. ASSUME NEW l \in loads, Superseded(l) PROVE LoadTypes'
    BY <1>9, HomeAssumption DEF Superseded, Answered, UIFree, TypeOK, LoadTypes, Load,
      SettingsTypes,
      Content
  <1>10. ASSUME NEW l \in loads, Fail(l) PROVE LoadTypes'
    BY <1>10, HomeAssumption DEF Fail, Answered, UIFree, TypeOK, LoadTypes, Load,
      SettingsTypes, Content
  <1>11. ASSUME NEW l \in loads, Complete(l) PROVE LoadTypes'
    BY <1>11, HomeAssumption DEF Complete, Answered, UIFree, TypeOK, LoadTypes, Load,
      SettingsTypes,
      Content
  <1>12. ASSUME UNCHANGED <<loads, generation, selected>> PROVE LoadTypes'
    BY <1>12, HomeAssumption DEF TypeOK, LoadTypes, Load, SettingsTypes, Content
  <1> QED
    BY <1>1, <1>2, <1>3, <1>4, <1>5, <1>6, <1>7, <1>8, <1>9, <1>10, <1>11,
      <1>12 DEF Next, Loading, HomeStep, Transition, BeginTransition, SaveStep, vars,
      Launch, Opened, BeginReset, Begin, BeginMove, BeginSelect, Copy, Goes,
      Replace, Adopt, AdoptRaises, Adopted, RemovePiece, RemoveDirectory,
      RemoveFails, MakeRoot, Finish, SavePreference, OpenFile, WriteFile,
      Unplug, Plug

LEMMA TypeStep == TypeOK /\ [Next]_vars => TypeOK'
  BY DiskTypesStep, SettingsTypesStep, WorkerTypesStep, LoadTypesStep DEF TypeOK

------------------------------------------------------------------------------
(* Who works when, and on what                                             *)

LEMMA DownQuietStep == TypeOK /\ DownQuiet /\ WorkerAlone /\ [Next]_vars => DownQuiet'
  <1> SUFFICES ASSUME TypeOK, DownQuiet, WorkerAlone, [Next]_vars PROVE DownQuiet'
    OBVIOUS
  <1> USE DEF homeVars, settingsVars, workerVars, diskVars, sessionVars, loadVars, counters
  <1>1. ASSUME Launch PROVE DownQuiet'
    BY <1>1 DEF Launch, DownQuiet, WorkerAlone, TypeOK, WorkerTypes, NoWork, Idle,
      Loaded, Threads
  <1>2. ASSUME ShowLibrary PROVE DownQuiet'
    BY <1>2 DEF ShowLibrary, StartLoad, DownQuiet, WorkerAlone, TypeOK, WorkerTypes,
      NoWork, Idle, Loaded, Threads
  <1>3. ASSUME Opened PROVE DownQuiet'
    BY <1>3 DEF Opened, DownQuiet, WorkerAlone, TypeOK, WorkerTypes, NoWork, Idle,
      Loaded, Threads
  <1>4. ASSUME NEW l \in loads, Check(l) PROVE DownQuiet'
    BY <1>4 DEF Check, Moves, NewDefault, DownQuiet, WorkerAlone, TypeOK, WorkerTypes,
      NoWork, Idle, Loaded, Threads
  <1>5. ASSUME NEW l \in loads, MakeDirectories(l) PROVE DownQuiet'
    BY <1>5 DEF MakeDirectories, Moves, WithDirectories, DownQuiet, WorkerAlone, TypeOK,
      WorkerTypes, NoWork, Idle, Loaded, Threads
  <1>6. ASSUME NEW l \in loads, Build(l) PROVE DownQuiet'
    BY <1>6 DEF Build, Moves, WithDatabase, DownQuiet, WorkerAlone, TypeOK, WorkerTypes,
      NoWork, Idle, Loaded, Threads
  <1>7. ASSUME NEW l \in loads, Superseded(l) PROVE DownQuiet'
    BY <1>7 DEF Superseded, Answered, UIFree, DownQuiet, WorkerAlone, TypeOK,
      WorkerTypes, NoWork, Idle, Loaded, Threads
  <1>8. ASSUME NEW l \in loads, Fail(l) PROVE DownQuiet'
    BY <1>8 DEF Fail, Answered, UIFree, DownQuiet, WorkerAlone, TypeOK, WorkerTypes,
      NoWork, Idle, Loaded, Threads
  <1>9. ASSUME NEW l \in loads, Rebuild(l) PROVE DownQuiet'
    BY <1>9 DEF Rebuild, Answered, UIFree, DownQuiet, WorkerAlone, TypeOK, WorkerTypes,
      NoWork, Idle, Loaded, Threads
  <1>10. ASSUME NEW l \in loads, Complete(l) PROVE DownQuiet'
    BY <1>10 DEF Complete, Answered, UIFree, DownQuiet, WorkerAlone, TypeOK, WorkerTypes,
      NoWork, Idle, Loaded, Threads
  <1>11. ASSUME loads = {}, BeginReset PROVE DownQuiet'
    BY <1>11 DEF BeginReset, Begin, UIFree, DownQuiet, WorkerAlone, TypeOK, WorkerTypes,
      NoWork, Idle, Loaded, Threads
  <1>12. ASSUME loads = {}, NEW r \in Roots, BeginMove(r) PROVE DownQuiet'
    BY <1>12 DEF BeginMove, Begin, UIFree, DownQuiet, WorkerAlone, TypeOK, WorkerTypes,
      NoWork, Idle, Loaded, Threads
  <1>13. ASSUME loads = {}, NEW r \in Roots, BeginSelect(r) PROVE DownQuiet'
    BY <1>13 DEF BeginSelect, Begin, UIFree, DownQuiet, WorkerAlone, TypeOK, WorkerTypes,
      NoWork, Idle, Loaded, Threads
  <1>14. ASSUME Copy PROVE DownQuiet'
    BY <1>14 DEF Copy, AtWork, Goes, Copied, DownQuiet, WorkerAlone, TypeOK, WorkerTypes,
      NoWork, Idle, Loaded, Threads
  <1>15. ASSUME Replace PROVE DownQuiet'
    BY <1>15 DEF Replace, AtWork, Goes, DownQuiet, WorkerAlone, TypeOK, WorkerTypes,
      NoWork, Idle, Loaded, Threads
  <1>16. ASSUME Adopt PROVE DownQuiet'
    BY <1>16 DEF Adopt, Goes, DownQuiet, WorkerAlone, TypeOK, WorkerTypes, NoWork, Idle,
      Loaded, Threads
  <1>17. ASSUME AdoptRaises PROVE DownQuiet'
    BY <1>17 DEF AdoptRaises, Goes, DownQuiet, WorkerAlone, TypeOK, WorkerTypes, NoWork,
      Idle, Loaded, Threads
  <1>18. ASSUME Adopted PROVE DownQuiet'
    BY <1>18 DEF Adopted, Goes, Idle, DownQuiet, WorkerAlone, TypeOK, WorkerTypes, NoWork,
      Idle, Loaded, Threads
  <1>19. ASSUME RemoveDirectory PROVE DownQuiet'
    BY <1>19 DEF RemoveDirectory, Goes, DownQuiet, WorkerAlone, TypeOK, WorkerTypes,
      NoWork, Idle, Loaded, Threads
  <1>20. ASSUME RemoveFails PROVE DownQuiet'
    BY <1>20 DEF RemoveFails, Goes, DownQuiet, WorkerAlone, TypeOK, WorkerTypes, NoWork,
      Idle, Loaded, Threads
  <1>21. ASSUME MakeRoot PROVE DownQuiet'
    BY <1>21 DEF MakeRoot, Goes, DownQuiet, WorkerAlone, TypeOK, WorkerTypes, NoWork,
      Idle, Loaded, Threads
  <1>22. ASSUME Finish PROVE DownQuiet'
    BY <1>22 DEF Finish, WithDatabase, WithDirectories, DownQuiet, WorkerAlone, TypeOK,
      WorkerTypes, NoWork, Idle, Loaded, Threads
  <1>23. ASSUME SavePreference PROVE DownQuiet'
    BY <1>23 DEF SavePreference, UIFree, DownQuiet, WorkerAlone, TypeOK, WorkerTypes,
      NoWork, Idle, Loaded, Threads
  <1>24. ASSUME NEW t \in Threads, OpenFile(t) PROVE DownQuiet'
    BY <1>24 DEF OpenFile, DownQuiet, WorkerAlone, TypeOK, WorkerTypes, NoWork, Idle,
      Loaded, Threads
  <1>25. ASSUME NEW t \in Threads, WriteFile(t) PROVE DownQuiet'
    BY <1>25 DEF WriteFile, DownQuiet, WorkerAlone, TypeOK, WorkerTypes, NoWork, Idle,
      Loaded, Threads
  <1>26. ASSUME NEW c \in Roots \cup {None}, Request(c) PROVE DownQuiet'
    BY <1>26 DEF Request, StartLoad, UIFree, DownQuiet, WorkerAlone, TypeOK, WorkerTypes,
      NoWork, Idle, Loaded, Threads
  <1>27. ASSUME Skip PROVE DownQuiet'
    BY <1>27 DEF Skip, UIFree, DownQuiet, WorkerAlone, TypeOK, WorkerTypes, NoWork, Idle,
      Loaded, Threads
  <1>28. ASSUME Stop PROVE DownQuiet'
    BY <1>28 DEF Stop, DownQuiet, WorkerAlone, TypeOK, WorkerTypes, NoWork, Idle, Loaded,
      Threads
  <1>29. ASSUME UNCHANGED <<library, loads, worker, save>> PROVE DownQuiet'
    BY <1>29 DEF DownQuiet, WorkerAlone, TypeOK, WorkerTypes, NoWork, Idle, Loaded,
      Threads
  <1> QED
    BY <1>1, <1>2, <1>3, <1>4, <1>5, <1>6, <1>7, <1>8, <1>9, <1>10, <1>11,
      <1>12, <1>13, <1>14, <1>15, <1>16, <1>17, <1>18, <1>19, <1>20, <1>21,
      <1>22, <1>23, <1>24, <1>25, <1>26, <1>27, <1>28, <1>29 DEF Next, Loading,
        HomeStep, Transition, BeginTransition, SaveStep, vars,
      RemovePiece, Unplug, Plug, Goes

LEMMA WorkerAloneStep ==
  TypeOK /\ DownQuiet /\ WorkerAlone /\ DrivesClean /\ SessionAttached /\ [Next]_vars
    => WorkerAlone'
  <1> SUFFICES ASSUME TypeOK, DownQuiet, WorkerAlone, DrivesClean, SessionAttached,
    [Next]_vars PROVE WorkerAlone'
    OBVIOUS
  <1> USE DEF homeVars, settingsVars, workerVars, diskVars, sessionVars, loadVars, counters
  <1>1. ASSUME Launch PROVE WorkerAlone'
    BY <1>1 DEF Launch, WorkerAlone, DownQuiet, DrivesClean, SessionAttached, Attached,
      TypeOK, WorkerTypes, SettingsTypes, NoWork, Idle, Loaded, Threads,
      Absent
  <1>2. ASSUME ShowLibrary PROVE WorkerAlone'
    BY <1>2 DEF ShowLibrary, StartLoad, WorkerAlone, DownQuiet, DrivesClean,
      SessionAttached, Attached, TypeOK, WorkerTypes, SettingsTypes, NoWork,
      Idle, Loaded, Threads, Absent
  <1>3. ASSUME Opened PROVE WorkerAlone'
    BY <1>3 DEF Opened, WorkerAlone, DownQuiet, DrivesClean, SessionAttached, Attached,
      TypeOK, WorkerTypes, SettingsTypes, NoWork, Idle, Loaded, Threads,
      Absent
  <1>4. ASSUME NEW l \in loads, Check(l) PROVE WorkerAlone'
    BY <1>4 DEF Check, Moves, NewDefault, WorkerAlone, DownQuiet, DrivesClean,
      SessionAttached, Attached, TypeOK, WorkerTypes, SettingsTypes, NoWork,
      Idle, Loaded, Threads, Absent
  <1>5. ASSUME NEW l \in loads, MakeDirectories(l) PROVE WorkerAlone'
    BY <1>5 DEF MakeDirectories, Moves, WithDirectories, WorkerAlone, DownQuiet,
      DrivesClean, SessionAttached, Attached, TypeOK, WorkerTypes,
      SettingsTypes, NoWork, Idle, Loaded, Threads, Absent
  <1>6. ASSUME NEW l \in loads, Build(l) PROVE WorkerAlone'
    BY <1>6 DEF Build, Moves, WithDatabase, WorkerAlone, DownQuiet, DrivesClean,
      SessionAttached, Attached, TypeOK, WorkerTypes, SettingsTypes, NoWork,
      Idle, Loaded, Threads, Absent
  <1>7. ASSUME NEW l \in loads, Superseded(l) PROVE WorkerAlone'
    BY <1>7 DEF Superseded, Answered, UIFree, WorkerAlone, DownQuiet, DrivesClean,
      SessionAttached, Attached, TypeOK, WorkerTypes, SettingsTypes, NoWork,
      Idle, Loaded, Threads, Absent
  <1>8. ASSUME NEW l \in loads, Fail(l) PROVE WorkerAlone'
    BY <1>8 DEF Fail, Answered, UIFree, WorkerAlone, DownQuiet, DrivesClean,
      SessionAttached, Attached, TypeOK, WorkerTypes, SettingsTypes, NoWork,
      Idle, Loaded, Threads, Absent
  <1>9. ASSUME NEW l \in loads, Rebuild(l) PROVE WorkerAlone'
    BY <1>9 DEF Rebuild, Answered, UIFree, WorkerAlone, DownQuiet, DrivesClean,
      SessionAttached, Attached, TypeOK, WorkerTypes, SettingsTypes, NoWork,
      Idle, Loaded, Threads, Absent
  <1>10. ASSUME NEW l \in loads, Complete(l) PROVE WorkerAlone'
    BY <1>10 DEF Complete, Answered, UIFree, WorkerAlone, DownQuiet, DrivesClean,
      SessionAttached, Attached, TypeOK, WorkerTypes, SettingsTypes, NoWork,
      Idle, Loaded, Threads, Absent
  <1>11. ASSUME loads = {}, BeginReset, loads' = loads PROVE WorkerAlone'
    <2>1. /\ Attached(at) /\ save["worker"].step = "idle" /\ UNCHANGED <<save, drive>>
          /\ library' \in {"ready", "broken"} /\ loads' = {}
      BY <1>11 DEF BeginReset, Begin, NoWork, WorkerAlone, SessionAttached
    <2>2. \E phase \in {"remove", "mkdir"} :
            worker' = [kind |-> "reset", phase |-> phase, from |-> at, to |-> at,
                       staging |-> Absent]
      BY <1>11 DEF BeginReset, Begin, NoWork
    <2> QED
      BY <2>1, <2>2 DEF WorkerAlone, Attached
  <1>12. ASSUME loads = {}, NEW r \in Roots, BeginMove(r), loads' = loads PROVE WorkerAlone'
    <2>1. /\ Attached(at) /\ save["worker"].step = "idle" /\ UNCHANGED <<save, drive>>
          /\ library' \in {"ready", "broken"} /\ loads' = {}
          /\ Attached(r)
      BY <1>12 DEF BeginMove, Begin, NoWork, WorkerAlone, SessionAttached, Attached
    <2>2. CASE r = at \/ disk[r].there
      <3>1. worker' = [kind |-> "move", phase |-> "finish", from |-> at, to |-> r,
                       staging |-> Absent]
        BY <1>12, <2>2 DEF BeginMove, Begin, NoWork
      <3> QED
        BY <2>1, <3>1 DEF WorkerAlone, Attached
    <2>3. CASE ~(r = at \/ disk[r].there)
      <3>1. worker' = [kind |-> "move", phase |-> "copy", from |-> at, to |-> r,
                       staging |-> Absent]
        BY <1>12, <2>3 DEF BeginMove, Begin, NoWork
      <3> QED
        BY <2>1, <2>3, <3>1 DEF WorkerAlone, Attached
    <2> QED
      BY <2>2, <2>3
  <1>13. ASSUME loads = {}, NEW r \in Roots, BeginSelect(r), loads' = loads PROVE WorkerAlone'
    <2>1. /\ Attached(at) /\ save["worker"].step = "idle" /\ UNCHANGED <<save, drive>>
          /\ library' \in {"ready", "broken"} /\ loads' = {}
      BY <1>13 DEF BeginSelect, Begin, NoWork, WorkerAlone, SessionAttached
    <2>2. HasDatabase(disk[r]) => Attached(r)
      BY DEF HasDatabase, DrivesClean, Attached, Absent
    <2>3. CASE HasDatabase(disk[r])
      <3>1. worker' = [kind |-> "select", phase |-> "adopt", from |-> at, to |-> r,
                       staging |-> Absent]
        BY <1>13, <2>3 DEF BeginSelect, Begin, NoWork
      <3> QED
        BY <2>1, <2>2, <2>3, <3>1 DEF WorkerAlone, Attached
    <2>4. CASE ~HasDatabase(disk[r])
      <3>1. worker' = [kind |-> "select", phase |-> "finish", from |-> at, to |-> r,
                       staging |-> Absent]
        BY <1>13, <2>4 DEF BeginSelect, Begin, NoWork
      <3> QED
        BY <2>1, <3>1 DEF WorkerAlone, Attached
    <2> QED
      BY <2>3, <2>4
  <1>14. ASSUME Copy, loads' = loads PROVE WorkerAlone'
    BY <1>14 DEF Copy, AtWork, Goes, Copied, WorkerAlone, DownQuiet, DrivesClean,
      SessionAttached, Attached, TypeOK, WorkerTypes, SettingsTypes, NoWork,
      Idle, Loaded, Threads, Absent
  <1>15. ASSUME Replace, loads' = loads PROVE WorkerAlone'
    BY <1>15 DEF Replace, AtWork, Goes, WorkerAlone, DownQuiet, DrivesClean,
      SessionAttached, Attached, TypeOK, WorkerTypes, SettingsTypes, NoWork,
      Idle, Loaded, Threads, Absent
  <1>16. ASSUME Adopt, loads' = loads PROVE WorkerAlone'
    BY <1>16 DEF Adopt, Goes, WorkerAlone, DownQuiet, DrivesClean, SessionAttached,
      Attached, TypeOK, WorkerTypes, SettingsTypes, NoWork, Idle, Loaded,
      Threads, Absent
  <1>17. ASSUME AdoptRaises, loads' = loads PROVE WorkerAlone'
    BY <1>17 DEF AdoptRaises, Goes, WorkerAlone, DownQuiet, DrivesClean, SessionAttached,
      Attached, TypeOK, WorkerTypes, SettingsTypes, NoWork, Idle, Loaded,
      Threads, Absent
  <1>18. ASSUME Adopted, loads' = loads PROVE WorkerAlone'
    BY <1>18 DEF Adopted, Goes, Idle, WorkerAlone, DownQuiet, DrivesClean,
      SessionAttached, Attached, TypeOK, WorkerTypes, SettingsTypes, NoWork,
      Idle, Loaded, Threads, Absent
  <1>19. ASSUME RemoveDirectory, loads' = loads PROVE WorkerAlone'
    BY <1>19 DEF RemoveDirectory, Goes, WorkerAlone, DownQuiet, DrivesClean,
      SessionAttached, Attached, TypeOK, WorkerTypes, SettingsTypes, NoWork,
      Idle, Loaded, Threads, Absent
  <1>20. ASSUME RemoveFails, loads' = loads PROVE WorkerAlone'
    BY <1>20 DEF RemoveFails, Goes, WorkerAlone, DownQuiet, DrivesClean, SessionAttached,
      Attached, TypeOK, WorkerTypes, SettingsTypes, NoWork, Idle, Loaded,
      Threads, Absent
  <1>21. ASSUME MakeRoot, loads' = loads PROVE WorkerAlone'
    BY <1>21 DEF MakeRoot, Goes, WorkerAlone, DownQuiet, DrivesClean, SessionAttached,
      Attached, TypeOK, WorkerTypes, SettingsTypes, NoWork, Idle, Loaded,
      Threads, Absent
  <1>22. ASSUME Finish, loads' = loads PROVE WorkerAlone'
    BY <1>22 DEF Finish, WithDatabase, WithDirectories, WorkerAlone, DownQuiet,
      DrivesClean, SessionAttached, Attached, TypeOK, WorkerTypes,
      SettingsTypes, NoWork, Idle, Loaded, Threads, Absent
  <1>23. ASSUME SavePreference, loads' = loads PROVE WorkerAlone'
    BY <1>23 DEF SavePreference, UIFree, WorkerAlone, DownQuiet, DrivesClean,
      SessionAttached, Attached, TypeOK, WorkerTypes, SettingsTypes, NoWork,
      Idle, Loaded, Threads, Absent
  <1>24. ASSUME NEW t \in Threads, OpenFile(t), loads' = loads PROVE WorkerAlone'
    BY <1>24 DEF OpenFile, WorkerAlone, DownQuiet, DrivesClean, SessionAttached, Attached,
      TypeOK, WorkerTypes, SettingsTypes, NoWork, Idle, Loaded, Threads,
      Absent
  <1>25. ASSUME NEW t \in Threads, WriteFile(t), loads' = loads PROVE WorkerAlone'
    BY <1>25 DEF WriteFile, WorkerAlone, DownQuiet, DrivesClean, SessionAttached,
      Attached, TypeOK, WorkerTypes, SettingsTypes, NoWork, Idle, Loaded,
      Threads, Absent
  <1>26. ASSUME NEW c \in Roots \cup {None}, Request(c) PROVE WorkerAlone'
    BY <1>26 DEF Request, StartLoad, UIFree, WorkerAlone, DownQuiet, DrivesClean,
      SessionAttached, Attached, TypeOK, WorkerTypes, SettingsTypes, NoWork,
      Idle, Loaded, Threads, Absent
  <1>27. ASSUME Skip PROVE WorkerAlone'
    BY <1>27 DEF Skip, UIFree, WorkerAlone, DownQuiet, DrivesClean, SessionAttached,
      Attached, TypeOK, WorkerTypes, SettingsTypes, NoWork, Idle, Loaded,
      Threads, Absent
  <1>28. ASSUME Stop PROVE WorkerAlone'
    BY <1>28 DEF Stop, WorkerAlone, DownQuiet, DrivesClean, SessionAttached, Attached,
      TypeOK, WorkerTypes, SettingsTypes, NoWork, Idle, Loaded, Threads,
      Absent
  <1>29. ASSUME NEW r \in Roots, Unplug(r) PROVE WorkerAlone'
    BY <1>29 DEF Unplug, WorkerAlone, DownQuiet, DrivesClean, SessionAttached, Attached,
      TypeOK, WorkerTypes, SettingsTypes, NoWork, Idle, Loaded, Threads,
      Absent
  <1>30. ASSUME NEW r \in Roots, Plug(r) PROVE WorkerAlone'
    BY <1>30 DEF Plug, WorkerAlone, DownQuiet, DrivesClean, SessionAttached, Attached,
      TypeOK, WorkerTypes, SettingsTypes, NoWork, Idle, Loaded, Threads,
      Absent
  <1>31. ASSUME UNCHANGED <<library, loads, worker, save, drive>> PROVE WorkerAlone'
    BY <1>31 DEF WorkerAlone, DownQuiet, DrivesClean, SessionAttached, Attached, TypeOK,
      WorkerTypes, SettingsTypes, NoWork, Idle, Loaded, Threads, Absent
  <1> QED
    BY <1>1, <1>2, <1>3, <1>4, <1>5, <1>6, <1>7, <1>8, <1>9, <1>10, <1>11,
      <1>12, <1>13, <1>14, <1>15, <1>16, <1>17, <1>18, <1>19, <1>20, <1>21,
      <1>22, <1>23, <1>24, <1>25, <1>26, <1>27, <1>28, <1>29, <1>30, <1>31 DEF Next,
        Loading, HomeStep, Transition, BeginTransition, SaveStep, vars,
      RemovePiece, Goes

LEMMA DrivesCleanStep ==
  TypeOK /\ DownQuiet /\ WorkerAlone /\ DrivesClean /\ LoadsAttached /\
    SessionAttached /\ [Next]_vars
    => DrivesClean'
  <1> SUFFICES ASSUME TypeOK, DownQuiet, WorkerAlone, DrivesClean, LoadsAttached,
    SessionAttached, [Next]_vars PROVE DrivesClean'
    OBVIOUS
  <1> USE DEF homeVars, settingsVars, workerVars, diskVars, sessionVars, loadVars, counters
  <1>1. ASSUME NEW l \in loads, MakeDirectories(l) PROVE DrivesClean'
    BY <1>1 DEF MakeDirectories, Moves, WithDirectories, LoadsAttached, Absent,
      DrivesClean, Attached, TypeOK, DiskTypes
  <1>2. ASSUME NEW l \in loads, Build(l) PROVE DrivesClean'
    BY <1>2 DEF Build, Moves, WithDatabase, LoadsAttached, Absent, DrivesClean, Attached,
      TypeOK, DiskTypes
  <1>3. ASSUME Replace PROVE DrivesClean'
    BY <1>3 DEF Replace, AtWork, Goes, WorkerAlone, DrivesClean, Attached, TypeOK,
      DiskTypes
  <1>4. ASSUME RemovePiece PROVE DrivesClean'
    BY <1>4 DEF RemovePiece, WorkerAlone, DrivesClean, Attached, TypeOK, DiskTypes
  <1>5. ASSUME RemoveDirectory PROVE DrivesClean'
    BY <1>5 DEF RemoveDirectory, Goes, WorkerAlone, DrivesClean, Attached, TypeOK,
      DiskTypes
  <1>6. ASSUME MakeRoot PROVE DrivesClean'
    BY <1>6 DEF MakeRoot, Goes, WorkerAlone, DrivesClean, Attached, TypeOK, DiskTypes
  <1>7. ASSUME Finish PROVE DrivesClean'
    BY <1>7 DEF Finish, WithDatabase, WithDirectories, WorkerAlone, SessionAttached,
      DrivesClean, Attached, TypeOK, DiskTypes
  <1>8. ASSUME NEW r \in Roots, Unplug(r) PROVE DrivesClean'
    BY <1>8 DEF Unplug, DrivesClean, Attached, TypeOK, DiskTypes
  <1>9. ASSUME NEW r \in Roots, Plug(r) PROVE DrivesClean'
    <2>1. Absent.there = FALSE
      BY DEF Absent
    <2> QED
      BY <1>9, <2>1 DEF Plug, DrivesClean, Attached, TypeOK, DiskTypes
  <1>10. ASSUME UNCHANGED <<disk, drive>> PROVE DrivesClean'
    BY <1>10 DEF DrivesClean, Attached, TypeOK, DiskTypes
  <1> QED
    BY <1>1, <1>2, <1>3, <1>4, <1>5, <1>6, <1>7, <1>8, <1>9, <1>10 DEF Next, Loading,
      HomeStep, Transition, BeginTransition, SaveStep, vars,
      Launch, ShowLibrary, StartLoad, Opened, Check, Moves, Superseded, Fail,
      Rebuild, Complete, BeginReset, Begin, BeginMove, BeginSelect, Copy,
      Goes, Adopt, AdoptRaises, Adopted, RemoveFails, SavePreference,
      OpenFile, WriteFile, Request, Skip, Stop, Goes

LEMMA LoadsAttachedStep ==
  TypeOK /\ DownQuiet /\ WorkerAlone /\ DrivesClean /\ LoadsAttached /\
    SessionAttached /\ [Next]_vars
    => LoadsAttached'
  <1> SUFFICES ASSUME TypeOK, DownQuiet, WorkerAlone, DrivesClean, LoadsAttached,
    SessionAttached, [Next]_vars PROVE LoadsAttached'
    OBVIOUS
  <1> USE DEF homeVars, settingsVars, workerVars, diskVars, sessionVars, loadVars, counters
  <1>1. ASSUME ShowLibrary PROVE LoadsAttached'
    BY <1>1 DEF ShowLibrary, StartLoad, LoadsAttached, Attached
  <1>2. ASSUME NEW l \in loads, Check(l) PROVE LoadsAttached'
    <2>1. Absent.there = FALSE
      BY DEF Absent
    <2>2. NewDefault(l) \/ HasDatabase(disk[l.root]) => Attached(l.root)
      BY <2>1 DEF NewDefault, HasDatabase, DrivesClean, Attached, TypeOK, LoadTypes, Load
    <2>3. \A k \in loads' \ loads : k.root = l.root
      BY <1>2 DEF Check, Moves, TypeOK, LoadTypes, Load
    <2>4. \A k \in loads' \ loads : k.phase = "directories" => Attached(l.root)
      BY <1>2, <2>2 DEF Check, Moves, TypeOK, LoadTypes, Load
    <2>5. \A k \in loads' \ loads : k.phase \in {"directories", "refused"}
      BY <1>2 DEF Check, Moves, TypeOK, LoadTypes, Load
    <2> QED
      BY <1>2, <2>3, <2>4, <2>5 DEF Check, LoadsAttached, Attached
  <1>3. ASSUME NEW l \in loads, MakeDirectories(l) PROVE LoadsAttached'
    <2>1. \A k \in loads' \ loads : k.root = l.root
      BY <1>3 DEF MakeDirectories, Moves, TypeOK, LoadTypes, Load
    <2>2. Attached(l.root) /\ UNCHANGED drive
      BY <1>3 DEF MakeDirectories, LoadsAttached, Attached
    <2> QED
      BY <2>1, <2>2 DEF LoadsAttached, Attached
  <1>4. ASSUME NEW l \in loads, Build(l) PROVE LoadsAttached'
    <2>1. \A k \in loads' \ loads : k.root = l.root
      BY <1>4 DEF Build, Moves, TypeOK, LoadTypes, Load
    <2>2. Attached(l.root) /\ UNCHANGED drive
      BY <1>4 DEF Build, LoadsAttached, Attached
    <2> QED
      BY <2>1, <2>2 DEF LoadsAttached, Attached
  <1>5. ASSUME NEW l \in loads, Superseded(l) PROVE LoadsAttached'
    BY <1>5 DEF Superseded, Answered, UIFree, LoadsAttached, Attached
  <1>6. ASSUME NEW l \in loads, Fail(l) PROVE LoadsAttached'
    BY <1>6 DEF Fail, Answered, UIFree, LoadsAttached, Attached
  <1>7. ASSUME NEW l \in loads, Rebuild(l) PROVE LoadsAttached'
    BY <1>7 DEF Rebuild, Answered, UIFree, LoadsAttached, Attached
  <1>8. ASSUME NEW l \in loads, Complete(l) PROVE LoadsAttached'
    BY <1>8 DEF Complete, Answered, UIFree, LoadsAttached, Attached
  <1>9. ASSUME NEW c \in Roots \cup {None}, Request(c) PROVE LoadsAttached'
    BY <1>9 DEF Request, StartLoad, UIFree, LoadsAttached, Attached
  <1>10. ASSUME Skip PROVE LoadsAttached'
    BY <1>10 DEF Skip, UIFree, LoadsAttached, Attached
  <1>11. ASSUME Stop PROVE LoadsAttached'
    BY <1>11 DEF Stop, LoadsAttached, Attached
  <1>12. ASSUME NEW r \in Roots, Unplug(r) PROVE LoadsAttached'
    BY <1>12 DEF Unplug, DownQuiet, LoadsAttached, Attached
  <1>13. ASSUME NEW r \in Roots, Plug(r) PROVE LoadsAttached'
    BY <1>13 DEF Plug, TypeOK, DiskTypes, Absent, LoadsAttached, Attached
  <1>14. ASSUME UNCHANGED <<loads, drive>> PROVE LoadsAttached'
    BY <1>14 DEF LoadsAttached, Attached
  <1> QED
    BY <1>1, <1>2, <1>3, <1>4, <1>5, <1>6, <1>7, <1>8, <1>9, <1>10, <1>11,
      <1>12, <1>13, <1>14 DEF Next, Loading, HomeStep, Transition, BeginTransition,
        SaveStep, vars,
      Launch, Opened, BeginReset, Begin, BeginMove, BeginSelect, Copy, Goes,
      Replace, Adopt, AdoptRaises, Adopted, RemovePiece, RemoveDirectory,
      RemoveFails, MakeRoot, Finish, SavePreference, OpenFile, WriteFile, Goes

LEMMA SessionAttachedStep ==
  TypeOK /\ DownQuiet /\ WorkerAlone /\ DrivesClean /\ LoadsAttached /\
    SessionAttached /\ [Next]_vars
    => SessionAttached'
  <1> SUFFICES ASSUME TypeOK, DownQuiet, WorkerAlone, DrivesClean, LoadsAttached,
    SessionAttached, [Next]_vars PROVE SessionAttached'
    OBVIOUS
  <1> USE DEF homeVars, settingsVars, workerVars, diskVars, sessionVars, loadVars, counters
  <1>1. ASSUME Launch PROVE SessionAttached'
    BY <1>1 DEF Launch, SessionAttached, WorkerAlone, DownQuiet, Attached, TypeOK,
      SettingsTypes, WorkerTypes, Content, Loaded, Threads, Idle, Json, Torn,
      NoWork, Absent
  <1>2. ASSUME ShowLibrary PROVE SessionAttached'
    BY <1>2 DEF ShowLibrary, StartLoad, SessionAttached, WorkerAlone, DownQuiet,
      Attached, TypeOK, SettingsTypes, WorkerTypes, Content, Loaded, Threads,
      Idle, Json, Torn, NoWork, Absent
  <1>3. ASSUME Opened PROVE SessionAttached'
    BY <1>3 DEF Opened, SessionAttached, WorkerAlone, DownQuiet, Attached, TypeOK,
      SettingsTypes, WorkerTypes, Content, Loaded, Threads, Idle, Json, Torn,
      NoWork, Absent
  <1>4. ASSUME NEW l \in loads, Fail(l) PROVE SessionAttached'
    BY <1>4 DEF Fail, Answered, UIFree, SessionAttached, WorkerAlone, DownQuiet,
      Attached, TypeOK, SettingsTypes, WorkerTypes, Content, Loaded, Threads,
      Idle, Json, Torn, NoWork, Absent
  <1>5. ASSUME NEW l \in loads, Complete(l) PROVE SessionAttached'
    <2>1. /\ Attached(l.root) /\ l.root \in Roots /\ at' = l.root
          /\ UNCHANGED <<drive, worker>>
      BY <1>5 DEF Complete, Answered, LoadsAttached, Attached, TypeOK, LoadTypes, Load
    <2>2. worker.phase = "idle" /\ save["ui"].step = "idle" /\ save["worker"].step = "idle"
      BY <1>5 DEF Complete, Answered, UIFree, WorkerAlone
    <2>3. CASE library' = "ready" /\ UNCHANGED settingsVars
                /\ file.data.location = l.root
      BY <2>1, <2>2, <2>3 DEF SessionAttached, Attached, Threads
    <2>4. CASE /\ library' = "adopting"
               /\ Loaded("ui", [file.data EXCEPT !.location = l.root, !.good = l.root])
      <3>1. save'["ui"].step = "loaded" /\ save'["ui"].next.location = l.root
        BY <2>4 DEF Loaded, TypeOK, SettingsTypes, Content, Threads
      <3> QED
        BY <2>1, <2>2, <2>4, <3>1 DEF SessionAttached, Attached
    <2> QED
      BY <1>5, <2>3, <2>4 DEF Complete
  <1>6. ASSUME Finish PROVE SessionAttached'
    BY <1>6 DEF Finish, WithDatabase, WithDirectories, SessionAttached, WorkerAlone,
      DownQuiet, Attached, TypeOK, SettingsTypes, WorkerTypes, Content,
      Loaded, Threads, Idle, Json, Torn, NoWork, Absent
  <1>7. ASSUME SavePreference PROVE SessionAttached'
    BY <1>7 DEF SavePreference, UIFree, SessionAttached, WorkerAlone, DownQuiet,
      Attached, TypeOK, SettingsTypes, WorkerTypes, Content, Loaded, Threads,
      Idle, Json, Torn, NoWork, Absent
  <1>8. ASSUME Adopt PROVE SessionAttached'
    BY <1>8 DEF Adopt, Goes, SessionAttached, WorkerAlone, DownQuiet, Attached, TypeOK,
      SettingsTypes, WorkerTypes, Content, Loaded, Threads, Idle, Json, Torn,
      NoWork, Absent
  <1>9. ASSUME NEW t \in Threads, OpenFile(t) PROVE SessionAttached'
    BY <1>9 DEF OpenFile, SessionAttached, WorkerAlone, DownQuiet, Attached, TypeOK,
      SettingsTypes, WorkerTypes, Content, Loaded, Threads, Idle, Json, Torn,
      NoWork, Absent
  <1>10. ASSUME NEW t \in Threads, WriteFile(t) PROVE SessionAttached'
    BY <1>10 DEF WriteFile, SessionAttached, WorkerAlone, DownQuiet, Attached, TypeOK,
      SettingsTypes, WorkerTypes, Content, Loaded, Threads, Idle, Json, Torn,
      NoWork, Absent
  <1>11. ASSUME NEW c \in Roots \cup {None}, Request(c) PROVE SessionAttached'
    BY <1>11 DEF Request, StartLoad, UIFree, SessionAttached, WorkerAlone, DownQuiet,
      Attached, TypeOK, SettingsTypes, WorkerTypes, Content, Loaded, Threads,
      Idle, Json, Torn, NoWork, Absent
  <1>12. ASSUME Skip PROVE SessionAttached'
    BY <1>12 DEF Skip, UIFree, SessionAttached, WorkerAlone, DownQuiet, Attached, TypeOK,
      SettingsTypes, WorkerTypes, Content, Loaded, Threads, Idle, Json, Torn,
      NoWork, Absent
  <1>13. ASSUME Stop PROVE SessionAttached'
    BY <1>13 DEF Stop, SessionAttached, WorkerAlone, DownQuiet, Attached, TypeOK,
      SettingsTypes, WorkerTypes, Content, Loaded, Threads, Idle, Json, Torn,
      NoWork, Absent
  <1>14. ASSUME NEW r \in Roots, Unplug(r) PROVE SessionAttached'
    BY <1>14 DEF Unplug, SessionAttached, WorkerAlone, DownQuiet, Attached, TypeOK,
      SettingsTypes, WorkerTypes, Content, Loaded, Threads, Idle, Json, Torn,
      NoWork, Absent
  <1>15. ASSUME NEW r \in Roots, Plug(r) PROVE SessionAttached'
    BY <1>15 DEF Plug, SessionAttached, WorkerAlone, DownQuiet, Attached, TypeOK,
      SettingsTypes, WorkerTypes, Content, Loaded, Threads, Idle, Json, Torn,
      NoWork, Absent
  <1>16. ASSUME loads = {}, BeginReset PROVE SessionAttached'
    BY <1>16 DEF BeginReset, Begin, UIFree, SessionAttached, WorkerAlone, DownQuiet,
      Attached, TypeOK, SettingsTypes, WorkerTypes, Content, Loaded, Threads,
      Idle, Json, Torn, NoWork, Absent
  <1>17. ASSUME loads = {}, NEW r \in Roots, BeginMove(r) PROVE SessionAttached'
    BY <1>17 DEF BeginMove, Begin, UIFree, SessionAttached, WorkerAlone, DownQuiet,
      Attached, TypeOK, SettingsTypes, WorkerTypes, Content, Loaded, Threads,
      Idle, Json, Torn, NoWork, Absent
  <1>18. ASSUME loads = {}, NEW r \in Roots, BeginSelect(r) PROVE SessionAttached'
    BY <1>18 DEF BeginSelect, Begin, UIFree, SessionAttached, WorkerAlone, DownQuiet,
      Attached, TypeOK, SettingsTypes, WorkerTypes, Content, Loaded, Threads,
      Idle, Json, Torn, NoWork, Absent
  <1>19. ASSUME Copy PROVE SessionAttached'
    BY <1>19 DEF Copy, AtWork, Goes, Copied, SessionAttached, WorkerAlone, DownQuiet,
      Attached, TypeOK, SettingsTypes, WorkerTypes, Content, Loaded, Threads,
      Idle, Json, Torn, NoWork, Absent
  <1>20. ASSUME Replace PROVE SessionAttached'
    BY <1>20 DEF Replace, AtWork, Goes, SessionAttached, WorkerAlone, DownQuiet, Attached,
      TypeOK, SettingsTypes, WorkerTypes, Content, Loaded, Threads, Idle,
      Json, Torn, NoWork, Absent
  <1>21. ASSUME AdoptRaises PROVE SessionAttached'
    BY <1>21 DEF AdoptRaises, Goes, SessionAttached, WorkerAlone, DownQuiet, Attached,
      TypeOK, SettingsTypes, WorkerTypes, Content, Loaded, Threads, Idle,
      Json, Torn, NoWork, Absent
  <1>22. ASSUME Adopted PROVE SessionAttached'
    BY <1>22 DEF Adopted, Goes, Idle, SessionAttached, WorkerAlone, DownQuiet, Attached,
      TypeOK, SettingsTypes, WorkerTypes, Content, Loaded, Threads, Idle,
      Json, Torn, NoWork, Absent
  <1>23. ASSUME RemoveDirectory PROVE SessionAttached'
    BY <1>23 DEF RemoveDirectory, Goes, SessionAttached, WorkerAlone, DownQuiet, Attached,
      TypeOK, SettingsTypes, WorkerTypes, Content, Loaded, Threads, Idle,
      Json, Torn, NoWork, Absent
  <1>24. ASSUME RemoveFails PROVE SessionAttached'
    BY <1>24 DEF RemoveFails, Goes, SessionAttached, WorkerAlone, DownQuiet, Attached,
      TypeOK, SettingsTypes, WorkerTypes, Content, Loaded, Threads, Idle,
      Json, Torn, NoWork, Absent
  <1>25. ASSUME MakeRoot PROVE SessionAttached'
    BY <1>25 DEF MakeRoot, Goes, SessionAttached, WorkerAlone, DownQuiet, Attached,
      TypeOK, SettingsTypes, WorkerTypes, Content, Loaded, Threads, Idle,
      Json, Torn, NoWork, Absent
  <1>26. ASSUME UNCHANGED <<library, at, file, save, drive, worker>> PROVE SessionAttached'
    BY <1>26 DEF SessionAttached, WorkerAlone, DownQuiet, Attached, TypeOK, SettingsTypes,
      WorkerTypes, Content, Loaded, Threads, Idle, Json, Torn, NoWork, Absent
  <1> QED
    BY <1>1, <1>2, <1>3, <1>4, <1>5, <1>6, <1>7, <1>8, <1>9, <1>10, <1>11,
      <1>12, <1>13, <1>14, <1>15, <1>16, <1>17, <1>18, <1>19, <1>20, <1>21,
      <1>22, <1>23, <1>24, <1>25, <1>26 DEF Next, Loading, HomeStep, Transition,
        BeginTransition, SaveStep, vars,
      Check, Moves, MakeDirectories, Build, Superseded, Rebuild, RemovePiece,
      Goes

------------------------------------------------------------------------------
(* What is on the disks                                                    *)

LEMMA FullFacts ==
  ASSUME NEW l \in Libraries
  PROVE  /\ Full(l).there = TRUE /\ Full(l).db = l /\ Full(l).files = l
         /\ l # None /\ l # New /\ Full(l) # Absent
         /\ [Full(l) EXCEPT !.there = TRUE] = Full(l)
         /\ [Full(l) EXCEPT !.there = TRUE, !.db = l] = Full(l)
  <1>1. Full(l) \in [there : {TRUE}, db : {l}, files : {l}]
    BY DEF Full
  <1>2. /\ [Full(l) EXCEPT !.there = TRUE] \in [there : {TRUE}, db : {l}, files : {l}]
        /\ [Full(l) EXCEPT !.there = TRUE, !.db = l] \in [there : {TRUE}, db : {l},
          files : {l}]
    BY <1>1
  <1>3. ASSUME NEW d \in [there : {TRUE}, db : {l}, files : {l}]
        PROVE  d = [there |-> TRUE, db |-> l, files |-> l]
    OBVIOUS
  <1>4. l # None /\ l # New
    BY HomeAssumption
  <1>5. Full(l).there = TRUE /\ Full(l).db = l /\ Full(l).files = l
    BY DEF Full
  <1>6. Full(l) # Absent
    BY <1>5 DEF Absent
  <1> QED
    BY <1>1, <1>2, <1>3, <1>4, <1>5, <1>6

\* Making the directories, or the database, changes nothing in a whole library.
LEMMA FullUntouched ==
  ASSUME DiskTypes, NEW l \in Libraries, NEW r \in Roots, NEW s \in Roots,
         disk[s] = Full(l)
  PROVE  WithDirectories(r)[s] = Full(l) /\ WithDatabase(r)[s] = Full(l)
  <1>1. CASE r # s
    BY <1>1 DEF WithDirectories, WithDatabase, DiskTypes
  <1>2. CASE r = s
    <2>1. WithDirectories(r)[s] = [Full(l) EXCEPT !.there = TRUE]
      BY <1>2 DEF WithDirectories, DiskTypes
    <2>2. Full(l).db = l /\ l # None
      BY FullFacts
    <2>3. WithDatabase(r)[s] = [Full(l) EXCEPT !.there = TRUE, !.db = l]
      BY <1>2, <2>2 DEF WithDatabase, DiskTypes
    <2> QED
      BY <2>1, <2>3, FullFacts
  <1> QED
    BY <1>1, <1>2

\* What rmtree has begun to take apart is no longer whole.
LEMMA PieceGone ==
  ASSUME TypeOK, RemovePiece, NEW l \in Libraries
  PROVE  disk'[worker.from] # Full(l)
  <1>1. PICK d \in {[disk[worker.from] EXCEPT !.db = None],
                   [disk[worker.from] EXCEPT !.files = None]} :
          disk' = [disk EXCEPT ![worker.from] = d]
    BY DEF RemovePiece
  <1>2. disk'[worker.from] = d
    BY <1>1 DEF TypeOK, DiskTypes, WorkerTypes
  <1>3. disk[worker.from] \in Directory
    BY DEF TypeOK, DiskTypes, WorkerTypes
  <1>4. d.db = None \/ d.files = None
    BY <1>1, <1>3 DEF Directory
  <1> QED
    BY ZenonT(40), <1>2, <1>4, FullFacts

LEMMA CopyKeptStep ==
  TypeOK /\ DownQuiet /\ WorkerAlone /\ DrivesClean /\ LoadsAttached /\
    SessionAttached /\ CopyKept /\ [Next]_vars
    => CopyKept'
  <1> SUFFICES ASSUME TypeOK, DownQuiet, WorkerAlone, DrivesClean, LoadsAttached,
    SessionAttached, CopyKept, [Next]_vars PROVE CopyKept'
    OBVIOUS
  <1> USE DEF homeVars, settingsVars, workerVars, diskVars, sessionVars, loadVars, counters
  <1>1. ASSUME NEW l \in loads, MakeDirectories(l) PROVE CopyKept'
    BY <1>1 DEF MakeDirectories, Moves, WithDirectories, WorkerAlone, CopyKept, Attached
  <1>2. ASSUME NEW l \in loads, Build(l) PROVE CopyKept'
    BY <1>2 DEF Build, Moves, WithDatabase, WorkerAlone, CopyKept, Attached
  <1>3. ASSUME loads = {}, BeginReset PROVE CopyKept'
    <2>1. /\ worker' = [NoWork EXCEPT !.kind = "reset", !.from = at, !.to = at,
                        !.phase = IF disk[at].there THEN "remove" ELSE "mkdir"]
          /\ disk' = disk /\ erased' = erased \cup ({disk[at].db} \cap Libraries)
      BY <1>3 DEF BeginReset, Begin
    <2>2. worker'.kind = "reset" /\ worker'.from = at /\ worker'.phase \in {"remove", "mkdir"}
      BY <2>1 DEF NoWork
    <2>3. \A l \in Libraries \ erased' : disk'[at] # Full(l)
      BY <2>1, FullFacts
    <2> QED
      BY <2>2, <2>3 DEF CopyKept
  <1>4. ASSUME loads = {}, NEW r \in Roots, BeginMove(r) PROVE CopyKept'
    BY <1>4 DEF BeginMove, Begin, UIFree, NoWork, CopyKept, Attached
  <1>5. ASSUME loads = {}, NEW r \in Roots, BeginSelect(r) PROVE CopyKept'
    BY <1>5 DEF BeginSelect, Begin, UIFree, NoWork, CopyKept, Attached
  <1>6. ASSUME Copy PROVE CopyKept'
    <2>1. CASE worker' = [worker EXCEPT !.phase = "replace", !.staging = Copied]
      <3>1. worker'.phase = "replace" /\ worker'.staging = Copied /\ worker'.from = worker.from
        BY <2>1 DEF TypeOK, WorkerTypes
      <3>2. \A l \in Libraries : disk[worker.from] = Full(l) => Copied = Full(l)
        BY FullFacts DEF Copied
      <3> QED
        BY <1>6, <3>1, <3>2 DEF Copy, CopyKept
    <2>2. CASE Goes("finish")
      BY <1>6, <2>2 DEF Copy, Goes, CopyKept, TypeOK, WorkerTypes
    <2> QED
      BY <1>6, <2>1, <2>2 DEF Copy
  <1>7. ASSUME Replace PROVE CopyKept'
    <2>1. CASE Goes("adopt") /\ disk' = [disk EXCEPT ![worker.to] = worker.staging]
      <3>1. /\ worker'.phase = "adopt" /\ worker'.kind = "move"
            /\ worker'.from = worker.from /\ worker'.to = worker.to
        BY <1>7, <2>1 DEF Replace, AtWork, Goes, TypeOK, WorkerTypes
      <3>2. worker.from # worker.to /\ worker.from \in Roots /\ worker.to \in Roots
        BY <1>7 DEF Replace, AtWork, WorkerAlone, TypeOK, WorkerTypes
      <3>3. disk'[worker.from] = disk[worker.from] /\ disk'[worker.to] = worker.staging
        BY <2>1, <3>2 DEF TypeOK, DiskTypes
      <3>4. \A l \in Libraries : disk[worker.from] = Full(l) => worker.staging = Full(l)
        BY <1>7 DEF Replace, AtWork, CopyKept
      <3> QED
        BY <3>1, <3>3, <3>4 DEF CopyKept
    <2>2. CASE Goes("finish")
      BY <1>7, <2>2 DEF Goes, CopyKept, TypeOK, WorkerTypes
    <2> QED
      BY <1>7, <2>1, <2>2 DEF Replace
  <1>8. ASSUME Adopt PROVE CopyKept'
    BY <1>8 DEF Adopt, Goes, CopyKept, Attached
  <1>9. ASSUME AdoptRaises PROVE CopyKept'
    BY <1>9 DEF AdoptRaises, Goes, CopyKept, Attached
  <1>10. ASSUME Adopted PROVE CopyKept'
    BY <1>10 DEF Adopted, Goes, Idle, CopyKept, Attached
  <1>11. ASSUME RemovePiece PROVE CopyKept'
    <2>1. worker' = worker /\ erased' = erased /\ worker.phase = "remove"
      BY <1>11 DEF RemovePiece
    <2>2. worker.from \in Roots /\ worker.to \in Roots
      BY DEF TypeOK, WorkerTypes
    <2>3. \A l \in Libraries : disk'[worker.from] # Full(l)
      BY <1>11, PieceGone
    <2>4. worker.kind = "move" => disk'[worker.to] = disk[worker.to]
      BY <1>11, <2>2 DEF RemovePiece, WorkerAlone, TypeOK, DiskTypes
    <2> QED
      BY <2>1, <2>3, <2>4 DEF CopyKept
  <1>12. ASSUME RemoveDirectory PROVE CopyKept'
    BY <1>12 DEF RemoveDirectory, Goes, CopyKept, Attached
  <1>13. ASSUME RemoveFails PROVE CopyKept'
    BY <1>13 DEF RemoveFails, Goes, CopyKept, Attached
  <1>14. ASSUME MakeRoot PROVE CopyKept'
    BY <1>14 DEF MakeRoot, Goes, WorkerAlone, CopyKept, Attached
  <1>15. ASSUME Finish PROVE CopyKept'
    BY <1>15 DEF Finish, WithDatabase, WithDirectories, NoWork, CopyKept, Attached
  <1>16. ASSUME Stop PROVE CopyKept'
    BY <1>16 DEF Stop, NoWork, CopyKept, Attached
  <1>17. ASSUME NEW r \in Roots, Unplug(r) PROVE CopyKept'
    BY <1>17 DEF Unplug, WorkerAlone, DownQuiet, CopyKept, Attached
  <1>18. ASSUME NEW r \in Roots, Plug(r) PROVE CopyKept'
    BY <1>18 DEF Plug, WorkerAlone, CopyKept, Attached
  <1>19. ASSUME UNCHANGED <<worker, disk, erased>> PROVE CopyKept'
    BY <1>19 DEF CopyKept, Attached
  <1> QED
    BY <1>1, <1>2, <1>3, <1>4, <1>5, <1>6, <1>7, <1>8, <1>9, <1>10, <1>11,
      <1>12, <1>13, <1>14, <1>15, <1>16, <1>17, <1>18, <1>19 DEF Next, Loading,
        HomeStep, Transition, BeginTransition, SaveStep, vars,
      Launch, ShowLibrary, StartLoad, Opened, Check, Moves, Superseded, Fail,
      Rebuild, Complete, SavePreference, OpenFile, WriteFile, Request, Skip,
      Goes

\* A step that touches one root keeps every library if it keeps the one there.
LEMMA OneRoot ==
  ASSUME TypeOK, LibrarySurvives, NEW r \in Roots, erased' = erased,
         \A s \in Roots \ {r} : disk'[s] = disk[s] /\ drive'[s] = drive[s],
         \A l \in Libraries \ erased :
           At(r) = Full(l) => \E s \in Roots : At(s)' = Full(l)
  PROVE  LibrarySurvives'
  <1> SUFFICES ASSUME NEW l \in Libraries \ erased
               PROVE  \E s \in Roots : At(s)' = Full(l)
    BY DEF LibrarySurvives
  <1>1. PICK s \in Roots : At(s) = Full(l)
    BY DEF LibrarySurvives
  <1>2. CASE s = r
    BY <1>1, <1>2
  <1>3. CASE s # r
    BY <1>1, <1>3 DEF At
  <1> QED
    BY <1>2, <1>3

\* A directory or a database that is made takes no library away.
LEMMA MadeKeeps ==
  ASSUME TypeOK, LibrarySurvives, NEW r \in Roots, UNCHANGED <<drive, erased>>,
         disk' = WithDirectories(r) \/ disk' = WithDatabase(r)
  PROVE  LibrarySurvives'
  <1>1. \A s \in Roots \ {r} : disk'[s] = disk[s] /\ drive'[s] = drive[s]
    BY DEF WithDirectories, WithDatabase, TypeOK, DiskTypes
  <1>2. ASSUME NEW l \in Libraries \ erased, At(r) = Full(l) PROVE At(r)' = Full(l)
    <2>1. CASE drive[r].there
      BY <1>2, <2>1 DEF At
    <2>2. CASE ~drive[r].there
      BY <1>2, <2>2, FullUntouched DEF At, TypeOK
    <2> QED
      BY <2>1, <2>2
  <1> QED
    BY <1>1, <1>2, OneRoot

LEMMA SurvivesStep ==
  TypeOK /\ WorkerAlone /\ DrivesClean /\ CopyKept /\ LibrarySurvives /\ [Next]_vars
    => LibrarySurvives'
  <1> SUFFICES ASSUME TypeOK, WorkerAlone, DrivesClean, CopyKept, LibrarySurvives, [Next]_vars
               PROVE  LibrarySurvives'
    OBVIOUS
  <1> USE DEF homeVars, settingsVars, workerVars, diskVars, sessionVars, loadVars, counters
  <1>1. ASSUME NEW l \in loads, MakeDirectories(l) PROVE LibrarySurvives'
    <2>1. l.root \in Roots
      BY DEF TypeOK, LoadTypes, Load
    <2>2. CASE disk' = WithDirectories(l.root)
      BY <1>1, <2>1, <2>2, MadeKeeps DEF MakeDirectories
    <2>3. CASE UNCHANGED disk
      BY <1>1, <2>3 DEF MakeDirectories, LibrarySurvives, At
    <2> QED
      BY <1>1, <2>2, <2>3 DEF MakeDirectories
  <1>2. ASSUME NEW l \in loads, Build(l) PROVE LibrarySurvives'
    <2>1. l.root \in Roots
      BY DEF TypeOK, LoadTypes, Load
    <2>2. CASE disk' = WithDatabase(l.root)
      BY <1>2, <2>1, <2>2, MadeKeeps DEF Build
    <2>3. CASE UNCHANGED disk
      BY <1>2, <2>3 DEF Build, LibrarySurvives, At
    <2> QED
      BY <1>2, <2>2, <2>3 DEF Build
  <1>3. ASSUME loads = {}, BeginReset PROVE LibrarySurvives'
    BY <1>3 DEF BeginReset, Begin, UIFree, LibrarySurvives, At
  <1>4. ASSUME Replace PROVE LibrarySurvives'
    <2>1. worker.to \in Roots /\ Attached(worker.to) /\ erased' = erased /\ drive' = drive
      BY <1>4 DEF Replace, AtWork, WorkerAlone, TypeOK, WorkerTypes
    <2>2. CASE UNCHANGED disk
      BY <2>1, <2>2 DEF LibrarySurvives, At
    <2>3. CASE ~disk[worker.to].there /\ disk' = [disk EXCEPT ![worker.to] = worker.staging]
      <3>1. \A s \in Roots \ {worker.to} : disk'[s] = disk[s] /\ drive'[s] = drive[s]
        BY <2>1, <2>3 DEF TypeOK, DiskTypes
      <3>2. \A l \in Libraries : At(worker.to) # Full(l)
        BY <2>1, <2>3, FullFacts DEF At, Attached
      <3> QED
        BY <2>1, <3>1, <3>2, OneRoot
    <2> QED
      BY <1>4, <2>2, <2>3 DEF Replace
  <1>5. ASSUME RemovePiece PROVE LibrarySurvives'
    <2>1. /\ worker.from \in Roots /\ worker.to \in Roots /\ worker.phase = "remove"
          /\ Attached(worker.from) /\ erased' = erased /\ drive' = drive
      BY <1>5 DEF RemovePiece, WorkerAlone, TypeOK, WorkerTypes
    <2>2. \A s \in Roots \ {worker.from} : disk'[s] = disk[s] /\ drive'[s] = drive[s]
      BY <1>5, <2>1 DEF RemovePiece, TypeOK, DiskTypes
    <2>3. ASSUME NEW l \in Libraries \ erased, At(worker.from) = Full(l)
          PROVE  \E s \in Roots : At(s)' = Full(l)
      <3>1. disk[worker.from] = Full(l)
        BY <2>1, <2>3 DEF At, Attached
      <3>2. worker.kind = "move" /\ disk[worker.to] = Full(l)
        BY <2>1, <3>1 DEF WorkerAlone, CopyKept
      <3>3. worker.to # worker.from /\ Attached(worker.to)
        BY <2>1, <3>2 DEF WorkerAlone
      <3> QED
        BY <2>1, <2>2, <3>2, <3>3 DEF At, Attached, TypeOK, DiskTypes
    <2> QED
      BY <2>1, <2>2, <2>3, OneRoot
  <1>6. ASSUME RemoveDirectory PROVE LibrarySurvives'
    <2>1. /\ worker.from \in Roots /\ worker.phase = "remove"
          /\ Attached(worker.from) /\ erased' = erased /\ drive' = drive
      BY <1>6 DEF RemoveDirectory, WorkerAlone, TypeOK, WorkerTypes
    <2>2. \A s \in Roots \ {worker.from} : disk'[s] = disk[s] /\ drive'[s] = drive[s]
      BY <1>6, <2>1 DEF RemoveDirectory, TypeOK, DiskTypes
    <2>3. At(worker.from).db = None
      BY <1>6, <2>1 DEF RemoveDirectory, At, Attached
    <2>4. \A l \in Libraries : At(worker.from) # Full(l)
      BY <2>3, FullFacts
    <2> QED
      BY <2>1, <2>2, <2>4, OneRoot
  <1>7. ASSUME MakeRoot PROVE LibrarySurvives'
    <2>1. worker.from \in Roots
      BY DEF TypeOK, WorkerTypes
    <2> QED
      BY <1>7, <2>1, MadeKeeps DEF MakeRoot, WithDirectories
  <1>8. ASSUME Finish PROVE LibrarySurvives'
    <2>1. file.data.location \in Roots
      BY DEF TypeOK, SettingsTypes, Content
    <2>2. CASE UNCHANGED disk
      BY <1>8, <2>2 DEF Finish, LibrarySurvives, At
    <2>3. CASE disk' = WithDatabase(file.data.location)
      BY <1>8, <2>1, <2>3, MadeKeeps DEF Finish
    <2>4. CASE disk' = WithDirectories(file.data.location)
      BY <1>8, <2>1, <2>4, MadeKeeps DEF Finish
    <2> QED
      BY <1>8, <2>2, <2>3, <2>4 DEF Finish, WithDatabase
  <1>9. ASSUME NEW r \in Roots, Unplug(r) PROVE LibrarySurvives'
    <2>1. /\ disk' = [disk EXCEPT ![r] = Absent] /\ drive' = [drive EXCEPT ![r] = disk[r]]
          /\ disk[r].there /\ erased' = erased
      BY <1>9 DEF Unplug
    <2>2. ~drive[r].there
      BY <2>1 DEF DrivesClean, Absent
    <2>3. \A s \in Roots \ {r} : disk'[s] = disk[s] /\ drive'[s] = drive[s]
      BY <2>1 DEF TypeOK, DiskTypes
    <2>4. At(r)' = At(r)
      BY <2>1, <2>2 DEF At, TypeOK, DiskTypes
    <2> QED
      BY <2>1, <2>3, <2>4, OneRoot
  <1>10. ASSUME NEW r \in Roots, Plug(r) PROVE LibrarySurvives'
    <2>1. /\ disk' = [disk EXCEPT ![r] = drive[r]] /\ drive' = [drive EXCEPT ![r] = Absent]
          /\ drive[r].there /\ erased' = erased
      BY <1>10 DEF Plug
    <2>2. \A s \in Roots \ {r} : disk'[s] = disk[s] /\ drive'[s] = drive[s]
      BY <2>1 DEF TypeOK, DiskTypes
    <2>3. At(r)' = At(r)
      BY <2>1 DEF At, TypeOK, DiskTypes, Absent
    <2> QED
      BY <2>1, <2>2, <2>3, OneRoot
  <1>11. ASSUME UNCHANGED <<disk, drive, erased>> PROVE LibrarySurvives'
    BY <1>11 DEF LibrarySurvives, At
  <1> QED
    BY <1>1, <1>2, <1>3, <1>4, <1>5, <1>6, <1>7, <1>8, <1>9, <1>10, <1>11 DEF Next,
      Loading, HomeStep, Transition, BeginTransition, SaveStep, vars,
      Launch, ShowLibrary, StartLoad, Opened, Check, Moves, Superseded, Fail,
      Rebuild, Complete, BeginMove, Begin, BeginSelect, Copy, Goes, Adopt,
      AdoptRaises, Adopted, RemoveFails, SavePreference, OpenFile, WriteFile,
      Request, Skip, Stop, Goes

LEMMA InvInit == Init => Inv
  <1> SUFFICES ASSUME Init PROVE Inv
    OBVIOUS
  <1>1. PICK place \in [Libraries -> Roots] :
          /\ \A l, m \in Libraries : place[l] = place[m] => l = m
          /\ disk = [r \in Roots |->
                      IF \E l \in Libraries : place[l] = r
                      THEN Full(CHOOSE l \in Libraries : place[l] = r) ELSE Absent]
          /\ file \in {[form |-> "missing", data |-> Defaults]} \cup
                      {Json([location |-> place[l], good |-> place[l], pref |-> 0])
                        : l \in Libraries}
    BY DEF Init
  <1>2. \A l \in Libraries : Full(l) \in Directory
    BY DEF Full, Directory
  <1>3. Absent \in Directory /\ ~Absent.there
    BY DEF Absent, Directory
  <1>4. \A r \in Roots : disk[r] \in Directory
    BY <1>1, <1>2, <1>3
  <1>5. DiskTypes
    BY <1>1, <1>3, <1>4, HomeAssumption DEF Init, DiskTypes
  <1>6. Defaults \in Content
    BY HomeAssumption DEF Defaults, Content
  <1>7. file \in [form: {"missing", "torn", "json"}, data: Content]
    <2>1. CASE file = [form |-> "missing", data |-> Defaults]
      BY <2>1, <1>6
    <2>2. CASE \E l \in Libraries :
                 file = Json([location |-> place[l], good |-> place[l], pref |-> 0])
      BY <2>2, <1>1, HomeAssumption DEF Json, Content
    <2> QED
      BY <1>1, <2>1, <2>2
  <1>8. Idle \in [step: {"idle", "loaded", "opened"}, next: Content] /\ Idle.step = "idle"
    BY <1>6 DEF Idle
  <1>9. SettingsTypes
    <2>1. save = [t \in Threads |-> Idle] /\ prefs = 0 /\ collided = FALSE
      BY DEF Init
    <2>2. 0 \in 0 .. MaxPrefs
      BY HomeAssumption
    <2> QED
      BY <2>1, <2>2, <1>7, <1>8 DEF SettingsTypes
  <1>10. /\ NoWork \in [kind: {"none", "move", "select", "reset"},
                 phase: {"idle", "copy", "replace", "adopt", "adopting", "remove",
                         "mkdir", "finish"},
                 from: Roots, to: Roots, staging: Directory]
         /\ NoWork.phase = "idle" /\ NoWork.kind = "none"
    BY <1>3, HomeAssumption DEF NoWork
  <1>11. WorkerTypes
    BY <1>10, HomeAssumption DEF Init, WorkerTypes
  <1>12. LoadTypes
    BY DEF Init, LoadTypes
  <1>13. DownQuiet
    BY <1>8, <1>10 DEF Init, DownQuiet
  <1>14. WorkerAlone
    BY <1>8, <1>10 DEF Init, WorkerAlone, Threads
  <1>15. DrivesClean /\ LoadsAttached
    BY <1>3, HomeAssumption DEF Init, DrivesClean, LoadsAttached, Attached
  <1>16. SessionAttached
    BY DEF Init, SessionAttached
  <1>17. CopyKept
    BY <1>10 DEF Init, CopyKept
  <1>18. LibrarySurvives
    <2> SUFFICES ASSUME NEW l \in Libraries PROVE \E r \in Roots : At(r) = Full(l)
      BY DEF LibrarySurvives
    <2>1. place[l] \in Roots /\ (CHOOSE m \in Libraries : place[m] = place[l]) = l
      BY <1>1
    <2>2. disk[place[l]] = Full(l)
      BY <1>1, <2>1
    <2>3. At(place[l]) = Full(l)
      BY <1>3, <2>1, <2>2 DEF Init, At
    <2> QED
      BY <2>1, <2>3
  <1> QED
    BY <1>5, <1>9, <1>11, <1>12, <1>13, <1>14, <1>15, <1>16, <1>17, <1>18 DEF Inv, TypeOK

LEMMA InvStep == Inv /\ [Next]_vars => Inv'
  BY TypeStep, DownQuietStep, WorkerAloneStep, DrivesCleanStep, LoadsAttachedStep,
     SessionAttachedStep, CopyKeptStep, SurvivesStep DEF Inv

\* Inv at every moment: the theorems below are its parts.
THEOREM Invariance == Spec => []Inv
  <1>1. Init => Inv
    BY InvInit
  <1>2. Inv /\ [Next]_vars => Inv'
    BY InvStep
  <1> QED
    BY <1>1, <1>2, PTL DEF Spec

\* The settings, the directories and the tasks have their types at every moment
\* of StorageMigrationService, SettingsStore and the library load.
THEOREM HomeTypes == Spec => []TypeOK
  <1>1. Inv => TypeOK
    BY DEF Inv
  <1> QED
    BY <1>1, Invariance, PTL

\* No library the user did not reset is ever without a whole copy: move_to_parent
\* removes the old root only after the copy is in place and the settings name it,
\* and a crash, a failed step or a detached drive in between loses nothing.
THEOREM NoLibraryLost == Spec => []LibrarySurvives
  <1>1. Inv => LibrarySurvives
    BY DEF Inv
  <1> QED
    BY <1>1, Invariance, PTL

------------------------------------------------------------------------------
(* What the settings file names: roots that hold a library or are to be    *)
(* given one, unless two updates of the file have overlapped; and, while a *)
(* library is open and nothing is moving it, that library, which is the    *)
(* one that was asked for last.  No step makes an empty library but where  *)
(* one is allowed.                                                         *)

\* A root that may be named.
Usable(r) == HasDatabase(At(r)) \/ r \in vacant

\* The file, and what is about to be written to it, may be read at any crash.
Named ==
  /\ file.form = "json" => PointsToLibrary(file.data)
  /\ \A t \in Threads : save[t].step # "idle" => PointsToLibrary(save[t].next)

\* A first launch names the default.
FirstLaunch ==
  file.form = "missing" => library \in {"down", "booting"} /\ Usable(Default)

\* A root that is about to be named holds a library, and a reset leaves the
\* root it empties to be made.
Prepared ==
  /\ worker.phase = "replace" => HasDatabase(worker.staging)
  /\ worker.phase = "adopt" => HasDatabase(disk[worker.to])
  /\ worker.kind = "reset" /\ worker.phase = "remove" => worker.from \in vacant
LoadsPrepared == \A l \in loads : l.phase = "built" => HasDatabase(disk[l.root])

\* Before a move removes the old root nothing names it any more, nor will.
NamesTarget(c) == c.location = worker.to /\ c.good = worker.to
TargetWritten ==
  worker.kind = "move" /\ (worker.phase = "remove" \/ (worker.phase = "adopting" /\ save["worker"].step = "idle"))
Repointed ==
  /\ worker.phase = "adopting" /\ save["worker"].step # "idle" =>
       NamesTarget(save["worker"].next) /\ save["ui"].step = "idle"
  /\ TargetWritten => /\ file.form = "json" => NamesTarget(file.data)
                      /\ save["ui"].step # "idle" => NamesTarget(save["ui"].next)

Apart == Named /\ FirstLaunch /\ Prepared /\ LoadsPrepared /\ Repointed
PointerInv == Inv /\ (~collided => Apart)

------------------------------------------------------------------------------
(* Roots                                                                   *)

\* The roots whose library a step may take away.
Doomed(r) == worker.kind = "move" /\ worker.phase = "remove" /\ r = worker.from

LEMMA SameUsable ==
  ASSUME UNCHANGED <<disk, drive>>, vacant \subseteq vacant', NEW r, Usable(r)
  PROVE  Usable(r)'
BY DEF Usable, At

LEMMA GrownUsable ==
  ASSUME TypeOK, NEW q \in Roots, UNCHANGED drive, vacant' = vacant,
         disk' = WithDirectories(q), NEW r \in Roots, Usable(r)
  PROVE  Usable(r)'
<1>1. disk'[r] = disk[r] \/ disk'[r] = [disk[r] EXCEPT !.there = TRUE]
  BY DEF WithDirectories, TypeOK, DiskTypes
<1>2. disk[r] \in Directory
  BY DEF TypeOK, DiskTypes
<1>3. HasDatabase(disk[r]) => HasDatabase(disk'[r])
  BY <1>1, <1>2 DEF HasDatabase, Directory
<1> QED
  BY <1>3 DEF Usable, At

LEMMA FilledUsable ==
  ASSUME TypeOK, NEW q \in Roots, Attached(q), UNCHANGED drive,
         vacant' = vacant \ {q}, disk' = WithDatabase(q), NEW r \in Roots, Usable(r)
  PROVE  Usable(r)'
<1>1. CASE r = q
  <2>1. disk[q] \in Directory
    BY DEF TypeOK, DiskTypes
  <2>2. disk'[q] = [disk[q] EXCEPT !.there = TRUE, !.db = IF disk[q].db = None THEN New ELSE @]
    BY DEF WithDatabase, TypeOK, DiskTypes
  <2>3. HasDatabase(disk'[q])
    BY <2>1, <2>2, HomeAssumption DEF HasDatabase, Directory
  <2> QED
    BY <1>1, <2>3 DEF Usable, At, Attached
<1>2. CASE r # q
  <2>1. disk'[r] = disk[r]
    BY <1>2 DEF WithDatabase, TypeOK, DiskTypes
  <2> QED
    BY <1>2, <2>1 DEF Usable, At
<1> QED
  BY <1>1, <1>2

\* A step leaves every root usable that was, but for the one a move removes.
LEMMA UsableKeeps ==
  ASSUME Inv, Prepared, [Next]_vars, NEW r \in Roots, Usable(r), ~Doomed(r)
  PROVE  Usable(r)'
<1> USE DEF homeVars, settingsVars, workerVars, diskVars, sessionVars, loadVars, counters
<1>0. TypeOK /\ WorkerAlone /\ DrivesClean /\ LoadsAttached /\ SessionAttached
  BY DEF Inv
<1>1. ASSUME NEW l \in loads, MakeDirectories(l) PROVE Usable(r)'
  <2>1. l.root \in Roots
    BY <1>0 DEF TypeOK, LoadTypes, Load
  <2>2. UNCHANGED <<drive, vacant>> /\ (disk' = WithDirectories(l.root) \/ UNCHANGED disk)
    BY <1>1 DEF MakeDirectories
  <2> QED
    BY <1>0, <2>1, <2>2, GrownUsable, SameUsable
<1>2. ASSUME NEW l \in loads, Build(l) PROVE Usable(r)'
  <2>1. l.root \in Roots /\ Attached(l.root)
    BY <1>0, <1>2 DEF TypeOK, LoadTypes, Load, LoadsAttached, Build
  <2>2. CASE disk' = WithDatabase(l.root) /\ vacant' = vacant \ {l.root}
    BY <1>0, <1>2, <2>1, <2>2, FilledUsable DEF Build
  <2>3. CASE UNCHANGED <<disk, vacant>>
    BY <1>2, <2>3, SameUsable DEF Build
  <2> QED
    BY <1>2, <2>2, <2>3 DEF Build
<1>3. ASSUME loads = {}, BeginReset PROVE Usable(r)'
  BY <1>3, SameUsable DEF BeginReset, Begin
<1>4. ASSUME Replace PROVE Usable(r)'
  <2>1. worker.to \in Roots /\ Attached(worker.to) /\ drive' = drive /\ HasDatabase(worker.staging)
    BY <1>0, <1>4 DEF Replace, AtWork, WorkerAlone, TypeOK, WorkerTypes, Prepared
  <2>2. CASE UNCHANGED <<disk, vacant>>
    BY <2>1, <2>2, SameUsable
  <2>3. CASE disk' = [disk EXCEPT ![worker.to] = worker.staging] /\ vacant' = vacant \ {worker.to}
    <3>1. CASE r = worker.to
      BY <1>0, <2>1, <2>3, <3>1 DEF Usable, At, Attached, TypeOK, DiskTypes
    <3>2. CASE r # worker.to
      BY <1>0, <2>1, <2>3, <3>2 DEF Usable, At, TypeOK, DiskTypes
    <3> QED
      BY <3>1, <3>2
  <2> QED
    BY <1>4, <2>2, <2>3 DEF Replace
<1>5. ASSUME RemovePiece \/ RemoveDirectory PROVE Usable(r)'
  <2>1. worker.phase = "remove" /\ UNCHANGED <<drive, vacant>> /\ worker.kind \in {"move", "reset"}
    BY <1>0, <1>5 DEF RemovePiece, RemoveDirectory, WorkerAlone
  <2>2. \A s \in Roots \ {worker.from} : disk'[s] = disk[s]
    BY <1>0, <1>5 DEF RemovePiece, RemoveDirectory, TypeOK, DiskTypes
  <2>3. CASE r = worker.from
    BY <2>1, <2>3 DEF Doomed, Prepared, Usable
  <2>4. CASE r # worker.from
    BY <2>1, <2>2, <2>4 DEF Usable, At
  <2> QED
    BY <2>3, <2>4
<1>6. ASSUME MakeRoot PROVE Usable(r)'
  <2>1. worker.from \in Roots
    BY <1>0 DEF TypeOK, WorkerTypes
  <2> QED
    BY <1>0, <1>6, <2>1, GrownUsable DEF MakeRoot, WithDirectories
<1>7. ASSUME Finish PROVE Usable(r)'
  <2>1. file.data.location \in Roots /\ library \in {"ready", "broken"}
    BY <1>0, <1>7 DEF TypeOK, SettingsTypes, Content, Finish, WorkerAlone
  <2>2. drive' = drive
    BY <1>7 DEF Finish
  <2>3. CASE UNCHANGED <<disk, vacant>>
    BY <2>2, <2>3, SameUsable
  <2>4. CASE /\ file.form = "json" /\ disk' = WithDatabase(file.data.location)
             /\ vacant' = vacant \ {file.data.location}
    BY <1>0, <2>1, <2>2, <2>4, FilledUsable DEF SessionAttached
  <2>5. CASE disk' = WithDirectories(file.data.location) /\ vacant' = vacant
    BY <1>0, <2>1, <2>2, <2>5, GrownUsable
  <2> QED
    BY <1>7, <2>3, <2>4, <2>5 DEF Finish, WithDatabase
<1>8. ASSUME NEW q \in Roots, Unplug(q) PROVE Usable(r)'
  <2>1. /\ disk' = [disk EXCEPT ![q] = Absent] /\ drive' = [drive EXCEPT ![q] = disk[q]]
        /\ disk[q].there /\ vacant' = vacant
    BY <1>8 DEF Unplug
  <2>2. ~drive[q].there
    BY <1>0, <2>1 DEF DrivesClean, Absent
  <2>3. At(r)' = At(r)
    BY <1>0, <2>1, <2>2 DEF At, TypeOK, DiskTypes
  <2> QED
    BY <2>1, <2>3 DEF Usable
<1>9. ASSUME NEW q \in Roots, Plug(q) PROVE Usable(r)'
  <2>1. /\ disk' = [disk EXCEPT ![q] = drive[q]] /\ drive' = [drive EXCEPT ![q] = Absent]
        /\ drive[q].there /\ vacant' = vacant
    BY <1>9 DEF Plug
  <2>2. At(r)' = At(r)
    BY <1>0, <2>1 DEF At, TypeOK, DiskTypes, Absent
  <2> QED
    BY <2>1, <2>2 DEF Usable
<1>10. ASSUME UNCHANGED <<disk, drive, vacant>> PROVE Usable(r)'
  BY <1>10, SameUsable
<1> QED
  BY <1>1, <1>2, <1>3, <1>4, <1>5, <1>6, <1>7, <1>8, <1>9, <1>10 DEF Next,
    Loading, HomeStep, Transition, BeginTransition, SaveStep, vars,
    Launch, ShowLibrary, StartLoad, Opened, Check, Moves, Superseded, Fail,
    Rebuild, Complete, BeginMove, Begin, BeginSelect, Copy, Goes, Adopt,
    AdoptRaises, Adopted, RemoveFails, SavePreference, OpenFile, WriteFile,
    Request, Skip, Stop, Goes

------------------------------------------------------------------------------
(* Settings                                                                *)

\* Overlapping updates are remembered.
LEMMA CollidedStays ==
  ASSUME [Next]_vars, ~collided'
  PROVE  ~collided
<1> USE DEF homeVars, settingsVars, workerVars, diskVars, sessionVars, loadVars, counters
<1>1. ASSUME NEW t, NEW c, Loaded(t, c) PROVE ~collided
  BY <1>1 DEF Loaded
<1>2. Launch \/ SavePreference \/ Adopt => ~collided
  BY <1>1 DEF Launch, SavePreference, Adopt
<1>3. ASSUME NEW l \in loads, Complete(l) PROVE ~collided
  BY <1>1, <1>3 DEF Complete
<1>4. collided' = collided => ~collided
  OBVIOUS
<1> QED
  BY <1>2, <1>3, <1>4 DEF Next,
    Loading, HomeStep, Transition, BeginTransition, SaveStep, vars,
    ShowLibrary, StartLoad, Opened, Check, Moves, MakeDirectories, Build, Superseded, Fail,
    Rebuild, BeginReset, BeginMove, Begin, BeginSelect, Copy, Replace, Goes,
    AdoptRaises, Adopted, RemovePiece, RemoveDirectory, RemoveFails, MakeRoot, Finish,
    OpenFile, WriteFile, Request, Skip, Stop, Unplug, Plug

\* What the file says or is about to say.
Upcoming(c) == \/ file.form = "json" /\ c = file.data
               \/ \E t \in Threads : save[t].step # "idle" /\ c = save[t].next
RootsOf(c) == {c.location, c.good} \ {None}

LEMMA UpcomingTyped ==
  ASSUME TypeOK, NEW c, Upcoming(c)
  PROVE  c \in Content /\ RootsOf(c) \subseteq Roots
BY DEF Upcoming, RootsOf, TypeOK, SettingsTypes, Content

LEMMA NamedIsUpcoming == Named <=> \A c : Upcoming(c) => \A r \in RootsOf(c) : Usable(r)
BY DEF Named, Upcoming, RootsOf, PointsToLibrary, Usable

\* No removal dooms what is named.
LEMMA UpcomingKeeps ==
  ASSUME Inv, Apart, [Next]_vars, NEW c, Upcoming(c), NEW r \in RootsOf(c)
  PROVE  Usable(r)'
<1>1. r \in Roots /\ Usable(r)
  BY UpcomingTyped, NamedIsUpcoming DEF Inv, Apart
<1>2. ASSUME worker.kind = "move", worker.phase = "remove", r = worker.from
      PROVE  FALSE
  <2>1. save["worker"].step = "idle" /\ worker.from # worker.to
    BY <1>2 DEF Inv, WorkerAlone
  <2>2. NamesTarget(c)
    BY <1>2, <2>1 DEF Apart, Repointed, TargetWritten, Threads, Upcoming
  <2> QED
    BY <1>2, <2>1, <2>2 DEF NamesTarget, RootsOf
<1>3. ~Doomed(r)
  BY <1>2 DEF Doomed
<1> QED
  BY <1>1, <1>3, UsableKeeps DEF Apart

\* At most one thing more is about to be said, and it names usable roots.
LEMMA NamedFrom ==
  ASSUME Inv, Apart, [Next]_vars, NEW c,
         \A d : Upcoming(d)' => Upcoming(d) \/ d = c,
         \A r \in RootsOf(c) : Usable(r)'
  PROVE  Named'
<1>1. \A d : Upcoming(d)' => \A r \in RootsOf(d) : Usable(r)'
  BY UpcomingKeeps
<1> QED
  BY <1>1 DEF Named, Upcoming, RootsOf, PointsToLibrary, Usable

LEMMA LoadedUpcoming ==
  ASSUME TypeOK, NEW t \in Threads, NEW c, Loaded(t, c), NEW d, Upcoming(d)'
  PROVE  Upcoming(d) \/ d = c
<1>1. file' = file /\ save'[t].next = c /\ \A u \in Threads \ {t} : save'[u] = save[u]
  BY DEF Loaded, TypeOK, SettingsTypes
<1> QED
  BY <1>1 DEF Upcoming

LEMMA NamedStep ==
  ASSUME Inv, Apart, [Next]_vars
  PROVE  Named'
<1> USE DEF homeVars, settingsVars, workerVars, diskVars, sessionVars, loadVars, counters
<1>0. TypeOK /\ WorkerAlone /\ LoadsAttached
  BY DEF Inv
<1>1. ASSUME \A d : Upcoming(d)' => Upcoming(d) PROVE Named'
  <2>1. \A d : Upcoming(d)' => \A r \in RootsOf(d) : Usable(r)'
    BY <1>1, UpcomingKeeps
  <2> QED
    BY <2>1 DEF Named, Upcoming, RootsOf, PointsToLibrary, Usable
<1>2. ASSUME NEW t \in Threads, NEW c, Loaded(t, c), \A r \in RootsOf(c) : Usable(r)'
      PROVE  Named'
  BY <1>0, <1>2, LoadedUpcoming, NamedFrom
<1>3. CASE Launch
  <2>1. Loaded("ui", Defaults) /\ file.form = "missing" /\ UNCHANGED <<disk, drive, vacant>>
    BY <1>3 DEF Launch
  <2>2. RootsOf(Defaults) = {Default}
    BY HomeAssumption DEF RootsOf, Defaults
  <2>3. Usable(Default)'
    BY <2>1, SameUsable DEF Apart, FirstLaunch
  <2> QED
    BY <1>2, <2>1, <2>2, <2>3 DEF Threads
<1>4. CASE SavePreference
  <2>1. file.form = "json" /\ Loaded("ui", [file.data EXCEPT !.pref = prefs + 1])
    BY <1>4 DEF SavePreference
  <2>2. file.data \in Content
    BY <1>0 DEF TypeOK, SettingsTypes
  <2>3. RootsOf([file.data EXCEPT !.pref = prefs + 1]) = RootsOf(file.data)
    BY <2>2 DEF RootsOf, Content
  <2>4. \A r \in RootsOf(file.data) : Usable(r)'
    BY <2>1, UpcomingKeeps DEF Upcoming
  <2> QED
    BY <1>2, <2>1, <2>3, <2>4 DEF Threads
<1>5. CASE Adopt
  <2>1. /\ worker.phase = "adopt" /\ UNCHANGED <<disk, drive, vacant>>
        /\ Loaded("worker", [file.data EXCEPT !.location = worker.to, !.good = worker.to])
    BY <1>5 DEF Adopt
  <2>2. file.data \in Content
    BY <1>0 DEF TypeOK, SettingsTypes
  <2>3. RootsOf([file.data EXCEPT !.location = worker.to, !.good = worker.to]) \subseteq {worker.to}
    BY <2>2 DEF RootsOf, Content
  <2>4. ASSUME NEW r, r = worker.to PROVE Usable(r)'
    <3>1. HasDatabase(disk[r]) /\ Attached(r)
      BY <1>0, <2>1, <2>4 DEF Apart, Prepared, WorkerAlone
    <3>2. Usable(r)
      BY <3>1 DEF Usable, At, Attached
    <3> QED
      BY <2>1, <3>2, SameUsable
  <2> QED
    BY <1>2, <2>1, <2>3, <2>4 DEF Threads
<1>6. ASSUME NEW l \in loads, Complete(l) PROVE Named'
  <2>1. l.phase = "built" /\ UNCHANGED <<disk, drive, vacant>>
    BY <1>6 DEF Complete
  <2>2. CASE UNCHANGED <<file, save>>
    BY <1>1, <2>2 DEF Upcoming
  <2>3. CASE Loaded("ui", [file.data EXCEPT !.location = l.root, !.good = l.root])
    <3>1. file.data \in Content
      BY <1>0 DEF TypeOK, SettingsTypes
    <3>2. RootsOf([file.data EXCEPT !.location = l.root, !.good = l.root]) \subseteq {l.root}
      BY <3>1 DEF RootsOf, Content
    <3>3. HasDatabase(disk[l.root]) /\ Attached(l.root)
      BY <1>0, <2>1 DEF Apart, LoadsPrepared, LoadsAttached
    <3>4. Usable(l.root)
      BY <3>3 DEF Usable, At, Attached
    <3>5. Usable(l.root)'
      BY <2>1, <3>4, SameUsable
    <3> QED
      BY <1>2, <2>3, <3>2, <3>5 DEF Threads
  <2> QED
    BY <1>6, <2>2, <2>3 DEF Complete
<1>7. ASSUME NEW t \in Threads, OpenFile(t) PROVE Named'
  <2>1. file'.form = "torn" /\ \A u \in Threads : save'[u].next = save[u].next /\
          (save'[u].step # "idle" => save[u].step # "idle")
    BY <1>0, <1>7 DEF OpenFile, Torn, TypeOK, SettingsTypes
  <2> QED
    BY <1>1, <2>1 DEF Upcoming
<1>8. ASSUME NEW t \in Threads, WriteFile(t) PROVE Named'
  <2>1. /\ file' = Json(save[t].next) \/ file'.form = "torn"
        /\ save[t].step # "idle" /\ save'[t] = Idle
        /\ \A u \in Threads \ {t} : save'[u] = save[u]
    BY <1>0, <1>8 DEF WriteFile, Torn, TypeOK, SettingsTypes
  <2> QED
    BY <1>1, <2>1 DEF Upcoming, Json, Idle
<1>9. CASE Stop
  BY <1>1, <1>9 DEF Stop, Upcoming, Idle
<1>10. CASE UNCHANGED <<file, save>>
  BY <1>1, <1>10 DEF Upcoming
<1> QED
  BY <1>3, <1>4, <1>5, <1>6, <1>7, <1>8, <1>9, <1>10 DEF Next,
    Loading, HomeStep, Transition, BeginTransition, SaveStep, vars,
    ShowLibrary, StartLoad, Opened, Check, Moves, MakeDirectories, Build, Superseded, Fail,
    Rebuild, BeginReset, BeginMove, Begin, BeginSelect, Copy, Replace, Goes,
    AdoptRaises, Adopted, RemovePiece, RemoveDirectory, RemoveFails, MakeRoot, Finish,
    Request, Skip, Unplug, Plug

LEMMA FirstLaunchStep ==
  ASSUME Inv, Apart, [Next]_vars
  PROVE  FirstLaunch'
<1> USE DEF homeVars, settingsVars, workerVars, diskVars, sessionVars, loadVars, counters
<1> SUFFICES ASSUME file'.form = "missing"
             PROVE  library' \in {"down", "booting"} /\ Usable(Default)'
  BY DEF FirstLaunch
<1>1. file.form = "missing"
  <2>1. ASSUME NEW t \in Threads, OpenFile(t) \/ WriteFile(t) PROVE file'.form # "missing"
    BY <2>1 DEF OpenFile, WriteFile, Torn, Json
  <2>2. ASSUME NEW t, NEW c, Loaded(t, c) PROVE UNCHANGED file
    BY <2>2 DEF Loaded
  <2>3. SavePreference \/ Adopt \/ Launch => UNCHANGED file
    BY <2>2 DEF SavePreference, Adopt, Launch
  <2>4. ASSUME NEW l \in loads, Complete(l) PROVE UNCHANGED file
    BY <2>2, <2>4 DEF Complete
  <2>5. UNCHANGED file
    BY <2>1, <2>3, <2>4 DEF Next, Loading, HomeStep, Transition, BeginTransition, SaveStep, vars,
      ShowLibrary, StartLoad, Opened, Check, Moves, MakeDirectories, Build, Superseded, Fail,
      Rebuild, BeginReset, BeginMove, Begin, BeginSelect, Copy, Replace, Goes,
      AdoptRaises, Adopted, RemovePiece, RemoveDirectory, RemoveFails, MakeRoot, Finish,
      Request, Skip, Stop, Unplug, Plug
  <2> QED
    BY <2>5
<1>2. library \in {"down", "booting"} /\ Usable(Default) /\ worker.phase = "idle"
  BY <1>1 DEF Apart, FirstLaunch, Inv, DownQuiet, WorkerAlone
<1>3. Usable(Default)'
  BY <1>2, UsableKeeps, HomeAssumption DEF Apart, Doomed
<1>4. library' \in {"down", "booting"}
  BY <1>1, <1>2 DEF Next, Loading, HomeStep, Transition, BeginTransition, SaveStep, vars,
    Launch, ShowLibrary, StartLoad, Opened, Check, Moves, MakeDirectories, Build, Superseded, Fail,
    Rebuild, Complete, Answered, UIFree, BeginReset, BeginMove, Begin, BeginSelect, Copy, AtWork,
    Replace, Goes, Adopt, AdoptRaises, Adopted, RemovePiece, RemoveDirectory, RemoveFails,
    MakeRoot, Finish, SavePreference, OpenFile, WriteFile, Request, Skip, Stop, Unplug, Plug
<1> QED
  BY <1>3, <1>4

\* The phases of the worker and what they have made ready.
LEMMA PreparedStep ==
  ASSUME Inv, Apart, [Next]_vars
  PROVE  Prepared'
<1> USE DEF homeVars, settingsVars, workerVars, diskVars, sessionVars, loadVars, counters
<1>0. TypeOK /\ WorkerAlone /\ DownQuiet /\ Prepared
  BY DEF Inv, Apart
<1>1. CASE BeginReset
  BY <1>0, <1>1 DEF BeginReset, Begin, Prepared, NoWork
<1>2. ASSUME NEW r \in Roots, BeginMove(r) PROVE Prepared'
  BY <1>2 DEF BeginMove, Begin, Prepared, NoWork
<1>3. ASSUME NEW r \in Roots, BeginSelect(r) PROVE Prepared'
  BY <1>3 DEF BeginSelect, Begin, Prepared, NoWork
<1>4. CASE Copy
  BY <1>0, <1>4 DEF Copy, AtWork, Goes, Prepared, TypeOK, WorkerTypes
<1>5. CASE Replace
  BY <1>0, <1>5 DEF Replace, AtWork, Goes, Prepared, TypeOK, WorkerTypes, DiskTypes
<1>6. CASE Adopt \/ AdoptRaises \/ RemoveFails \/ MakeRoot
  BY <1>0, <1>6 DEF Adopt, AdoptRaises, RemoveFails, MakeRoot, Goes, Prepared, TypeOK, WorkerTypes
<1>7. CASE Adopted
  BY <1>0, <1>7 DEF Adopted, WorkerAlone, Goes, Prepared, TypeOK, WorkerTypes
<1>8. CASE RemovePiece
  BY <1>0, <1>8 DEF RemovePiece, Prepared
<1>9. CASE RemoveDirectory
  BY <1>0, <1>9 DEF RemoveDirectory, Goes, Prepared, TypeOK, WorkerTypes
<1>10. CASE Finish \/ Stop
  BY <1>10 DEF Finish, Stop, Prepared, NoWork
<1>11. ASSUME NEW r \in Roots, Unplug(r) PROVE Prepared'
  BY <1>0, <1>11 DEF Unplug, DownQuiet, Prepared
<1>12. ASSUME NEW r \in Roots, Plug(r) PROVE Prepared'
  <2>1. worker.phase = "adopt" => worker.to # r
    BY <1>0, <1>12 DEF Plug, WorkerAlone, Attached
  <2>2. UNCHANGED <<worker, vacant>> /\ disk' = [disk EXCEPT ![r] = drive[r]]
    BY <1>12 DEF Plug
  <2> QED
    BY <1>0, <2>1, <2>2 DEF Prepared, TypeOK, DiskTypes, WorkerTypes
<1>13. ASSUME NEW l \in loads, MakeDirectories(l) \/ Build(l) PROVE Prepared'
  BY <1>0, <1>13 DEF MakeDirectories, Build, WorkerAlone, Prepared
<1>14. CASE UNCHANGED <<disk, worker, vacant>>
  BY <1>0, <1>14 DEF Prepared
<1> QED
  BY <1>1, <1>2, <1>3, <1>4, <1>5, <1>6, <1>7, <1>8, <1>9, <1>10, <1>11, <1>12, <1>13, <1>14
    DEF Next, Loading, HomeStep, Transition, BeginTransition, SaveStep, vars,
    Launch, ShowLibrary, StartLoad, Opened, Check, Moves, Superseded, Fail,
    Rebuild, Complete, SavePreference, OpenFile, WriteFile, Request, Skip

\* A load that is built keeps its database until it is answered.
LEMMA LoadsPreparedStep ==
  ASSUME Inv, Apart, [Next]_vars
  PROVE  LoadsPrepared'
<1> USE DEF homeVars, settingsVars, workerVars, diskVars, sessionVars, loadVars, counters
<1>0. /\ TypeOK /\ WorkerAlone /\ DownQuiet /\ LoadsAttached /\ LoadsPrepared
      /\ \A l \in loads : l.root \in Roots /\ l \in Load
  BY DEF Inv, Apart, TypeOK, LoadTypes, Load
<1>1. ASSUME UNCHANGED disk, \A l \in loads' : l \in loads \/ l.phase # "built"
      PROVE  LoadsPrepared'
  BY <1>0, <1>1 DEF LoadsPrepared
<1>2. ASSUME NEW choice, StartLoad(choice), UNCHANGED disk PROVE LoadsPrepared'
  BY <1>1, <1>2 DEF StartLoad
<1>3. ASSUME NEW l \in loads, Check(l) PROVE LoadsPrepared'
  <2>1. \A m \in loads' : m \in loads \/ m.phase # "built"
    BY <1>0, <1>3 DEF Check, Moves, Load
  <2> QED
    BY <1>1, <1>3, <2>1 DEF Check
<1>4. ASSUME NEW l \in loads, MakeDirectories(l) PROVE LoadsPrepared'
  <2>1. \A m \in loads' : m \in loads \/ m.phase # "built"
    BY <1>0, <1>4 DEF MakeDirectories, Moves, Load
  <2>2. CASE UNCHANGED disk
    BY <1>1, <2>1, <2>2
  <2>3. CASE disk' = WithDirectories(l.root)
    <3>1. \A r \in Roots : HasDatabase(disk[r]) => HasDatabase(disk'[r])
      BY <1>0, <2>3 DEF WithDirectories, HasDatabase, TypeOK, DiskTypes, Directory
    <3> QED
      BY <1>0, <2>1, <3>1 DEF LoadsPrepared
  <2> QED
    BY <1>4, <2>2, <2>3 DEF MakeDirectories
<1>5. ASSUME NEW l \in loads, Build(l) PROVE LoadsPrepared'
  <2>1. CASE UNCHANGED disk /\ Moves(l, "refused")
    <3>1. \A m \in loads' : m \in loads \/ m.phase # "built"
      BY <1>0, <2>1 DEF Moves, Load
    <3> QED
      BY <1>1, <2>1, <3>1
  <2>2. CASE disk' = WithDatabase(l.root) /\ Moves(l, "built")
    <3>1. \A r \in Roots : HasDatabase(disk[r]) \/ r = l.root => HasDatabase(disk'[r])
      BY <1>0, <2>2, HomeAssumption DEF WithDatabase, HasDatabase, TypeOK, DiskTypes, Directory
    <3>2. \A m \in loads' : m \in loads \/ m.root = l.root
      BY <1>0, <2>2 DEF Moves, Load
    <3> QED
      BY <1>0, <3>1, <3>2 DEF LoadsPrepared
  <2> QED
    BY <1>5, <2>1, <2>2 DEF Build
<1>6. ASSUME NEW l \in loads, Superseded(l) \/ Fail(l) \/ Complete(l) PROVE LoadsPrepared'
  BY <1>1, <1>6 DEF Superseded, Fail, Complete
<1>7. ASSUME NEW l \in loads, Rebuild(l) PROVE LoadsPrepared'
  <2>1. \A m \in loads' : m \in loads \/ m.phase # "built"
    BY <1>7 DEF Rebuild
  <2> QED
    BY <1>1, <1>7, <2>1 DEF Rebuild
<1>8. CASE Skip \/ Stop
  BY <1>1, <1>8 DEF Skip, Stop
<1>9. CASE loads = {} /\ loads' = {}
  BY <1>9 DEF LoadsPrepared
<1>10. ASSUME NEW r \in Roots, Plug(r) PROVE LoadsPrepared'
  <2>1. \A l \in loads : l.phase = "built" => l.root # r
    BY <1>0, <1>10 DEF Plug, LoadsAttached, Attached
  <2> QED
    BY <1>0, <1>10, <2>1 DEF Plug, LoadsPrepared, TypeOK, DiskTypes
<1>11. CASE UNCHANGED <<disk, loads>>
  BY <1>1, <1>11
<1>12. ASSUME NEW r \in Roots, Unplug(r) PROVE LoadsPrepared'
  BY <1>0, <1>9, <1>12 DEF Unplug, DownQuiet
<1>13. ASSUME UNCHANGED loads, Replace \/ RemovePiece \/ RemoveDirectory \/ MakeRoot \/ Finish
       PROVE  LoadsPrepared'
  <2>1. worker.phase # "idle"
    BY <1>13 DEF Replace, AtWork, RemovePiece, RemoveDirectory, MakeRoot, Finish
  <2>2. loads = {}
    BY <1>0, <2>1 DEF WorkerAlone
  <2> QED
    BY <1>9, <1>13, <2>2
<1> QED
  BY <1>2, <1>3, <1>4, <1>5, <1>6, <1>7, <1>8, <1>10, <1>11, <1>12, <1>13
    DEF Next, Loading, HomeStep, Transition, BeginTransition, SaveStep, vars,
    Launch, ShowLibrary, Opened, BeginReset, BeginMove, Begin, BeginSelect, Copy, Goes,
    Adopt, AdoptRaises, Adopted, RemoveFails, SavePreference, OpenFile, WriteFile, Request

\* What names the target goes on naming it.
LEMMA RepointedStep ==
  ASSUME Inv, Apart, [Next]_vars, ~collided'
  PROVE  Repointed'
<1> USE DEF homeVars, settingsVars, workerVars, diskVars, sessionVars, loadVars, counters
<1>0. /\ TypeOK /\ WorkerAlone /\ Repointed
      /\ worker.phase \in {"adopt", "adopting", "remove"} =>
           library \in {"ready", "broken"} /\ loads = {}
  BY DEF Inv, Apart, WorkerAlone
<1>1. ASSUME worker'.phase \notin {"adopting", "remove"} PROVE Repointed'
  BY <1>1 DEF Repointed, TargetWritten
<1>2. CASE Adopt
  <2> DEFINE c == [file.data EXCEPT !.location = worker.to, !.good = worker.to]
  <2>1. Loaded("worker", c) /\ worker' = [worker EXCEPT !.phase = "adopting", !.staging = Absent]
    BY <1>2 DEF Adopt, Goes
  <2>2. c.location = worker.to /\ c.good = worker.to
    BY <1>0 DEF TypeOK, SettingsTypes, Content
  <2> HIDE DEF c
  <2>3. /\ save'["worker"].next = c /\ save'["worker"].step = "loaded"
        /\ save'["ui"] = save["ui"] /\ save["ui"].step = "idle"
    BY <1>0, <2>1 DEF Loaded, Threads, TypeOK, SettingsTypes
  <2>4. worker'.phase = "adopting" /\ worker'.to = worker.to
    BY <1>0, <2>1 DEF TypeOK, WorkerTypes
  <2> QED
    BY <2>2, <2>3, <2>4 DEF Repointed, TargetWritten, NamesTarget
<1>3. CASE Adopted
  <2>1. /\ worker.phase = "adopting" /\ save["worker"].step = "idle" /\ UNCHANGED <<file, save>>
        /\ worker'.to = worker.to /\ worker'.kind = worker.kind /\ worker'.phase # "adopting"
        /\ worker'.phase = "remove" => worker.kind = "move"
    BY <1>0, <1>3 DEF Adopted, Idle, Goes, TypeOK, WorkerTypes
  <2> QED
    BY <1>0, <2>1 DEF Repointed, TargetWritten, NamesTarget
<1>4. CASE SavePreference
  <2> DEFINE c == [file.data EXCEPT !.pref = prefs + 1]
  <2>1. Loaded("ui", c) /\ file.form = "json" /\ UNCHANGED worker
    BY <1>4 DEF SavePreference
  <2>2. c.location = file.data.location /\ c.good = file.data.good
    BY <1>0 DEF TypeOK, SettingsTypes, Content
  <2> HIDE DEF c
  <2>3. /\ save'["ui"].next = c /\ file' = file
        /\ save'["worker"] = save["worker"] /\ save["worker"].step = "idle"
    BY <1>0, <2>1 DEF Loaded, Threads, TypeOK, SettingsTypes
  <2> QED
    BY <1>0, <2>1, <2>2, <2>3 DEF Repointed, TargetWritten, NamesTarget
<1>5. ASSUME NEW t \in Threads, OpenFile(t) PROVE Repointed'
  <2>1. /\ file'.form = "torn" /\ UNCHANGED worker
        /\ \A u \in Threads : /\ save'[u].next = save[u].next
                              /\ save'[u].step = "idle" <=> save[u].step = "idle"
    BY <1>0, <1>5 DEF OpenFile, Torn, TypeOK, SettingsTypes
  <2> QED
    BY <1>0, <2>1 DEF Repointed, TargetWritten, NamesTarget, Threads
<1>6. ASSUME NEW t \in Threads, WriteFile(t) PROVE Repointed'
  <2>1. /\ file' = Json(save[t].next) \/ file'.form = "torn"
        /\ save[t].step # "idle" /\ save'[t].step = "idle" /\ UNCHANGED worker
        /\ \A u \in Threads \ {t} : save'[u] = save[u]
    BY <1>0, <1>6 DEF WriteFile, Torn, Idle, TypeOK, SettingsTypes
  <2>2. CASE t = "worker"
    <3>1. worker.phase = "adopting" /\ NamesTarget(save[t].next) /\ save["ui"].step = "idle"
      BY <1>0, <2>1, <2>2 DEF WorkerAlone, Repointed
    <3>2. save'["ui"].step = "idle" /\ (file'.form = "json" => file'.data = save[t].next)
      BY <2>1, <2>2, <3>1 DEF Threads, Json
    <3> QED
      BY <2>1, <2>2, <3>1, <3>2 DEF Repointed, TargetWritten, NamesTarget
  <2>3. CASE t = "ui"
    <3>1. save'["worker"] = save["worker"]
      BY <2>1, <2>3 DEF Threads
    <3>2. ~(worker.phase = "adopting" /\ save["worker"].step # "idle")
      BY <1>0, <2>1, <2>3 DEF Repointed
    <3>3. TargetWritten => NamesTarget(save[t].next)
      BY <1>0, <2>1, <2>3 DEF Repointed
    <3>4. file'.form = "json" => file'.data = save[t].next
      BY <2>1 DEF Json
    <3> QED
      BY <2>1, <2>3, <3>1, <3>2, <3>3, <3>4 DEF Repointed, TargetWritten, NamesTarget
  <2> QED
    BY <2>2, <2>3 DEF Threads
<1>7. CASE RemovePiece
  BY <1>0, <1>7 DEF RemovePiece, Repointed, TargetWritten, NamesTarget
<1>8. CASE RemoveDirectory \/ RemoveFails \/ MakeRoot \/ Finish \/ Replace \/ Copy \/ AdoptRaises
  <2>1. ASSUME NEW p, Goes(p), p \notin {"adopting", "remove"} PROVE Repointed'
    BY <1>0, <1>1, <2>1 DEF Goes, TypeOK, WorkerTypes
  <2>2. RemoveDirectory \/ RemoveFails \/ MakeRoot \/ AdoptRaises \/ Replace => Repointed'
    BY <2>1 DEF RemoveDirectory, RemoveFails, MakeRoot, AdoptRaises, Replace
  <2>3. CASE Copy
    <3>1. Goes("finish") \/ worker' = [worker EXCEPT !.phase = "replace", !.staging = Copied]
      BY <2>3 DEF Copy
    <3>2. CASE worker' = [worker EXCEPT !.phase = "replace", !.staging = Copied]
      BY <1>0, <1>1, <3>2 DEF TypeOK, WorkerTypes
    <3> QED
      BY <2>1, <3>1, <3>2
  <2>4. CASE Finish
    BY <1>1, <2>4 DEF Finish, NoWork
  <2> QED
    BY <1>8, <2>2, <2>3, <2>4
<1>9. CASE BeginReset
  <2>1. worker'.kind = "reset" /\ worker'.phase # "adopting"
    BY <1>9 DEF BeginReset, Begin, NoWork
  <2> QED
    BY <2>1 DEF Repointed, TargetWritten
<1>10. ASSUME NEW r \in Roots, BeginMove(r) \/ BeginSelect(r) PROVE Repointed'
  BY <1>1, <1>10 DEF BeginMove, BeginSelect, Begin, NoWork
<1>11. CASE Stop
  BY <1>1, <1>11 DEF Stop, NoWork
<1>12. CASE UNCHANGED <<file, save, worker>>
  BY <1>0, <1>12 DEF Repointed, TargetWritten, NamesTarget
<1>13. CASE Launch
  BY <1>0, <1>1, <1>13 DEF Launch
<1>14. ASSUME NEW l \in loads, Complete(l) PROVE Repointed'
  BY <1>0, <1>1, <1>14 DEF Complete, Inv, WorkerAlone
<1> QED
  BY <1>2, <1>3, <1>4, <1>5, <1>6, <1>7, <1>8, <1>9, <1>10, <1>11, <1>12, <1>13, <1>14
    DEF Next, Loading, HomeStep, Transition, BeginTransition, SaveStep, vars,
    ShowLibrary, StartLoad, Opened, Check, Moves, MakeDirectories, Build, Superseded, Fail,
    Rebuild, Request, Skip, Unplug, Plug

LEMMA PointerInit == Init => PointerInv
<1> SUFFICES ASSUME Init PROVE Apart
  BY InvInit DEF PointerInv
<1>1. PICK place \in [Libraries -> Roots] :
        /\ \A l, m \in Libraries : place[l] = place[m] => l = m
        /\ disk = [r \in Roots |->
                    IF \E l \in Libraries : place[l] = r
                    THEN Full(CHOOSE l \in Libraries : place[l] = r) ELSE Absent]
        /\ file \in {[form |-> "missing", data |-> Defaults]} \cup
                    {Json([location |-> place[l], good |-> place[l], pref |-> 0])
                      : l \in Libraries}
  BY DEF Init
<1>2. \A r \in Roots : At(r) = disk[r]
  BY DEF Init, At, Absent
<1>3. \A l \in Libraries : HasDatabase(Full(l))
  BY HomeAssumption DEF HasDatabase, Full
<1>4. \A l \in Libraries : Usable(place[l])
  <2> SUFFICES ASSUME NEW l \in Libraries PROVE Usable(place[l])
    OBVIOUS
  <2>1. place[l] \in Roots /\ (CHOOSE m \in Libraries : place[m] = place[l]) = l
    BY <1>1
  <2>2. disk[place[l]] = Full(l)
    BY <1>1, <2>1
  <2> QED
    BY <1>2, <1>3, <2>1, <2>2 DEF Usable
<1>5. file.form = "missing" => Usable(Default)
  <2>1. CASE disk[Default].there
    <3>1. \E l \in Libraries : place[l] = Default
      BY <1>1, <2>1, HomeAssumption DEF Absent
    <3> QED
      BY <1>4, <3>1
  <2>2. CASE ~disk[Default].there
    BY <2>2 DEF Init, Usable
  <2> QED
    BY <2>1, <2>2
<1>6. file.form = "json" => PointsToLibrary(file.data)
  BY <1>1, <1>4 DEF Json, PointsToLibrary, Usable
<1>7. Named
  BY <1>6 DEF Named, Init, Idle
<1> QED
  BY <1>5, <1>7 DEF Apart, Init, FirstLaunch, Prepared, LoadsPrepared, Repointed, TargetWritten, NoWork

LEMMA PointerStep == PointerInv /\ [Next]_vars => PointerInv'
<1> SUFFICES ASSUME PointerInv, [Next]_vars PROVE PointerInv'
  OBVIOUS
<1>1. Inv'
  BY InvStep DEF PointerInv
<1>2. ASSUME ~collided' PROVE Apart'
  <2>1. Inv /\ Apart
    BY <1>2, CollidedStays DEF PointerInv
  <2> QED
    BY <1>2, <2>1, NamedStep, FirstLaunchStep, PreparedStep, LoadsPreparedStep, RepointedStep DEF Apart
<1> QED
  BY <1>1, <1>2 DEF PointerInv

\* The settings never name, at any crash, a root whose library was removed or
\* never was there: the copy is made before the file names it, and the old root
\* goes after, in move_to_parent; a load is adopted when it is built.  Only two
\* SettingsStore.update calls that overlap can break it.
THEOREM PointerStaysUsable == Spec => []PointerUsable
<1>1. PointerInv => PointerUsable
  BY DEF PointerInv, Apart, Named, PointerUsable
<1> QED
  BY <1>1, PointerInit, PointerStep, PTL DEF Spec

------------------------------------------------------------------------------
(* The library that was asked for                                          *)

\* No two attempts have one number, and the latest is on the root chosen last.
OneLatest ==
  /\ \A l, m \in loads : l.gen = m.gen => l = m
  /\ \A l \in loads : l.gen = generation =>
       library = "loading" /\ (selected # None => l.root = selected)

\* Nothing moves a library before the first transition, and a worker in no
\* phase has no work.
Unmoved ==
  /\ moves = 0 => worker = NoWork
  /\ worker.phase = "idle" => worker = NoWork

\* Until it is moved or exchanged, the library is the chosen one; what the
\* settings say of it, or are about to say, is where it is.
SelectedOpen ==
  library \in {"adopting", "ready"} /\ moves = 0 /\ selected # None => at = selected
FileSays == file.form = "json" => file.data.location = at
SaveSays == save["ui"].step # "idle" => save["ui"].next.location = at
SettingsFollow ==
  /\ library = "ready" /\ worker = NoWork => FileSays /\ SaveSays
  /\ library = "adopting" => SaveSays /\ (save["ui"].step = "idle" => FileSays)

AskedInv == Inv /\ OneLatest /\ Unmoved /\ SelectedOpen /\ SettingsFollow

LEMMA AskedInit == Init => AskedInv
<1> SUFFICES ASSUME Init PROVE OneLatest /\ Unmoved /\ SelectedOpen /\ SettingsFollow
  BY InvInit DEF AskedInv
<1> QED
  BY DEF Init, OneLatest, Unmoved, SelectedOpen, SettingsFollow

\* A new attempt takes a number of its own.
LEMMA FreshLoad ==
  ASSUME TypeOK, OneLatest, generation' = generation + 1, NEW new, NEW old \in SUBSET loads,
         loads' = old \cup {new}, new.gen = generation + 1, library' = "loading",
         selected' # None => new.root = selected'
  PROVE  OneLatest'
<1>1. \A l \in loads : l.gen <= generation /\ l.gen \in Nat
  BY DEF TypeOK, LoadTypes, Load
<1>2. generation \in Nat
  BY DEF TypeOK, LoadTypes
<1> QED
  BY <1>1, <1>2 DEF OneLatest

LEMMA OneLatestStep ==
  ASSUME AskedInv, [Next]_vars
  PROVE  OneLatest'
<1> USE DEF homeVars, settingsVars, workerVars, diskVars, sessionVars, loadVars, counters
<1>0. /\ TypeOK /\ OneLatest /\ DownQuiet /\ WorkerAlone /\ generation \in Nat
      /\ \A l \in loads : l \in Load /\ l.gen <= generation /\ l.gen \in Nat
  BY DEF AskedInv, Inv, TypeOK, LoadTypes, Load
<1>1. ASSUME NEW c, StartLoad(c) PROVE OneLatest'
  <2> DEFINE new == [gen |-> generation + 1, phase |-> "queued",
                     root |-> IF c = None THEN file.data.location ELSE c,
                     chosen |-> c # None, pref |-> file.data.pref]
             old == {l \in loads : l.phase # "queued"}
  <2>1. /\ generation' = generation + 1 /\ selected' = c /\ library' = "loading"
        /\ loads' = old \cup {new} /\ old \in SUBSET loads
    BY <1>1 DEF StartLoad
  <2>2. new.gen = generation + 1 /\ (c # None => new.root = c)
    OBVIOUS
  <2> HIDE DEF new, old
  <2> QED
    BY <1>0, <2>1, <2>2, FreshLoad
<1>2. ASSUME NEW l \in loads, Rebuild(l) PROVE OneLatest'
  <2> DEFINE new == [gen |-> generation + 1, phase |-> "queued",
                     root |-> IF selected = None THEN file.data.location ELSE selected,
                     chosen |-> selected # None, pref |-> file.data.pref]
  <2>1. /\ generation' = generation + 1 /\ selected' = selected /\ library' = library
        /\ loads' = (loads \ {l}) \cup {new} /\ l.gen = generation
    BY <1>2 DEF Rebuild, Latest
  <2>2. new.gen = generation + 1 /\ (selected # None => new.root = selected)
    OBVIOUS
  <2>3. library = "loading" /\ (loads \ {l}) \in SUBSET loads
    BY <1>0, <2>1 DEF OneLatest
  <2> HIDE DEF new
  <2> QED
    BY <1>0, <2>1, <2>2, <2>3, FreshLoad
<1>3. ASSUME NEW l \in loads, NEW p, Moves(l, p), UNCHANGED <<generation, selected, library>>
      PROVE  OneLatest'
  <2> DEFINE moved == [l EXCEPT !.phase = p]
  <2>1. moved.gen = l.gen /\ moved.root = l.root
    BY <1>0 DEF Load
  <2>2. loads' = (loads \ {l}) \cup {moved}
    BY <1>3 DEF Moves
  <2> HIDE DEF moved
  <2> QED
    BY <1>0, <1>3, <2>1, <2>2 DEF OneLatest
<1>4. ASSUME NEW l \in loads, Check(l) \/ MakeDirectories(l) \/ Build(l) PROVE OneLatest'
  BY <1>3, <1>4 DEF Check, MakeDirectories, Build
<1>5. ASSUME NEW l \in loads, Fail(l) \/ Complete(l) PROVE OneLatest'
  <2>1. l.gen = generation /\ loads' = loads \ {l} /\ generation' = generation
    BY <1>5 DEF Fail, Complete, Latest
  <2>2. \A m \in loads' : m \in loads /\ m.gen # generation'
    BY <1>0, <2>1 DEF OneLatest
  <2> QED
    BY <1>0, <2>2 DEF OneLatest
<1>6. ASSUME NEW l \in loads, Superseded(l) PROVE OneLatest'
  BY <1>0, <1>6 DEF Superseded, OneLatest
<1>7. CASE Skip
  <2>1. /\ \A m \in loads' : m \in loads
        /\ generation' = generation + 1
    BY <1>7 DEF Skip
  <2> QED
    BY <1>0, <2>1 DEF OneLatest
<1>8. CASE loads' = {}
  BY <1>8 DEF OneLatest
<1>9. CASE UNCHANGED <<loads, generation, selected, library>>
  BY <1>0, <1>9 DEF OneLatest
<1>10. CASE Launch \/ Opened
  <2>1. library # "loading" /\ UNCHANGED <<loads, generation, selected>>
    BY <1>10 DEF Launch, Opened
  <2> QED
    BY <1>0, <2>1 DEF OneLatest
<1>11. ASSUME UNCHANGED loads, Finish PROVE OneLatest'
  BY <1>0, <1>8, <1>11 DEF Finish, WorkerAlone
<1> QED
  BY <1>1, <1>2, <1>4, <1>5, <1>6, <1>7, <1>8, <1>9, <1>10, <1>11
    DEF Next, Loading, HomeStep, Transition, BeginTransition, SaveStep, vars,
    ShowLibrary, Request, Stop, Unplug, Plug, BeginReset, BeginMove, Begin, BeginSelect,
    Copy, Replace, Goes, Adopt, AdoptRaises, Adopted, RemovePiece, RemoveDirectory,
    RemoveFails, MakeRoot, SavePreference, OpenFile, WriteFile

LEMMA UnmovedStep ==
  ASSUME AskedInv, [Next]_vars
  PROVE  Unmoved'
<1> USE DEF homeVars, settingsVars, workerVars, diskVars, sessionVars, loadVars, counters
<1>0. moves \in Nat /\ TypeOK /\ Unmoved
  BY DEF AskedInv, Inv, TypeOK, WorkerTypes
<1>1. ASSUME NEW p, Goes(p), p # "idle", worker.phase # "idle", UNCHANGED moves PROVE Unmoved'
  BY <1>0, <1>1 DEF Goes, Unmoved, NoWork, TypeOK, WorkerTypes
<1>2. ASSUME NEW r, NEW k, NEW p, p # "idle", Begin(k, r, p) PROVE Unmoved'
  <2>1. worker'.phase = p /\ moves' = moves + 1
    BY <1>2 DEF Begin, NoWork
  <2> QED
    BY <1>0, <1>2, <2>1 DEF Unmoved
<1>3. CASE Copy
  <2>1. worker.phase # "idle" /\ worker'.phase # "idle" /\ moves' = moves
    BY <1>0, <1>3 DEF Copy, AtWork, Goes, TypeOK, WorkerTypes
  <2> QED
    BY <1>0, <2>1 DEF Unmoved, NoWork
<1>4. CASE Replace \/ Adopt \/ AdoptRaises \/ Adopted \/ RemoveDirectory \/ RemoveFails \/ MakeRoot
  BY <1>1, <1>4 DEF Replace, AtWork, Adopt, AdoptRaises, Adopted, RemoveDirectory, RemoveFails, MakeRoot
<1>5. CASE Finish \/ Stop
  BY <1>5 DEF Finish, Stop, Unmoved
<1>6. CASE UNCHANGED <<worker, moves>>
  BY <1>0, <1>6 DEF Unmoved
<1>7. CASE BeginReset
  <2> DEFINE p == IF disk[at].there THEN "remove" ELSE "mkdir"
  <2> HIDE DEF p
  <2>1. Begin("reset", at, p) /\ p # "idle"
    BY <1>7 DEF BeginReset, p
  <2> QED
    BY <1>2, <2>1
<1>8. ASSUME NEW r \in Roots, BeginMove(r) \/ BeginSelect(r) PROVE Unmoved'
  <2>1. ASSUME BeginMove(r) PROVE Unmoved'
    BY <1>2, <2>1 DEF BeginMove
  <2>2. ASSUME BeginSelect(r) PROVE Unmoved'
    BY <1>2, <2>2 DEF BeginSelect
  <2> QED
    BY <1>8, <2>1, <2>2
<1> QED
  BY <1>3, <1>4, <1>5, <1>6, <1>7, <1>8
    DEF Next, Loading, HomeStep, Transition, BeginTransition, SaveStep, vars,
    Launch, ShowLibrary, StartLoad, Opened, Check, Moves, MakeDirectories, Build, Superseded,
    Fail, Rebuild, Complete, RemovePiece, SavePreference, OpenFile, WriteFile,
    Request, Skip, Unplug, Plug

LEMMA SelectedOpenStep ==
  ASSUME AskedInv, [Next]_vars
  PROVE  SelectedOpen'
<1> USE DEF homeVars, settingsVars, workerVars, diskVars, sessionVars, loadVars, counters
<1>0. SelectedOpen /\ Unmoved /\ OneLatest /\ moves \in Nat
  BY DEF AskedInv, Inv, TypeOK, WorkerTypes
<1>1. ASSUME NEW l \in loads, Complete(l) PROVE SelectedOpen'
  <2>1. l.gen = generation /\ at' = l.root /\ selected' = selected
    BY <1>1 DEF Complete, Latest
  <2> QED
    BY <1>0, <2>1 DEF OneLatest, SelectedOpen
<1>2. CASE Finish
  BY <1>0, <1>2 DEF Finish, Unmoved, NoWork, SelectedOpen
<1>3. CASE library' \notin {"adopting", "ready"}
  BY <1>3 DEF SelectedOpen
<1>4. CASE UNCHANGED <<library, moves, selected, at>>
  BY <1>0, <1>4 DEF SelectedOpen
<1>5. ASSUME NEW r, NEW k, NEW p, Begin(k, r, p) PROVE SelectedOpen'
  BY <1>0, <1>5 DEF Begin, SelectedOpen
<1>6. CASE Opened
  BY <1>0, <1>6 DEF Opened, SelectedOpen
<1> QED
  BY <1>1, <1>2, <1>3, <1>4, <1>5, <1>6
    DEF Next, Loading, HomeStep, Transition, BeginTransition, SaveStep, vars,
    Launch, ShowLibrary, StartLoad, Check, Moves, MakeDirectories, Build, Superseded, Fail,
    Rebuild, BeginReset, BeginMove, BeginSelect, Copy, Replace, Goes, Adopt, AdoptRaises,
    Adopted, RemovePiece, RemoveDirectory, RemoveFails, MakeRoot, SavePreference, OpenFile,
    WriteFile, Request, Skip, Stop, Unplug, Plug

LEMMA SettingsFollowStep ==
  ASSUME AskedInv, [Next]_vars
  PROVE  SettingsFollow'
<1> USE DEF homeVars, settingsVars, workerVars, diskVars, sessionVars, loadVars, counters
<1>0. TypeOK /\ WorkerAlone /\ Unmoved /\ SettingsFollow
  BY DEF AskedInv, Inv
<1>1. ASSUME NEW l \in loads, Complete(l) PROVE SettingsFollow'
  <2> DEFINE c == [file.data EXCEPT !.location = l.root, !.good = l.root]
  <2>1. file.form = "json" /\ at' = l.root /\ save["ui"].step = "idle"
    BY <1>1 DEF Complete, Answered, UIFree
  <2>2. CASE library' = "ready" /\ UNCHANGED settingsVars /\ file.data.location = l.root
    BY <2>1, <2>2 DEF SettingsFollow, FileSays, SaveSays
  <2>3. CASE library' = "adopting" /\ Loaded("ui", c)
    <3>1. c.location = l.root
      BY <1>0 DEF TypeOK, SettingsTypes, Content
    <3> HIDE DEF c
    <3>2. save'["ui"] = [step |-> "loaded", next |-> c]
      BY <1>0, <2>3 DEF Loaded, Threads, TypeOK, SettingsTypes
    <3> QED
      BY <2>1, <2>3, <3>1, <3>2 DEF SettingsFollow, SaveSays
  <2> QED
    BY <1>1, <2>2, <2>3 DEF Complete
<1>2. CASE SavePreference
  <2> DEFINE c == [file.data EXCEPT !.pref = prefs + 1]
  <2>1. /\ library # "adopting" /\ file.form = "json" /\ file' = file
        /\ UNCHANGED <<library, at, worker>> /\ Loaded("ui", c)
    BY <1>2 DEF SavePreference, UIFree, Loaded
  <2>2. c.location = file.data.location
    BY <1>0 DEF TypeOK, SettingsTypes, Content
  <2> HIDE DEF c
  <2>3. save'["ui"].next = c
    BY <1>0, <2>1 DEF Loaded, Threads, TypeOK, SettingsTypes
  <2> QED
    BY <1>0, <2>1, <2>2, <2>3 DEF SettingsFollow, FileSays, SaveSays
<1>3. ASSUME NEW t \in Threads, OpenFile(t) PROVE SettingsFollow'
  <2>1. /\ file'.form = "torn" /\ UNCHANGED <<library, at, worker>>
        /\ save'["ui"].next = save["ui"].next
        /\ save'["ui"].step = "idle" <=> save["ui"].step = "idle"
    BY <1>0, <1>3 DEF OpenFile, Torn, Threads, TypeOK, SettingsTypes
  <2> QED
    BY <1>0, <2>1 DEF SettingsFollow, FileSays, SaveSays
<1>4. ASSUME NEW t \in Threads, WriteFile(t) PROVE SettingsFollow'
  <2>1. /\ file' = Json(save[t].next) \/ file'.form = "torn"
        /\ save[t].step # "idle" /\ save'[t].step = "idle" /\ UNCHANGED <<library, at, worker>>
        /\ \A u \in Threads \ {t} : save'[u] = save[u]
    BY <1>0, <1>4 DEF WriteFile, Torn, Idle, TypeOK, SettingsTypes
  <2>2. CASE t = "worker"
    <3>1. worker.phase = "adopting" /\ worker # NoWork /\ library # "adopting"
      BY <1>0, <2>1, <2>2 DEF WorkerAlone, NoWork
    <3> QED
      BY <2>1, <3>1 DEF SettingsFollow
  <2>3. CASE t = "ui"
    BY <1>0, <2>1, <2>3 DEF SettingsFollow, FileSays, SaveSays, Json
  <2> QED
    BY <2>2, <2>3 DEF Threads
<1>5. CASE Finish
  BY <1>5 DEF Finish, SettingsFollow, FileSays, SaveSays
<1>6. CASE Opened
  BY <1>0, <1>6 DEF Opened, Idle, SettingsFollow, FileSays, SaveSays
<1>7. CASE library' \notin {"adopting", "ready"}
  BY <1>7 DEF SettingsFollow
<1>8. ASSUME UNCHANGED library, library = "ready" \/ library = "broken", worker' # NoWork PROVE SettingsFollow'
  BY <1>8 DEF SettingsFollow
<1>9. ASSUME NEW r, NEW k, k # "none", NEW p, Begin(k, r, p)
      PROVE  SettingsFollow'
  <2>1. worker'.kind = k /\ NoWork.kind = "none"
    BY <1>9 DEF Begin, NoWork
  <2> QED
    BY <1>8, <1>9, <2>1 DEF Begin
<1>10. ASSUME NEW r \in Roots, BeginMove(r) \/ BeginSelect(r) PROVE SettingsFollow'
  <2>1. ASSUME BeginMove(r) PROVE SettingsFollow'
    BY <1>9, <2>1 DEF BeginMove
  <2>2. ASSUME BeginSelect(r) PROVE SettingsFollow'
    BY <1>9, <2>2 DEF BeginSelect
  <2> QED
    BY <1>10, <2>1, <2>2
<1>16. CASE BeginReset
  BY <1>9, <1>16 DEF BeginReset
<1>11. ASSUME worker.phase # "idle", worker'.phase # "idle", UNCHANGED library PROVE SettingsFollow'
  BY <1>0, <1>8, <1>11 DEF WorkerAlone, NoWork
<1>12. ASSUME NEW p, Goes(p), p # "idle", worker.phase # "idle", UNCHANGED library
       PROVE  SettingsFollow'
  BY <1>0, <1>11, <1>12 DEF Goes, TypeOK, WorkerTypes
<1>13. CASE Copy
  <2>1. worker'.phase # "idle" /\ worker.phase # "idle" /\ UNCHANGED library
    BY <1>0, <1>13 DEF Copy, AtWork, Goes, TypeOK, WorkerTypes
  <2> QED
    BY <1>11, <2>1
<1>14. CASE Replace \/ Adopt \/ AdoptRaises \/ Adopted \/ RemoveDirectory \/ RemoveFails \/ MakeRoot
  BY <1>12, <1>14
    DEF Replace, AtWork, Adopt, AdoptRaises, Adopted, RemoveDirectory, RemoveFails, MakeRoot
<1>15. CASE UNCHANGED <<file, save, library, at, worker>>
  BY <1>0, <1>15 DEF SettingsFollow, FileSays, SaveSays
<1> QED
  BY <1>1, <1>2, <1>3, <1>4, <1>5, <1>6, <1>7, <1>10, <1>13, <1>14, <1>15, <1>16
    DEF Next, Loading, HomeStep, Transition, BeginTransition, SaveStep, vars,
    Launch, ShowLibrary, StartLoad, Check, Moves, MakeDirectories, Build, Superseded, Fail,
    Rebuild, RemovePiece, Request, Skip, Stop, Unplug, Plug

LEMMA AskedStep == AskedInv /\ [Next]_vars => AskedInv'
<1> SUFFICES ASSUME AskedInv, [Next]_vars PROVE AskedInv'
  OBVIOUS
<1>1. Inv'
  BY InvStep DEF AskedInv
<1> QED
  BY <1>1, OneLatestStep, UnmovedStep, SelectedOpenStep, SettingsFollowStep DEF AskedInv

\* An open library is the one the next launch opens, overlapping updates or not,
\* and until it is moved or exchanged the one asked for last: an attempt
\* superseded, skipped or run again never becomes the session, because only the
\* answer with the latest generation does (AppContext._finish_library_load).
THEOREM TheAskedIsOpen == Spec => []OpensWhatWasAsked
<1>1. AskedInv => OpensWhatWasAsked
  BY DEF AskedInv, SelectedOpen, SettingsFollow, FileSays, OpensWhatWasAsked
<1> QED
  BY <1>1, AskedInit, AskedStep, PTL DEF Spec

------------------------------------------------------------------------------
(* The library that is made                                                *)

\* What a load may still make, or has found, is usable; what it was merely told
\* to look at is checked first.
MayMake(l) == l.phase \in {"directories", "build"} \/ (l.phase = "queued" /\ ~l.chosen)
LoadsUsable == \A l \in loads : MayMake(l) => Usable(l.root)
ResetInv == PointerInv /\ (~collided => LoadsUsable)

\* Of the loads in the executor a step changes one, or adds one.
LEMMA OneMore ==
  ASSUME Inv, Apart, LoadsUsable, [Next]_vars, NEW new, loads' \subseteq loads \cup {new},
         MayMake(new) => Usable(new.root)'
  PROVE  LoadsUsable'
<1>1. ASSUME NEW l \in loads, MayMake(l) PROVE Usable(l.root)'
  <2>1. Usable(l.root) /\ l.root \in Roots
    BY <1>1 DEF LoadsUsable, Inv, TypeOK, LoadTypes, Load
  <2>2. ~Doomed(l.root)
    BY <1>1 DEF Inv, WorkerAlone, Doomed
  <2> QED
    BY <2>1, <2>2, UsableKeeps DEF Apart
<1> QED
  BY <1>1 DEF LoadsUsable, MayMake

LEMMA LoadsUsableStep ==
  ASSUME Inv, Apart, LoadsUsable, [Next]_vars
  PROVE  LoadsUsable'
<1> USE DEF homeVars, settingsVars, workerVars, diskVars, sessionVars, loadVars, counters
<1>0. /\ TypeOK /\ WorkerAlone /\ DrivesClean /\ LoadsUsable
      /\ \A l \in loads : l.root \in Roots /\ l \in Load
      /\ file.form = "json" => Usable(file.data.location)
  <2>1. file.data.location # None
    BY HomeAssumption DEF Inv, TypeOK, SettingsTypes, Content
  <2> QED
    BY <2>1 DEF Inv, TypeOK, LoadTypes, Load, Apart, Named, PointsToLibrary, Usable
<1>1. ASSUME NEW c \in Roots \cup {None}, StartLoad(c), file.form = "json", UNCHANGED diskVars
      PROVE  LoadsUsable'
  <2>1. PICK new : /\ loads' \subseteq loads \cup {new}
                   /\ MayMake(new) => new.root = file.data.location
    <3> DEFINE n == [gen |-> generation + 1, phase |-> "queued",
                     root |-> IF c = None THEN file.data.location ELSE c,
                     chosen |-> c # None, pref |-> file.data.pref]
    <3>1. loads' \subseteq loads \cup {n}
      BY <1>1 DEF StartLoad
    <3>2. MayMake(n) => n.root = file.data.location
      BY DEF MayMake
    <3> QED
      BY <3>1, <3>2
  <2>2. PICK root : root = new.root
    OBVIOUS
  <2>3. MayMake(new) => Usable(root)'
    BY <1>0, <1>1, <2>1, <2>2, SameUsable
  <2> QED
    BY <2>1, <2>2, <2>3, OneMore
<1>2. ASSUME NEW l \in loads, Rebuild(l) PROVE LoadsUsable'
  <2>1. PICK new : /\ loads' \subseteq loads \cup {new}
                   /\ MayMake(new) => new.root = file.data.location
    <3> DEFINE n == [gen |-> generation + 1, phase |-> "queued",
                     root |-> IF selected = None THEN file.data.location ELSE selected,
                     chosen |-> selected # None, pref |-> file.data.pref]
    <3>1. loads' \subseteq loads \cup {n}
      BY <1>2 DEF Rebuild
    <3>2. MayMake(n) => n.root = file.data.location
      BY DEF MayMake
    <3> QED
      BY <3>1, <3>2
  <2>2. PICK root : root = new.root
    OBVIOUS
  <2>3. MayMake(new) => Usable(root)'
    BY <1>0, <1>2, <2>1, <2>2, SameUsable DEF Rebuild
  <2> QED
    BY <2>1, <2>2, <2>3, OneMore
<1>3. ASSUME NEW l \in loads, NEW q, Moves(l, q), q \in {"directories", "build"} => Usable(l.root),
             q # "queued"
      PROVE  LoadsUsable'
  <2> DEFINE new == [l EXCEPT !.phase = q]
  <2>1. loads' \subseteq loads \cup {new} /\ new.root = l.root /\ new.phase = q
    BY <1>0, <1>3 DEF Moves, Load
  <2>2. ~Doomed(l.root) /\ l.root \in Roots
    BY <1>0 DEF WorkerAlone, Doomed
  <2>3. q \in {"directories", "build"} => Usable(l.root)'
    BY <1>3, <2>2, UsableKeeps DEF Apart
  <2> HIDE DEF new
  <2>4. MayMake(new) => Usable(new.root)'
    BY <1>3, <2>1, <2>3 DEF MayMake, Usable, At
  <2> QED
    BY <2>1, <2>4, OneMore
<1>4. ASSUME NEW l \in loads, Check(l) PROVE LoadsUsable'
  <2>1. HasDatabase(disk[l.root]) => Usable(l.root)
    BY <1>0 DEF HasDatabase, Usable, At, DrivesClean, Absent
  <2>2. NewDefault(l) => Usable(l.root)
    BY <1>0, <1>4 DEF NewDefault, Check, LoadsUsable, MayMake
  <2> QED
    BY <1>3, <1>4, <2>1, <2>2 DEF Check
<1>5. ASSUME NEW l \in loads, MakeDirectories(l) \/ Build(l) PROVE LoadsUsable'
  <2>1. Usable(l.root)
    BY <1>0, <1>5 DEF MakeDirectories, Build, LoadsUsable, MayMake
  <2> QED
    BY <1>3, <1>5, <2>1 DEF MakeDirectories, Build
<1>6. ASSUME loads' \subseteq loads PROVE LoadsUsable'
  <2>1. CASE loads = {}
    BY <1>6, <2>1 DEF LoadsUsable
  <2>2. ASSUME NEW l \in loads' PROVE MayMake(l) => Usable(l.root)'
    <3>1. l \in loads /\ ~Doomed(l.root) /\ l.root \in Roots
      BY <1>0, <1>6 DEF WorkerAlone, Doomed
    <3> QED
      BY <1>0, <3>1, UsableKeeps DEF LoadsUsable, Apart
  <2> QED
    BY <2>2 DEF LoadsUsable, MayMake, Usable, At
<1> QED
  BY <1>1, <1>2, <1>4, <1>5, <1>6
    DEF Next, Loading, HomeStep, Transition, BeginTransition, SaveStep, vars,
    Launch, ShowLibrary, Opened, Superseded, Fail, Complete, BeginReset, BeginMove, Begin,
    BeginSelect, Copy, Replace, Goes, Adopt, AdoptRaises, Adopted, RemovePiece,
    RemoveDirectory, RemoveFails, MakeRoot, Finish, SavePreference, OpenFile, WriteFile,
    Request, Skip, Stop, Unplug, Plug

LEMMA ResetInit == Init => ResetInv
  BY PointerInit DEF Init, ResetInv, LoadsUsable

LEMMA ResetStep == ResetInv /\ [Next]_vars => ResetInv'
<1> SUFFICES ASSUME ResetInv, [Next]_vars PROVE ResetInv'
  OBVIOUS
<1>1. PointerInv'
  BY PointerStep DEF ResetInv
<1>2. ASSUME ~collided' PROVE LoadsUsable'
  BY <1>2, CollidedStays, LoadsUsableStep DEF ResetInv, PointerInv
<1> QED
  BY <1>1, <1>2 DEF ResetInv

\* What a library is made by: a load, or the rebuild after a transition.
LEMMA MadeWhereAllowed ==
  ASSUME ResetInv, [Next]_vars, ~collided, NEW r \in Roots, Made(r)
  PROVE  r \in vacant
<1> USE DEF homeVars, settingsVars, workerVars, diskVars, sessionVars, loadVars, counters
<1>0. /\ Inv /\ Apart /\ TypeOK /\ LoadsUsable /\ WorkerAlone
      /\ LoadsAttached /\ SessionAttached
      /\ disk[r].db = None /\ disk'[r].db = New /\ ~AtWork("move", "replace")
      /\ disk[r] \in Directory /\ New # None
      /\ disk' # disk /\ drive' = drive
  BY HomeAssumption DEF ResetInv, PointerInv, Inv, TypeOK, DiskTypes, Made
<1>1. ASSUME Attached(r), Usable(r) PROVE r \in vacant
  BY <1>0, <1>1 DEF Attached, Usable, At, HasDatabase
<1>2. ASSUME NEW q \in Roots, disk' = WithDirectories(q) PROVE FALSE
  BY <1>0, <1>2 DEF WithDirectories, TypeOK, DiskTypes, Directory
<1>3. ASSUME NEW q \in Roots, disk' = WithDatabase(q) PROVE q = r
  BY <1>0, <1>3 DEF WithDatabase, TypeOK, DiskTypes
<1>4. ASSUME NEW l \in loads, MakeDirectories(l) PROVE FALSE
  BY <1>0, <1>2, <1>4 DEF MakeDirectories, TypeOK, LoadTypes, Load
<1>5. ASSUME NEW l \in loads, Build(l) PROVE r \in vacant
  <2>1. Usable(l.root) /\ Attached(l.root) /\ l.root \in Roots
    BY <1>0, <1>5 DEF Build, LoadsUsable, MayMake, LoadsAttached, TypeOK, LoadTypes, Load
  <2>2. l.root = r
    BY <1>0, <1>3, <1>5, <2>1 DEF Build
  <2> QED
    BY <1>1, <2>1, <2>2
<1>6. CASE Finish
  <2>1. /\ file.form = "json" => Usable(file.data.location) /\ Attached(file.data.location)
        /\ file.data.location \in Roots
    BY <1>0, <1>6, HomeAssumption DEF Apart, Named, PointsToLibrary, Usable, Finish, WorkerAlone,
      SessionAttached, TypeOK, SettingsTypes, Content
  <2>2. file.form = "json" /\ file.data.location = r
    BY <1>0, <1>2, <1>3, <1>6, <2>1 DEF Finish, WithDatabase
  <2> QED
    BY <1>1, <2>1, <2>2
<1>7. ~RemovePiece /\ ~RemoveDirectory /\ ~MakeRoot
  <2>1. ~RemovePiece
    BY SMTT(30), <1>0 DEF RemovePiece, Absent, TypeOK, DiskTypes, Directory
  <2>2. ~RemoveDirectory
    BY <1>0 DEF RemoveDirectory, Absent, TypeOK, DiskTypes, Directory
  <2>3. ~MakeRoot
    BY <1>0 DEF MakeRoot, TypeOK, DiskTypes, Directory
  <2> QED
    BY <2>1, <2>2, <2>3
<1>8. CASE Replace
  BY <1>0, <1>8 DEF Replace
<1>9. ASSUME NEW q \in Roots, Unplug(q) PROVE FALSE
  BY <1>0, <1>9 DEF Unplug, Absent, TypeOK, DiskTypes
<1>10. ASSUME NEW q \in Roots, Plug(q) PROVE FALSE
  BY <1>0, <1>10 DEF Plug, Absent, TypeOK, DiskTypes
<1> QED
  BY <1>0, <1>4, <1>5, <1>6, <1>7, <1>8, <1>9, <1>10
    DEF Next, Loading, HomeStep, Transition, BeginTransition, SaveStep, vars,
    Launch, ShowLibrary, StartLoad, Opened, Check, Superseded, Fail, Rebuild, Complete,
    BeginReset, BeginMove, Begin, BeginSelect, Copy, Goes, Adopt, AdoptRaises, Adopted,
    RemoveFails, SavePreference, OpenFile, WriteFile, Request, Skip, Stop

\* No step makes an empty library but where the application's own was never made
\* or the user has reset one: a load checks before it makes anything, and only a
\* missing default that nobody chose is new (AppContext.start_library_load).
THEOREM NothingResetImplicitly == Spec => NeverResetImplicitly
<1>1. ResetInv /\ [Next]_vars => [\A r \in Roots : Made(r) => r \in vacant \/ collided]_vars
  BY MadeWhereAllowed
<1> QED
  BY <1>1, ResetInit, ResetStep, PTL DEF Spec, NeverResetImplicitly
=============================================================================
