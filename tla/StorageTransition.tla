-------------------------- MODULE StorageTransition --------------------------
(***************************************************************************)
(* Moving, selecting or resetting the library: StorageTransitionController *)
(* drives the application through flushing, draining, the disk phase on a  *)
(* thread of its own and the rebuild, while readers of external documents  *)
(* go on.  It is composed with WarmupCoordinator, whose library jobs the   *)
(* drain must wait for.  The library's other tasks are only counted.       *)
(***************************************************************************)
EXTENDS WarmupCoordinator

CONSTANTS
  Readers,         \* windows that read a book of the library
  MaxWork,         \* bound: other library tasks at one time
  RebuildMayFail   \* the rebuild after the disk phase may raise

ASSUME TransitionAssumption ==
  IsFiniteSet(Readers) /\ MaxWork \in Nat /\ RebuildMayFail \in BOOLEAN

VARIABLES
  phase,    \* _phase; the disk phase ends as "answered", its signal queued
  gate,     \* the library's TaskScopes are quiesced
  readers,  \* windows with an open document of the library
  progress, \* readers whose last save of the position is in the executor
  setting,  \* readers, closed ones too, whose settings are being saved
  pending,  \* those whose settings have changed again meanwhile
  work,     \* other library tasks in the executor
  lost,     \* readers the seal found open with a write it cancelled (history)
  gaveUp,   \* the flush went on because its time had passed (history)
  services  \* the services built on the storage root

readerVars == <<readers, progress, setting, pending, work>>
transitionVars == <<phase, gate, lost, gaveUp, services>>
vars == <<warmupVars, readerVars, transitionVars>>

Init ==
  /\ WarmupInit
  /\ phase = "idle" /\ gate = FALSE /\ services = "live"
  /\ readers = {} /\ progress = {} /\ setting = {} /\ pending = {} /\ work = 0
  /\ lost = {} /\ gaveUp = FALSE

------------------------------------------------------------------------------
(* Library readers and tasks                                               *)

(* The answer of a reader-open task: while the gate is on the task is      *)
(* refused or its answer withheld, and the window stays without a document. *)
(* Every reader is a new object; a name is used again once the last one's  *)
(* writes have ended.                                                      *)
Open(r) ==
  /\ ~gate /\ r \notin progress \cup setting
  /\ readers' = readers \cup {r}
  /\ UNCHANGED <<warmupVars, progress, setting, pending, work, transitionVars>>

\* Mutant: what was still to be saved goes with the window.
CloseForgetting(r) ==
  /\ r \in readers /\ work < MaxWork
  /\ readers' = readers \ {r} /\ work' = work + 1
  /\ setting' = setting \ {r}
  /\ UNCHANGED <<warmupVars, progress, pending, transitionVars>>
\* cancel: the save of the position is cancelled and unwinds, saves of settings
\* go on, and the document is closed by a task.
Close(r) ==
  /\ r \in readers /\ work < MaxWork
  /\ readers' = readers \ {r} /\ work' = work + 1
  /\ UNCHANGED <<warmupVars, progress, setting, pending, transitionVars>>

\* _save_progress, at every turn of the page: the save before this one, if it
\* has not ended, goes on beside it.
Turn(r) ==
  /\ r \in readers
  /\ IF r \in progress THEN work < MaxWork /\ work' = work + 1 ELSE UNCHANGED work
  /\ progress' = progress \cup {r}
  /\ UNCHANGED <<warmupVars, readers, setting, pending, transitionVars>>

ProgressSaved(r) ==
  /\ r \in progress /\ progress' = progress \ {r}
  /\ UNCHANGED <<warmupVars, readers, setting, pending, work, transitionVars>>

\* _persist_settings: saves of settings are one after the other.
Choose(r) ==
  /\ r \in readers
  /\ IF r \in setting THEN pending' = pending \cup {r} /\ UNCHANGED setting
     ELSE setting' = setting \cup {r} /\ UNCHANGED pending
  /\ UNCHANGED <<warmupVars, readers, progress, work, transitionVars>>

\* _handle_settings_save_finished, also for a reader closed meanwhile: a change
\* that came during the save is saved next, unless it was taken back.
SettingSaved(r) ==
  /\ r \in setting
  /\ \/ r \in pending /\ UNCHANGED setting
     \/ setting' = setting \ {r}
  /\ pending' = pending \ {r}
  /\ UNCHANGED <<warmupVars, readers, progress, work, transitionVars>>

StartTask ==
  /\ ~gate /\ work < MaxWork /\ work' = work + 1
  /\ UNCHANGED <<warmupVars, readers, progress, setting, pending, transitionVars>>

EndTask ==
  /\ work > 0 /\ work' = work - 1
  /\ UNCHANGED <<warmupVars, readers, progress, setting, pending, transitionVars>>

------------------------------------------------------------------------------
(* The transition                                                          *)

\* storage_transition_pending_tasks
Pending == work + Cardinality(progress) + Cardinality(setting) + Cardinality(PendingLibrary)

\* evaluate_drain said READY: commit_storage_transition, then the thread.
Migrate == phase' = "disk" /\ services' = "retired"

\* quiesce_for_storage_transition, then the readers close.  Tasks that were
\* cancelled still have to come back, but their answers are withheld: what
\* waited for one of them is not saved.
Quiesce ==
  /\ QuiesceLibrary
  /\ gate' = TRUE /\ readers' = {} /\ pending' = {}
  /\ lost' = readers \cap (progress \cup setting \cup pending)
  /\ UNCHANGED work
  /\ IF Pending' = 0 THEN Migrate ELSE phase' = "draining" /\ UNCHANGED services

\* Mutant: only the saves of positions are waited for.
PollFlushPositions(expired) ==
  IF progress \cap readers # {} /\ ~expired
  THEN phase' = "flushing" /\ UNCHANGED <<warmupVars, readerVars, gate, lost, gaveUp, services>>
  ELSE UNCHANGED <<progress, setting>> /\ Quiesce /\ gaveUp' = expired
\* _poll_flush: every open reader is asked again for what it is saving.
PollFlush(expired) ==
  LET due == (readers \cap pending) \ setting
      outstanding == readers \cap (progress \cup setting \cup due) IN
  /\ setting' = setting \cup due /\ UNCHANGED progress
  /\ IF outstanding # {} /\ ~expired
     THEN /\ phase' = "flushing" /\ pending' = pending \ due
          /\ UNCHANGED <<warmupVars, readers, work, gate, lost, gaveUp, services>>
     ELSE Quiesce /\ gaveUp' = expired

Start == phase = "idle" /\ PollFlush(FALSE)

\* Mutant: the library's warmups are not resumed.
ResumeTasksOnly ==
  /\ gate' = FALSE /\ phase' = "idle"
  /\ UNCHANGED <<warmupVars, readerVars, lost, gaveUp>>
\* abandon_ or resume_after_storage_transition.
Resume ==
  /\ gate' = FALSE /\ phase' = "idle"
  /\ ResumeLibrary
  /\ UNCHANGED <<readerVars, lost, gaveUp>>

\* Mutant: a drain is waited for as long as it takes.
PollDrainForever(expired) ==
  Pending = 0 /\ Migrate /\ UNCHANGED <<warmupVars, readerVars, gate, lost, gaveUp>>
PollDrain(expired) ==
  \/ Pending = 0 /\ Migrate /\ UNCHANGED <<warmupVars, readerVars, gate, lost, gaveUp>>
  \/ Pending > 0 /\ expired /\ Resume /\ UNCHANGED services

\* The timer.
Poll(expired) ==
  \/ phase = "flushing" /\ PollFlush(expired)
  \/ phase = "draining" /\ PollDrain(expired)

Disk ==
  /\ phase = "disk" /\ phase' = "answered"
  /\ UNCHANGED <<warmupVars, readerVars, gate, lost, gaveUp, services>>

\* _complete_storage_transition, _handle_storage_location_failed: rebuild,
\* resume and acknowledge, also when the rebuild raised.
Complete ==
  /\ phase = "answered"
  /\ services' \in {"live"} \cup (IF RebuildMayFail THEN {"retired"} ELSE {})
  /\ Resume

------------------------------------------------------------------------------
ReaderSteps == \/ \E r \in Readers :
                    Open(r) \/ Close(r) \/ Turn(r) \/ ProgressSaved(r) \/ Choose(r) \/ SettingSaved(r)
               \/ StartTask \/ EndTask
WarmupSteps == /\ Consumers \/ Workers
               /\ UNCHANGED <<readerVars, transitionVars>>
Transition  == Start \/ (\E expired \in BOOLEAN : Poll(expired)) \/ Disk \/ Complete

Next == ReaderSteps \/ WarmupSteps \/ Transition
Spec == Init /\ [][Next]_vars

\* The timer ticks until its time has passed; the disk phase returns, and its
\* signal is delivered.
Fairness == WF_vars(Poll(TRUE)) /\ WF_vars(Disk) /\ WF_vars(Complete)
FairSpec == Spec /\ Fairness

------------------------------------------------------------------------------
(* Properties                                                              *)

\* Every variable holds a value of its type, and settings wait only behind a save
\* of the same reader.
TypeOK ==
  /\ WarmupTypeOK
  /\ phase \in {"idle", "flushing", "draining", "disk", "answered"}
  /\ gate \in BOOLEAN /\ gaveUp \in BOOLEAN
  /\ readers \subseteq Readers /\ progress \subseteq Readers /\ lost \subseteq Readers
  /\ setting \subseteq Readers /\ pending \subseteq setting
  /\ work \in 0 .. MaxWork
  /\ services \in {"live", "retired"}

\* While the disk phase runs nothing of the library does: no reader, no task
\* and no warmup, not even one that was still waiting for a worker.
DiskPhaseAlone == phase = "disk" =>
  /\ work = 0 /\ progress = {} /\ setting = {} /\ readers = {}
  /\ \A j \in Jobs : job[j].phase \in {"submitted", "running", "working"} =>
                       job[j].key \notin Library

\* Warmups and tasks are sealed together, and as long as the library drains or
\* is replaced.  Whatever way a transition ends, both are open again, unless the
\* services around them could not be rebuilt.
SealedWhileRetiring ==
  /\ gate = sealed
  /\ phase \in {"draining", "disk", "answered"} => gate
  /\ gate => phase \in {"draining", "disk", "answered"} \/ services = "retired"

\* What the comment in _complete_storage_transition says: background work stays
\* sealed until the services around it have been rebuilt, including when the
\* rebuild itself failed.
SealedUntilRebuilt == services = "retired" => gate /\ sealed

\* A write of a reader that is open when the library is sealed, be it of its
\* position or of settings that wait behind others, is dropped only by a flush
\* that ran out of time.  (Nobody waits for the settings of a reader that was
\* closed before: the seal may cancel those at any time.)
WritesFlushed == lost # {} => gaveUp

\* A transition always comes to an end.
TransitionEnds == phase # "idle" ~> phase = "idle"
=============================================================================
