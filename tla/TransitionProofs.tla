--------------------------- MODULE TransitionProofs ---------------------------
(***************************************************************************)
(* Three promises of a storage transition for any number of readers,       *)
(* views, documents and tasks: tasks and warmups are sealed together, at   *)
(* least while the library drains or is replaced; no write of a reader     *)
(* still open is lost unless the flush ran out of time; and nothing of the *)
(* library runs beside the disk phase, as long as the cache strategy was   *)
(* not changed.                                                            *)
(* The types hold through changes of the strategy as well.                 *)
(***************************************************************************)
EXTENDS StorageTransition, WarmupProofs, FiniteSetTheorems, TLAPS

IInv == SealedWhileRetiring /\ WritesFlushed

Retiring(p) == p \in {"draining", "disk", "answered"}

\* What the readers, the tasks and the warmups do leaves the seals alone.
LEMMA OthersKeepSeals ==
  ASSUME ReaderSteps \/ WarmupSteps
  PROVE  UNCHANGED <<sealed, transitionVars>>
<1>1. ReaderSteps => UNCHANGED <<sealed, transitionVars>>
  BY DEF ReaderSteps, Open, Close, Turn, ProgressSaved, Choose, SettingSaved,
         StartTask, EndTask, warmupVars
<1>2. WarmupSteps => UNCHANGED transitionVars
  BY DEF WarmupSteps
<1>3. Consumers => UNCHANGED sealed
  <2>1. ASSUME NEW c \in Clients PROVE Release(c) => UNCHANGED sealed
    BY DEF Release
  <2>2. ASSUME NEW c \in Clients, NEW k \in Keys PROVE Acquire(c, k) => UNCHANGED sealed
    BY DEF Acquire
  <2>3. Invalidate \/ CloseAll \/ Reset => UNCHANGED sealed
    BY DEF Invalidate, CloseAll, Reset
  <2> QED
    BY <2>1, <2>2, <2>3 DEF Consumers
<1>4. Workers => UNCHANGED sealed
  BY DEF Workers, Work, Report
<1> QED
  BY <1>1, <1>2, <1>3, <1>4 DEF WarmupSteps

\* A quiesce seals both, and then the library drains or is replaced.
LEMMA QuiesceSeals ==
  ASSUME Quiesce
  PROVE  gate' /\ sealed' /\ gate' = sealed' /\ Retiring(phase')
<1>1. sealed' = TRUE /\ gate' = TRUE
  BY DEF Quiesce, QuiesceLibrary
<1>2. Retiring(phase')
  BY DEF Quiesce, Migrate, Retiring
<1> QED
  BY <1>1, <1>2

LEMMA ResumeUnseals ==
  ASSUME Resume
  PROVE  gate' = FALSE /\ sealed' = FALSE /\ phase' = "idle" /\ UNCHANGED <<lost, gaveUp>>
BY DEF Resume, ResumeLibrary

\* One poll of the flush, the first included.
LEMMA FlushKeeps ==
  ASSUME IInv, ~Retiring(phase), NEW expired \in BOOLEAN, PollFlush(expired)
  PROVE  IInv'
<1> DEFINE due == (readers \cap pending) \ setting
           Goes == readers \cap (progress \cup setting \cup due) # {} /\ ~expired
<1>1. CASE Goes
  <2>1. phase' = "flushing" /\ UNCHANGED <<warmupVars, gate, lost, gaveUp, services>>
    BY <1>1 DEF PollFlush
  <2>2. SealedWhileRetiring'
    BY <2>1 DEF IInv, SealedWhileRetiring, Retiring, warmupVars
  <2>3. WritesFlushed'
    BY <2>1 DEF IInv, WritesFlushed
  <2> QED
    BY <2>2, <2>3 DEF IInv
<1>2. CASE ~Goes
  <2>1. Quiesce /\ gaveUp' = expired
    BY <1>2 DEF PollFlush
  <2>2. SealedWhileRetiring'
    BY <2>1, QuiesceSeals DEF SealedWhileRetiring, Retiring
  <2>3. WritesFlushed'
    <3>1. lost' = readers \cap (progress \cup setting \cup pending)
      BY <2>1 DEF Quiesce
    <3>2. CASE expired
      BY <2>1, <3>2 DEF WritesFlushed
    <3>3. CASE ~expired
      <4>1. lost' = {}
        BY <1>2, <3>1, <3>3
      <4> QED
        BY <4>1 DEF WritesFlushed
    <3> QED
      BY <3>2, <3>3
  <2> QED
    BY <2>2, <2>3 DEF IInv
<1> QED
  BY <1>1, <1>2

\* A resume opens both and forgets no loss.
LEMMA ResumeKeeps ==
  ASSUME IInv, Resume
  PROVE  IInv'
<1>1. SealedWhileRetiring'
  BY ResumeUnseals DEF SealedWhileRetiring
<1>2. WritesFlushed'
  BY ResumeUnseals DEF IInv, WritesFlushed
<1> QED
  BY <1>1, <1>2 DEF IInv

\* Going from one phase of the retirement to the next leaves the seals on.
LEMMA RetiringKeeps ==
  ASSUME IInv, Retiring(phase), Retiring(phase'),
         UNCHANGED <<sealed, gate, lost, gaveUp>>
  PROVE  IInv'
BY DEF IInv, SealedWhileRetiring, WritesFlushed, Retiring

LEMMA Stepwise == IInv /\ [Next]_vars => IInv'
<1> SUFFICES ASSUME IInv, [Next]_vars PROVE IInv'
  OBVIOUS
<1>1. CASE ReaderSteps \/ WarmupSteps
  BY <1>1, OthersKeepSeals DEF IInv, SealedWhileRetiring, WritesFlushed, transitionVars
<1>2. CASE Start
  BY <1>2, FlushKeeps DEF Start, Retiring
<1>3. ASSUME NEW expired \in BOOLEAN, Poll(expired) PROVE IInv'
  <2>1. CASE phase = "flushing" /\ PollFlush(expired)
    BY <2>1, FlushKeeps DEF Retiring
  <2>2. CASE phase = "draining" /\ PollDrain(expired)
    <3>1. CASE Resume
      BY <3>1, ResumeKeeps
    <3>2. CASE Migrate /\ UNCHANGED <<warmupVars, readerVars, gate, lost, gaveUp>>
      BY <2>2, <3>2, RetiringKeeps DEF Migrate, Retiring, warmupVars
    <3> QED
      BY <2>2, <3>1, <3>2 DEF PollDrain
  <2> QED
    BY <1>3, <2>1, <2>2 DEF Poll
<1>4. CASE Disk
  BY <1>4, RetiringKeeps DEF Disk, Retiring, warmupVars
<1>5. CASE Complete
  BY <1>5, ResumeKeeps DEF Complete
<1>6. CASE UNCHANGED vars
  BY <1>6 DEF IInv, SealedWhileRetiring, WritesFlushed, vars, warmupVars, transitionVars
<1> QED
  BY <1>1, <1>2, <1>3, <1>4, <1>5, <1>6 DEF Next, Transition

LEMMA Initially == Init => IInv
BY DEF Init, WarmupInit, IInv, SealedWhileRetiring, WritesFlushed

\* AppContext.quiesce_, abandon_ and resume_after_storage_transition: task
\* scopes and warmups are sealed together, while the library drains or is
\* replaced, and at no other time if the services are those of the library.
THEOREM SealsComeInPairs == Spec => []SealedWhileRetiring
<1>1. IInv => SealedWhileRetiring
  BY DEF IInv
<1> QED
  BY <1>1, Initially, Stepwise, PTL DEF Spec

\* StorageTransitionController._poll_flush: what a reader that is open when the
\* library is sealed has written, or has waiting to be written, is dropped only
\* when the flush ran out of time.
THEOREM NoWriteLost == Spec => []WritesFlushed
<1>1. IInv => WritesFlushed
  BY DEF IInv
<1> QED
  BY <1>1, Initially, Stepwise, PTL DEF Spec

-------------------------------------------------------------------------------
(* The disk phase runs alone.                                              *)

\* The quiesce closes every reader, and none is opened behind it.
Still ==
  /\ work \in Nat /\ readers \subseteq Readers
  /\ progress \subseteq Readers /\ setting \subseteq Readers
  /\ gate => readers = {}

\* Nothing of the readers and the other tasks is in the executor.
Idle == work = 0 /\ progress = {} /\ setting = {}

\* The library's warmups are muted when they are sealed; when the disk phase
\* begins the drain has counted tasks, saves and warmups down to zero.
Quieted == resets = 0 => /\ sealed => Silent(states, job)
                         /\ phase = "disk" => Idle /\ Clear(job)

AloneInv == IInv /\ WarmupInv /\ Still /\ Quieted

LEMMA AloneEnough == AloneInv => (resets = 0 => DiskPhaseAlone)
<1> SUFFICES ASSUME AloneInv, resets = 0, phase = "disk"
             PROVE  /\ work = 0 /\ progress = {} /\ setting = {} /\ readers = {}
                    /\ \A j \in Jobs : job[j].phase \in {"submitted", "running", "working"} =>
                                         job[j].key \notin Library
  BY DEF DiskPhaseAlone
<1>1. work = 0 /\ progress = {} /\ setting = {} /\ readers = {}
  BY DEF AloneInv, IInv, SealedWhileRetiring, Still, Quieted, Idle
<1>2. Clear(job)
  BY DEF AloneInv, Quieted
<1> QED
  BY <1>1, <1>2 DEF Clear, Given

\* A sum of four counts is zero when each of them is.
LEMMA NothingCounted ==
  ASSUME NEW w \in Nat, NEW s \in SUBSET Readers, NEW t \in SUBSET Readers, NEW p \in SUBSET Jobs,
         w + Cardinality(s) + Cardinality(t) + Cardinality(p) = 0
  PROVE  w = 0 /\ s = {} /\ t = {} /\ p = {}
<1>1. IsFiniteSet(s) /\ IsFiniteSet(t) /\ IsFiniteSet(p)
  BY FS_Subset, WarmupAssumption, TransitionAssumption
<1>2. Cardinality(s) \in Nat /\ Cardinality(t) \in Nat /\ Cardinality(p) \in Nat
  BY <1>1, FS_CardinalityType
<1>3. w = 0 /\ Cardinality(s) = 0 /\ Cardinality(t) = 0 /\ Cardinality(p) = 0
  BY <1>2
<1> QED
  BY <1>1, <1>3, FS_EmptySet

\* Every step is one of the coordinator or leaves it alone.
LEMMA StepOfWarmups ==
  ASSUME [Next]_vars
  PROVE  [WarmupNext]_warmupVars
<1>1. ReaderSteps => UNCHANGED warmupVars
  BY DEF ReaderSteps, Open, Close, Turn, ProgressSaved, Choose, SettingSaved,
         StartTask, EndTask
<1>2. WarmupSteps => WarmupNext
  BY DEF WarmupSteps, WarmupNext
<1>3. ASSUME NEW expired \in BOOLEAN, PollFlush(expired) PROVE [WarmupNext]_warmupVars
  BY <1>3 DEF PollFlush, Quiesce, WarmupNext
<1>4. Resume => WarmupNext
  BY DEF Resume, WarmupNext
<1>5. ASSUME NEW expired \in BOOLEAN, PollDrain(expired) PROVE [WarmupNext]_warmupVars
  BY <1>4, <1>5 DEF PollDrain
<1>6. Start \/ (\E expired \in BOOLEAN : Poll(expired)) => [WarmupNext]_warmupVars
  BY <1>3, <1>5 DEF Start, Poll
<1>7. Disk => UNCHANGED warmupVars
  BY DEF Disk
<1>8. Complete => WarmupNext
  BY <1>4 DEF Complete
<1>9. UNCHANGED vars => UNCHANGED warmupVars
  BY DEF vars
<1> QED
  BY <1>1, <1>2, <1>6, <1>7, <1>8, <1>9 DEF Next, Transition

\* Readers and tasks start nothing behind the gate.
LEMMA ReadersKeepAlone ==
  ASSUME AloneInv, ReaderSteps
  PROVE  Still' /\ Quieted'
<1>1. UNCHANGED <<warmupVars, gate, phase>>
  BY DEF ReaderSteps, Open, Close, Turn, ProgressSaved, Choose, SettingSaved,
         StartTask, EndTask, transitionVars
<1>2. (phase = "disk" => gate) /\ Still
  BY DEF AloneInv, IInv, SealedWhileRetiring
<1> DEFINE Kept == Still' /\ (phase = "disk" /\ Idle => Idle')
<1>3. ASSUME NEW r \in Readers, Open(r) PROVE Kept
  BY <1>1, <1>2, <1>3 DEF Still, Idle, Open
<1>4. ASSUME NEW r \in Readers, Close(r) PROVE Kept
  BY <1>1, <1>2, <1>4 DEF Still, Idle, Close
<1>5. ASSUME NEW r \in Readers, Turn(r) PROVE Kept
  BY <1>1, <1>2, <1>5 DEF Still, Idle, Turn
<1>6. ASSUME NEW r \in Readers, Choose(r) PROVE Kept
  BY <1>1, <1>2, <1>6 DEF Still, Idle, Choose
<1>7. ASSUME NEW r \in Readers, ProgressSaved(r) \/ SettingSaved(r) PROVE Kept
  BY <1>1, <1>2, <1>7 DEF Still, Idle, ProgressSaved, SettingSaved
<1>8. StartTask => Kept
  BY <1>1, <1>2 DEF Still, Idle, StartTask
<1>9. EndTask => Kept
  BY <1>1, <1>2 DEF Still, Idle, EndTask
<1>10. Kept
  BY <1>3, <1>4, <1>5, <1>6, <1>7, <1>8, <1>9 DEF ReaderSteps
<1>11. Quieted'
  BY <1>1, <1>10 DEF AloneInv, Quieted, warmupVars
<1> QED
  BY <1>10, <1>11

\* Warmups of other documents go on; those of the library get no worker.
LEMMA WarmupsKeepAlone ==
  ASSUME AloneInv, WarmupSteps
  PROVE  Still' /\ Quieted'
<1>1. UNCHANGED <<readerVars, transitionVars, sealed>> /\ (Consumers \/ Workers)
  BY OthersKeepSeals DEF WarmupSteps
<1>2. Still'
  BY <1>1 DEF AloneInv, Still, readerVars, transitionVars
<1>3. [WarmupNext]_warmupVars
  BY <1>1 DEF WarmupNext
<1>4. ASSUME resets' = 0 PROVE resets = 0 /\ InOrder
  BY <1>3, <1>4, ResetsGrow DEF AloneInv, WarmupInv, InOrder
<1>5. ASSUME resets' = 0, sealed PROVE Silent(states', job') /\ (Clear(job) => Clear(job'))
  <2>1. InOrder /\ Silent(states, job)
    BY <1>4, <1>5 DEF AloneInv, Quieted
  <2> QED
    BY <1>1, <1>5, <2>1, QuietStep
<1>6. phase = "disk" => sealed
  BY DEF AloneInv, IInv, SealedWhileRetiring
<1>7. Quieted'
  BY <1>1, <1>4, <1>5, <1>6 DEF AloneInv, Quieted, Idle, readerVars, transitionVars
<1> QED
  BY <1>2, <1>7

\* What the drain counts in a given state; at zero the library has nothing.
LEMMA DrainedIsClear ==
  ASSUME NEW w \in Nat, NEW s \in SUBSET Readers, NEW t \in SUBSET Readers, NEW p \in SUBSET Jobs,
         w + Cardinality(s) + Cardinality(t) + Cardinality(p) = 0,
         NEW S, NEW jobs, NEW act, Good(S, jobs, act),
         \A k \in Library : S[k] # 0 /\ jobs[S[k]].phase # "waiting" => S[k] \in p
  PROVE  w = 0 /\ s = {} /\ t = {} /\ Clear(jobs)
<1>1. w = 0 /\ s = {} /\ t = {} /\ p = {}
  BY NothingCounted
<1>2. \A k \in Library : S[k] # 0 => jobs[S[k]].phase = "waiting"
  BY <1>1
<1>3. Clear(jobs)
  BY <1>2, ClearWhenDrained
<1> QED
  BY <1>1, <1>3

\* The flush is over: everything is sealed, and perhaps nothing is left.
LEMMA FlushKeepsAlone ==
  ASSUME AloneInv, ~Retiring(phase), NEW expired \in BOOLEAN, PollFlush(expired)
  PROVE  Still' /\ Quieted'
<1> DEFINE due == (readers \cap pending) \ setting
           Goes == readers \cap (progress \cup setting \cup due) # {} /\ ~expired
<1>1. setting' = setting \cup due /\ progress' = progress /\ work' = work
  BY DEF PollFlush, Quiesce
<1>2. setting' \in SUBSET Readers /\ progress' \in SUBSET Readers /\ work' \in Nat /\ Still
  BY <1>1 DEF AloneInv, Still
<1>3. CASE Goes
  <2>1. phase' = "flushing" /\ UNCHANGED <<warmupVars, readers, gate>>
    BY <1>3 DEF PollFlush
  <2> QED
    BY <1>2, <2>1 DEF AloneInv, Still, Quieted, warmupVars
<1>4. CASE ~Goes
  <2>1. Quiesce
    BY <1>4 DEF PollFlush
  <2>2. Still'
    BY <1>2, <2>1 DEF Still, Quiesce
  <2>3. QuiesceLibrary /\ (phase' = "disk" => Pending' = 0)
    BY <2>1 DEF Quiesce, Migrate
  <2>4. ASSUME resets' = 0 PROVE Silent(states', job') /\ Good(states', job', active')
    <3>1. InOrder
      BY <2>3, <2>4 DEF AloneInv, WarmupInv, InOrder, QuiesceLibrary
    <3> QED
      BY <2>3, <3>1, QuiesceQuiet
  <2>5. ASSUME resets' = 0, phase' = "disk" PROVE Idle' /\ Clear(job')
    <3>1. work' + Cardinality(progress') + Cardinality(setting') + Cardinality(PendingLibrary') = 0
      BY <2>3, <2>5 DEF Pending
    <3>2. /\ PendingLibrary' \in SUBSET Jobs
          /\ \A k \in Library : states'[k] # 0 /\ job'[states'[k]].phase # "waiting"
                                  => states'[k] \in PendingLibrary'
      BY <2>4, <2>5, WarmupAssumption DEF PendingLibrary, LibraryJobs, Good
    <3>3. Good(states', job', active')
      BY <2>4, <2>5
    <3> HIDE DEF PendingLibrary
    <3> QED
      BY <1>2, <3>1, <3>2, <3>3, DrainedIsClear DEF Idle
  <2> QED
    BY <2>2, <2>4, <2>5 DEF Quieted
<1> QED
  BY <1>3, <1>4

\* The drain is over.
LEMMA DrainKeepsAlone ==
  ASSUME AloneInv, phase = "draining", Pending = 0, Migrate,
         UNCHANGED <<warmupVars, readerVars, gate, lost, gaveUp>>
  PROVE  Still' /\ Quieted'
<1>1. Still' /\ work \in Nat /\ progress \in SUBSET Readers /\ setting \in SUBSET Readers
  BY DEF AloneInv, Still, readerVars
<1>2. ASSUME resets = 0
      PROVE  (sealed => Silent(states, job)) /\ Idle /\ Clear(job)
  <2>1. Good(states, job, active) /\ (sealed => Silent(states, job))
    BY <1>2 DEF AloneInv, WarmupInv, Quieted
  <2>2. work + Cardinality(progress) + Cardinality(setting) + Cardinality(PendingLibrary) = 0
    BY DEF Pending
  <2>3. /\ PendingLibrary \in SUBSET Jobs
        /\ \A k \in Library : states[k] # 0 /\ job[states[k]].phase # "waiting"
                                => states[k] \in PendingLibrary
    BY <2>1, WarmupAssumption DEF PendingLibrary, LibraryJobs, Good
  <2> QED
    BY <1>1, <2>1, <2>2, <2>3, DrainedIsClear DEF Idle
<1>3. Quieted'
  BY <1>2 DEF Quieted, Idle, warmupVars, readerVars
<1> QED
  BY <1>1, <1>3

LEMMA ResumeKeepsAlone ==
  ASSUME AloneInv, Resume
  PROVE  Still' /\ Quieted'
<1>1. gate' = FALSE /\ sealed' = FALSE /\ phase' = "idle" /\ UNCHANGED readerVars
  BY ResumeUnseals DEF Resume
<1> QED
  BY <1>1 DEF AloneInv, Still, Quieted, readerVars

LEMMA AloneStepwise == AloneInv /\ [Next]_vars => AloneInv'
<1> SUFFICES ASSUME AloneInv, [Next]_vars PROVE AloneInv'
  OBVIOUS
<1>1. IInv'
  BY Stepwise DEF AloneInv
<1>2. WarmupInv'
  BY StepOfWarmups, WarmupStepwise DEF AloneInv
<1>3. CASE ReaderSteps
  BY <1>1, <1>2, <1>3, ReadersKeepAlone DEF AloneInv
<1>4. CASE WarmupSteps
  BY <1>1, <1>2, <1>4, WarmupsKeepAlone DEF AloneInv
<1>5. CASE Start
  BY <1>1, <1>2, <1>5, FlushKeepsAlone DEF AloneInv, Start, Retiring
<1>6. ASSUME NEW expired \in BOOLEAN, Poll(expired) PROVE AloneInv'
  <2>1. CASE phase = "flushing" /\ PollFlush(expired)
    BY <1>1, <1>2, <2>1, FlushKeepsAlone DEF AloneInv, Retiring
  <2>2. CASE phase = "draining" /\ PollDrain(expired)
    <3>1. CASE Resume
      BY <1>1, <1>2, <3>1, ResumeKeepsAlone DEF AloneInv
    <3>2. CASE Pending = 0 /\ Migrate /\ UNCHANGED <<warmupVars, readerVars, gate, lost, gaveUp>>
      BY <1>1, <1>2, <2>2, <3>2, DrainKeepsAlone DEF AloneInv
    <3> QED
      BY <2>2, <3>1, <3>2 DEF PollDrain
  <2> QED
    BY <1>6, <2>1, <2>2 DEF Poll
<1>7. CASE Disk
  <2>1. phase' = "answered" /\ UNCHANGED <<warmupVars, readerVars, gate>>
    BY <1>7 DEF Disk
  <2>2. Still' /\ Quieted'
    BY <2>1 DEF AloneInv, Still, Quieted, warmupVars, readerVars
  <2> QED
    BY <1>1, <1>2, <2>2 DEF AloneInv
<1>8. CASE Complete
  BY <1>1, <1>2, <1>8, ResumeKeepsAlone DEF AloneInv, Complete
<1>9. CASE UNCHANGED vars
  <2>1. Still' /\ Quieted'
    BY <1>9 DEF AloneInv, Still, Quieted, Idle, vars, warmupVars, readerVars, transitionVars
  <2> QED
    BY <1>1, <1>2, <2>1 DEF AloneInv
<1> QED
  BY <1>3, <1>4, <1>5, <1>6, <1>7, <1>8, <1>9 DEF Next, Transition

LEMMA AloneInitially == Init => AloneInv
<1> SUFFICES ASSUME Init PROVE AloneInv
  OBVIOUS
<1>1. IInv /\ WarmupInv
  BY Initially, WarmupStarts DEF Init
<1>2. Still /\ Quieted
  BY DEF Init, WarmupInit, Still, Quieted
<1> QED
  BY <1>1, <1>2 DEF AloneInv

\* evaluate_drain, pending_library_tasks and the seals: as long as the cache
\* strategy has not been changed, nothing of the library runs beside the disk
\* phase, whatever readers, tasks and warmups were under way when it was asked
\* for, and whether the flush ran out of time or not.
THEOREM AloneOnDisk == Spec => [](resets = 0 => DiskPhaseAlone)
<1> QED
  BY AloneInitially, AloneStepwise, AloneEnough, PTL DEF Spec

-------------------------------------------------------------------------------
(* The types, through resets of the warmups and through every poll.        *)

DriverOK ==
  /\ phase \in {"idle", "flushing", "draining", "disk", "answered"}
  /\ gate \in BOOLEAN /\ gaveUp \in BOOLEAN
  /\ readers \subseteq Readers /\ progress \subseteq Readers /\ lost \subseteq Readers
  /\ setting \subseteq Readers /\ pending \subseteq setting
  /\ work \in 0 .. MaxWork
  /\ services \in {"live", "retired"}

\* A poll of the flush closes every reader or leaves them as they are.
LEMMA FlushTyped ==
  ASSUME DriverOK, NEW expired \in BOOLEAN, PollFlush(expired)
  PROVE  DriverOK'
<1> DEFINE due == (readers \cap pending) \ setting
           Goes == readers \cap (progress \cup setting \cup due) # {} /\ ~expired
<1>1. CASE Goes
  <2>1. /\ phase' = "flushing" /\ setting' = setting \cup due /\ pending' = pending \ due
        /\ UNCHANGED <<readers, progress, work, gate, lost, gaveUp, services>>
    BY <1>1 DEF PollFlush
  <2> QED
    BY <2>1 DEF DriverOK
<1>2. CASE ~Goes
  <2>1. Quiesce /\ gaveUp' = expired /\ setting' = setting \cup due /\ UNCHANGED progress
    BY <1>2 DEF PollFlush
  <2>2. /\ gate' = TRUE /\ readers' = {} /\ pending' = {} /\ lost' \subseteq readers
        /\ phase' \in {"disk", "draining"} /\ services' \in {"retired", services}
        /\ UNCHANGED work
    BY <2>1 DEF Quiesce, Migrate
  <2>3. gate' \in BOOLEAN /\ gaveUp' \in BOOLEAN
    BY <2>1, <2>2
  <2>4. /\ setting' \subseteq Readers /\ lost' \subseteq Readers /\ readers' \subseteq Readers
        /\ pending' \subseteq setting'
    BY <2>1, <2>2 DEF DriverOK
  <2> QED
    BY <2>1, <2>2, <2>3, <2>4 DEF DriverOK
<1> QED
  BY <1>1, <1>2

\* Every step keeps the types of the driver and of the readers.
LEMMA DriverTyped ==
  ASSUME DriverOK, [Next]_vars
  PROVE  DriverOK'
<1>1. CASE ReaderSteps
  <2> DEFINE Typed == /\ readers' \subseteq Readers /\ progress' \subseteq Readers
                      /\ setting' \subseteq Readers /\ pending' \subseteq setting'
                      /\ work' \in 0 .. MaxWork /\ UNCHANGED transitionVars
  <2>1. ASSUME NEW r \in Readers, Open(r) \/ Close(r) PROVE Typed
    BY <2>1, TransitionAssumption DEF DriverOK, Open, Close
  <2>2. ASSUME NEW r \in Readers, Turn(r) \/ ProgressSaved(r) PROVE Typed
    BY <2>2, TransitionAssumption DEF DriverOK, Turn, ProgressSaved
  <2>3. ASSUME NEW r \in Readers, Choose(r) \/ SettingSaved(r) PROVE Typed
    BY <2>3, TransitionAssumption DEF DriverOK, Choose, SettingSaved
  <2>4. StartTask \/ EndTask => Typed
    BY TransitionAssumption DEF DriverOK, StartTask, EndTask
  <2>5. Typed
    BY <1>1, <2>1, <2>2, <2>3, <2>4 DEF ReaderSteps
  <2> QED
    BY <2>5 DEF DriverOK, transitionVars
<1>2. CASE WarmupSteps
  BY <1>2 DEF WarmupSteps, DriverOK, readerVars, transitionVars
<1>3. CASE Start
  BY <1>3, FlushTyped DEF Start
<1>4. Resume /\ services' \in {"live", "retired"} => DriverOK'
  BY DEF Resume, DriverOK, readerVars
<1>5. ASSUME NEW expired \in BOOLEAN, Poll(expired) PROVE DriverOK'
  <2>1. CASE PollFlush(expired)
    BY <2>1, FlushTyped
  <2>2. CASE PollDrain(expired)
    <3>1. CASE Migrate /\ UNCHANGED <<warmupVars, readerVars, gate, lost, gaveUp>>
      BY <3>1 DEF Migrate, DriverOK, readerVars
    <3>2. CASE Resume /\ UNCHANGED services
      BY <1>4, <3>2 DEF DriverOK
    <3> QED
      BY <2>2, <3>1, <3>2 DEF PollDrain
  <2> QED
    BY <1>5, <2>1, <2>2 DEF Poll
<1>6. CASE Disk
  BY <1>6 DEF Disk, DriverOK, readerVars
<1>7. CASE Complete
  BY <1>4, <1>7 DEF Complete
<1>8. CASE UNCHANGED vars
  BY <1>8 DEF vars, DriverOK, readerVars, transitionVars
<1> QED
  BY <1>1, <1>2, <1>3, <1>5, <1>6, <1>7, <1>8 DEF Next, Transition

\* Driver, readers, tasks and warmups keep their types, through resets of the
\* warmups, drains that time out and rebuilds that raise.
THEOREM TransitionTypes == Spec => []TypeOK
<1>1. Init => TablesInv /\ DriverOK
  <2>1. Init => TablesInv
    BY TablesBegin DEF Init
  <2>2. Init => gate \in BOOLEAN /\ gaveUp \in BOOLEAN
    BY Zenon DEF Init
  <2>3. Init => work = 0 /\ work \in 0 .. MaxWork
    BY TransitionAssumption DEF Init
  <2>4. Init => /\ phase = "idle" /\ services = "live"
                /\ readers = {} /\ progress = {} /\ setting = {} /\ pending = {} /\ lost = {}
    BY DEF Init
  <2> QED
    BY <2>1, <2>2, <2>3, <2>4 DEF DriverOK
<1>2. (TablesInv /\ DriverOK) /\ [Next]_vars => (TablesInv /\ DriverOK)'
  BY StepOfWarmups, TablesStepwise, DriverTyped
<1>3. TablesInv /\ DriverOK => TypeOK
  BY TablesTyped DEF DriverOK, TypeOK
<1> QED
  BY <1>1, <1>2, <1>3, PTL DEF Spec
=============================================================================
