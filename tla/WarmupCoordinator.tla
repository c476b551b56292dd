-------------------------- MODULE WarmupCoordinator --------------------------
(***************************************************************************)
(* ArchiveWarmupCoordinator: one background extraction of a whole document *)
(* at a time, shared by the readers, detail pages and cover editors that   *)
(* want it.  Its methods run on the GUI thread; the extraction runs on a   *)
(* worker, which looks between two chunks whether anyone still wants it,   *)
(* and whose answer reaches the GUI thread as a queued signal.             *)
(*                                                                         *)
(* A job is a _WarmupState: its identity matters, because the coordinator  *)
(* may forget a job (reset) whose worker is still under way and be asked   *)
(* for the same document again.                                            *)
(***************************************************************************)
EXTENDS Integers, FiniteSets, Sequences

CONSTANTS
  Clients,      \* the views that want documents warmed
  Keys,         \* documents, each under one limits snapshot
  Library,      \* the documents of the managed library
  Jobs,         \* bound: _WarmupState objects at one time
  Chunks,       \* chunks of a document
  MaxResets     \* bound: changes of the cache strategy

ASSUME WarmupAssumption ==
  /\ Library \subseteq Keys /\ "none" \notin Keys
  /\ Jobs \subseteq Nat \ {0} /\ IsFiniteSet(Jobs)
  /\ Chunks \in Nat \ {0} /\ MaxResets \in Nat

VARIABLES
  states,       \* states[k]: the job of key k, or 0
  queue,        \* _queue
  active,       \* _active_key, or "none"
  retired,      \* _retired, or 0
  sealed,       \* _quiesced_storage_root is set
  job,          \* the jobs that are known or still in the executor
  resets

warmupVars == <<states, queue, active, retired, sealed, job, resets>>

NoJob == [phase |-> "none", clients |-> {}]
Free  == {j \in Jobs : job[j] = NoJob}
Ended == {"none", "ended", "failed"}          \* exited is set
InWorker(j) == job[j].phase \in {"running", "working"}

WarmupInit ==
  /\ states = [k \in Keys |-> 0] /\ queue = <<>>
  /\ active = "none" /\ retired = 0 /\ sealed = FALSE
  /\ job = [j \in Jobs |-> NoJob] /\ resets = 0

\* _is_wanted
Wanted(j) == states[job[j].key] = j /\ job[j].clients # {}

\* Jobs without the ones in S, none of which was ever given to the executor.
Dropped(jobs, S) == [j \in Jobs |-> IF j \in S THEN NoJob ELSE jobs[j]]
\* Jobs with the callbacks of those in S withdrawn.
Muted(jobs, S) == [j \in Jobs |-> IF j \in S THEN [jobs[j] EXCEPT !.clients = {}] ELSE jobs[j]]

(* _start_next, on the values the caller has already computed: the slot is *)
(* held by a forgotten worker that has not exited, or by the active job;   *)
(* otherwise the first key in the queue that is still wanted is submitted, *)
(* and the ones before it are forgotten.                                   *)
Held(jobs) == retired # 0 /\ jobs[retired].phase \notin Ended

StartNext(S, jobs, q, act) ==
  LET wanted == {i \in DOMAIN q : S[q[i]] # 0 /\ jobs[S[q[i]]].clients # {}}
      Passed(n) == {q[i] : i \in 1 .. n}
      Forget(n) == /\ states' = [k \in Keys |-> IF k \in Passed(n) THEN 0 ELSE S[k]]
                   /\ queue' = SubSeq(q, n + 1, Len(q))
      Gone(n) == {S[k] : k \in Passed(n)}
  IN
  /\ retired' = IF Held(jobs) THEN retired ELSE 0
  /\ IF Held(jobs) \/ act # "none"
     THEN states' = S /\ job' = jobs /\ queue' = q /\ active' = act
     ELSE IF wanted = {}
     THEN Forget(Len(q)) /\ job' = Dropped(jobs, Gone(Len(q))) /\ active' = "none"
     ELSE \E n \in wanted :
            /\ \A i \in wanted : n <= i
            /\ active' = q[n]
            /\ states' = [k \in Keys |-> IF k \in Passed(n - 1) THEN 0 ELSE S[k]]
            /\ queue' = SubSeq(q, n + 1, Len(q))
            /\ job' = [Dropped(jobs, Gone(n - 1)) EXCEPT ![S[q[n]]].phase = "submitted"]

------------------------------------------------------------------------------
(* The consumers                                                           *)

\* A view shows one document: it has released any other before it asks.
Shows(c, k) == \A n \in Keys \ {k} : states[n] # 0 => c \notin job[states[n]].clients
Fresh(k, c) == [key |-> k, clients |-> {c}, phase |-> "waiting", left |-> Chunks]

Acquire(c, k) ==
  /\ ~(sealed /\ k \in Library) /\ Shows(c, k)
  /\ IF states[k] # 0
     THEN StartNext(states, [job EXCEPT ![states[k]].clients = @ \cup {c}], queue, active)
     ELSE \E j \in Free :
            /\ \A i \in Free : j <= i
            /\ StartNext([states EXCEPT ![k] = j], [job EXCEPT ![j] = Fresh(k, c)],
                         Append(queue, k), active)
  /\ UNCHANGED <<sealed, resets>>

Known == {states[k] : k \in Keys} \ {0}

Release(c) ==
  /\ job' = [j \in Jobs |-> IF j \in Known THEN [job[j] EXCEPT !.clients = @ \ {c}] ELSE job[j]]
  /\ UNCHANGED <<states, queue, active, retired, sealed, resets>>

\* Mutant: the active job is dropped with the others.
InvalidateActive ==
  /\ states' = [k \in Keys |-> 0] /\ queue' = <<>> /\ active' = "none"
  /\ job' = Dropped(Muted(job, Known), {j \in Known : job[j].phase = "waiting"})
  /\ UNCHANGED <<retired, sealed, resets>>
\* invalidate: the limits changed.  The active job is muted but stays known.
Invalidate ==
  LET kept == IF active = "none" THEN 0 ELSE states[active] IN
  /\ states' = [k \in Keys |-> IF k = active THEN states[k] ELSE 0]
  /\ job' = Dropped(Muted(job, Known), Known \ {kept})
  /\ queue' = <<>>
  /\ UNCHANGED <<active, retired, sealed, resets>>

CloseAll ==
  /\ job' = Muted(job, Known)
  /\ UNCHANGED <<states, queue, active, retired, sealed, resets>>

(* quiesce_library and what the storage drain waits for.                   *)

LibraryJobs == {states[k] : k \in Library} \ {0}

\* Mutant: the library's jobs are forgotten instead of being muted.
QuiesceForgetting ==
  /\ states' = [k \in Keys |-> IF k \in Library THEN 0 ELSE states[k]]
  /\ job' = Dropped(Muted(job, LibraryJobs), {j \in LibraryJobs : job[j].phase = "waiting"})
  /\ sealed' = TRUE
  /\ UNCHANGED <<queue, active, retired, resets>>
QuiesceLibrary ==
  /\ sealed' = TRUE
  /\ job' = Muted(job, LibraryJobs)
  /\ UNCHANGED <<states, queue, active, retired, resets>>

ResumeLibrary ==
  /\ sealed' = FALSE
  /\ StartNext(states, job, queue, active)
  /\ UNCHANGED resets

\* pending_library_tasks
PendingLibrary ==
  {j \in LibraryJobs : job[j].phase # "waiting"} \cup
  {j \in Jobs : j = retired /\ job[j].phase \notin Ended /\ job[j].key \in Library}

\* reset, by replace_session_service when the cache strategy changes.
Reset ==
  LET current == IF active = "none" THEN 0 ELSE states[active] IN
  /\ resets < MaxResets
  /\ states' = [k \in Keys |-> 0] /\ queue' = <<>> /\ active' = "none"
  /\ retired' = IF current # 0 /\ InWorker(current) THEN current ELSE 0
  /\ job' = Dropped(job, {j \in Known : job[j].phase = "waiting"})
  /\ resets' = resets + 1
  /\ UNCHANGED sealed

------------------------------------------------------------------------------
(* The worker and its answer                                               *)

Advance(j, phases) == \E p \in phases : job' = [job EXCEPT ![j].phase = p]

Begin(j) == job[j].phase = "submitted" /\ Advance(j, {"running"})
\* Opening the archive may fail; a worker that is not wanted returns.
Chunk(j) ==
  /\ job[j].phase = "running"
  /\ IF Wanted(j)
     THEN \/ job' = [job EXCEPT ![j].phase = "working", ![j].left = @ - 1]
          \/ Advance(j, {"failed"})
     ELSE Advance(j, {"ended"})
ChunkDone(j) ==
  /\ job[j].phase = "working"
  /\ Advance(j, {"failed", IF job[j].left = 0 THEN "ended" ELSE "running"})

Work(j) ==
  /\ Begin(j) \/ Chunk(j) \/ ChunkDone(j)
  /\ UNCHANGED <<states, queue, active, retired, sealed, resets>>

\* Mutant: the slot is free, but the queue is not looked at.
ReportQuietly(j) ==
  LET k == job[j].key IN
  /\ job[j].phase \in {"ended", "failed"}
  /\ states' = [states EXCEPT ![k] = 0]
  /\ job' = Dropped(job, {j} \cup {i \in {states[k]} : i # 0 /\ job[i].phase = "waiting"})
  /\ active' = IF active = k THEN "none" ELSE active
  /\ retired' = IF retired = j THEN 0 ELSE retired
  /\ UNCHANGED <<queue, sealed, resets>>
\* _finish or _fail, which go by the key.  The callbacks change nothing here.
Report(j) ==
  LET k == job[j].key IN
  /\ job[j].phase \in {"ended", "failed"}
  /\ StartNext([states EXCEPT ![k] = 0],
               Dropped(job, {j} \cup {i \in {states[k]} : i # 0 /\ job[i].phase = "waiting"}),
               queue, IF active = k THEN "none" ELSE active)
  /\ UNCHANGED <<sealed, resets>>

------------------------------------------------------------------------------
Consumers == \/ \E c \in Clients : Release(c) \/ \E k \in Keys : Acquire(c, k)
             \/ Invalidate \/ CloseAll \/ Reset
Workers == \E j \in Jobs : Work(j) \/ Report(j)

WarmupNext == Consumers \/ QuiesceLibrary \/ ResumeLibrary \/ Workers
WarmupSpec == WarmupInit /\ [][WarmupNext]_warmupVars

\* Workers run to the end of what they do and queued signals are delivered.
WorkerFairness == \A j \in Jobs : WF_warmupVars(Work(j) \/ Report(j))
FairWarmup == WarmupSpec /\ WorkerFairness

------------------------------------------------------------------------------
(* Properties                                                              *)

Job == [key : Keys, clients : SUBSET Clients, left : 0 .. Chunks,
        phase : {"waiting", "submitted", "running", "working", "ended", "failed"}]

\* Every variable holds a value of its type.
WarmupTypeOK ==
  /\ states \in [Keys -> Jobs \cup {0}]
  /\ queue \in Seq(Keys)
  /\ active \in Keys \cup {"none"}
  /\ retired \in Jobs \cup {0}
  /\ sealed \in BOOLEAN
  /\ job \in [Jobs -> Job \cup {NoJob}]
  /\ resets \in 0 .. MaxResets

\* One whole-document extraction at a time: no two workers are writing pages.
SingleExtraction ==
  \A i, j \in Jobs : job[i].phase = "working" /\ job[j].phase = "working" => i = j

\* As long as the strategy has not been changed, that holds whatever is asked
\* for, released, invalidated or quiesced.
SingleUntilReset == resets = 0 => SingleExtraction

Waiting(k) == states[k] # 0 /\ job[states[k]].phase = "waiting"

\* A document that waits for its turn is given to a worker or dropped: it does
\* not wait for ever behind the others.
RequestServed == \A k \in Keys : Waiting(k) ~> ~Waiting(k)
=============================================================================
