---------------------------- MODULE PageScheduler ----------------------------
(***************************************************************************)
(* ReaderPageScheduler, the GUI-thread admission gate of random-access    *)
(* pages, and the part of its executor (TaskService) it relies on: a      *)
(* submitted task is run or dropped by a worker, its answer reaches the   *)
(* GUI thread as a queued signal, and its finished signal follows.        *)
(*                                                                         *)
(* An owner is a reader's body or its thumbnail strip; the owners of one  *)
(* reader share a group.  An attempt that waits is only a priority in     *)
(* want; one that was admitted is a task, which may outlive its demand.   *)
(***************************************************************************)
EXTENDS DictOrder

CONSTANTS
  Owners,       \* clients of the scheduler
  Thumbs,       \* the owners that ask for thumbnails
  Group,        \* Group[o]: the reader an owner belongs to
  Executors,    \* the library scope and the unscoped service
  Exec,         \* Exec[o]: the executor an owner submits to
  Sealable,     \* the executors that are ever sealed: the library scope
  Keys,         \* pages
  Prios,        \* priorities, larger is more urgent
  Capacity, PerReader,
  Ids           \* bound: tasks in the executor at one time

ASSUME SchedulerAssumption ==
  /\ Thumbs \subseteq Owners
  /\ Exec \in [Owners -> Executors] /\ Sealable \subseteq Executors
  /\ Prios \subseteq Nat \ {0} /\ Prios # {}
  /\ Capacity \in Nat \ {0} /\ PerReader \in 1 .. Capacity
  /\ Ids \subseteq Nat /\ IsFiniteSet(Ids) /\ Cardinality(Ids) > Capacity

VARIABLES
  order,        \* the keys of _owners, in their order
  want,         \* want[o][k]: priority of the attempt waiting for k, or 0
  task,         \* the attempts the executor has been given
  lastOwner,    \* _last_owner
  pumping,      \* _pumping
  closed,       \* _closed
  sealed        \* _sealed

vars == <<order, want, task, lastOwner, pumping, closed, sealed>>

NoTask   == [phase |-> "none"]
ThumbSlots == IF Capacity < 2 THEN Capacity ELSE 2
Reject(o) == closed \/ Exec[o] \in sealed

InFlight  == {i \in Ids : task[i] # NoTask}
Active    == {i \in InFlight : task[i].held}              \* _active
ActiveOf(g) == {i \in Active : Group[task[i].owner] = g}
Live(o)   == {i \in InFlight : task[i].live /\ task[i].owner = o}
Waiting(o) == {k \in Keys : want[o][k] > 0}
HasJobs(o) == Waiting(o) # {} \/ Live(o) # {}

Init ==
  /\ order = Empty(Owners)
  /\ want = [o \in Owners |-> [k \in Keys |-> 0]]
  /\ task = [i \in Ids |-> NoTask]
  /\ lastOwner = [p \in Prios |-> "none"]
  /\ pumping = FALSE /\ closed = FALSE /\ sealed = {}

------------------------------------------------------------------------------
(* _next: among the owners with something they may dispatch, the most     *)
(* urgent priority; equal owners in dict order after the last one served. *)

BodyWaiting == \E o \in Owners \ Thumbs : Waiting(o) # {} /\ Exec[o] \notin sealed
ThumbsActive == {i \in Active : task[i].owner \in Thumbs}

Candidate(o) ==
  /\ Waiting(o) # {} /\ Exec[o] \notin sealed
  /\ Cardinality(ActiveOf(Group[o])) < PerReader
  /\ o \in Thumbs => ~BodyWaiting /\ Cardinality(ThumbsActive) < ThumbSlots

Candidates == {o \in Owners : Candidate(o)}
Urgency(o) == CHOOSE p \in Prios : /\ \E k \in Keys : want[o][k] = p
                                   /\ \A k \in Keys : want[o][k] <= p
TopPriority == CHOOSE p \in {Urgency(o) : o \in Candidates} :
                 \A o \in Candidates : Urgency(o) <= p

\* How far o is from the owner served last at p, in dict order and round.
Served(p) == IF lastOwner[p] \in Listed(order) THEN Place(order, lastOwner[p]) ELSE 0
\* Mutant: every dispatch starts again from the first owner.
UnrotatedTurn(o, p) == Place(order, o)
Turn(o, p) == (Place(order, o) - Served(p) - 1) % Cardinality(Listed(order))

IsNext(o, p) ==
  /\ o \in Candidates /\ Urgency(o) = p
  /\ \A q \in Candidates : Urgency(q) = p => Turn(o, p) <= Turn(q, p)

(* _finished, given the tasks without the finished one.  The owner's place *)
(* is kept until its last active attempt finishes.                         *)
PlaceAfter(o, tasks) ==
  IF Waiting(o) # {} \/ \E i \in Ids : tasks[i] # NoTask /\ tasks[i].owner = o
                                     /\ (tasks[i].live \/ tasks[i].held)
  THEN order ELSE Without(order, {o})

\* One turn of the loop of _pump.  The executor may refuse the task (it is
\* quiesced, or submit raises): demand and slot are given back at once.
PumpStep ==
  LET p == TopPriority IN
  /\ pumping
  /\ Cardinality(Active) < Capacity /\ Candidates # {}
  /\ \E o \in Owners : \E k \in Waiting(o) :
       /\ IsNext(o, p) /\ want[o][k] = p
       /\ lastOwner' = [lastOwner EXCEPT ![p] = o]
       /\ want' = [want EXCEPT ![o][k] = 0]
       /\ \/ /\ \E i \in Ids \ InFlight :
                  /\ \A j \in Ids \ InFlight : i <= j
                  /\ task' = [task EXCEPT ![i] =
                       [phase |-> "queued", owner |-> o, key |-> k,
                        live |-> TRUE, held |-> TRUE, cancelled |-> FALSE]]
             /\ UNCHANGED order
          \/ /\ order' = IF Waiting(o) = {k} /\ \A i \in Active : task[i].owner # o
                         THEN Without(order, {o}) ELSE order
             /\ UNCHANGED task
  /\ UNCHANGED <<pumping, closed, sealed>>

\* The loop ends: every slot is taken, or nothing may be dispatched.
PumpEnd ==
  /\ pumping
  /\ Cardinality(Active) >= Capacity \/ Candidates = {}
  /\ pumping' = FALSE
  /\ UNCHANGED <<order, want, task, lastOwner, closed, sealed>>

------------------------------------------------------------------------------
(* The callers: they replace their whole demand, or withdraw it.           *)

\* Mutant: a retired attempt gives its slot back at once.
RetiredFreed(tasks, S) ==
  [i \in Ids |-> IF i \in S
     THEN [tasks[i] EXCEPT !.live = FALSE, !.cancelled = TRUE, !.held = FALSE]
     ELSE tasks[i]]
\* _retire: the attempts in S lose their demand; their slots stay taken.
Retired(tasks, S) ==
  [i \in Ids |-> IF i \in S
     THEN [tasks[i] EXCEPT !.live = FALSE, !.cancelled = TRUE] ELSE tasks[i]]

CancelOwners(O) ==
  /\ want' = [o \in Owners |-> IF o \in O THEN [k \in Keys |-> 0] ELSE want[o]]
  /\ task' = Retired(task, UNION {Live(o) : o \in O})
  /\ order' = Without(order, O)

Cancel(o) ==
  /\ ~pumping
  /\ CancelOwners({o})
  /\ pumping' = ~closed
  /\ UNCHANGED <<lastOwner, closed, sealed>>

\* Mutant: a page already being prepared is asked for again.
ReplaceAgain(o, demand) ==
  /\ ~pumping /\ ~Reject(o)
  /\ want' = [want EXCEPT ![o] = demand]
  /\ task' = Retired(task, {i \in Live(o) : demand[task[i].key] = 0})
  /\ order' = IF \A k \in Keys : demand[k] = 0 THEN Without(order, {o})
              ELSE WithLast(order, o)
  /\ pumping' = TRUE
  /\ UNCHANGED <<lastOwner, closed, sealed>>
\* An attempt in the executor that is still asked for is kept as it is.
Replace(o, demand) ==
  LET kept == {i \in Live(o) : demand[task[i].key] > 0} IN
  /\ ~pumping
  /\ IF Reject(o) THEN CancelOwners({o})
     ELSE /\ want' = [want EXCEPT ![o] = [k \in Keys |->
                        IF \E i \in kept : task[i].key = k THEN 0 ELSE demand[k]]]
          /\ task' = Retired(task, Live(o) \ kept)
          /\ order' = IF \A k \in Keys : demand[k] = 0 THEN Without(order, {o})
                      ELSE WithLast(order, o)
  /\ pumping' = ~closed
  /\ UNCHANGED <<lastOwner, closed, sealed>>

\* quiesce, which ReaderRuntime.quiesce_library_pages follows by the scope's own.
Quiesce(e) ==
  LET O == {o \in Owners : Exec[o] = e /\ HasJobs(o)} IN
  /\ ~pumping
  /\ sealed' = sealed \cup {e}
  /\ CancelOwners(O)
  /\ pumping' = (O # {} /\ ~closed)
  /\ UNCHANGED <<lastOwner, closed>>

Resume(e) ==
  /\ ~pumping /\ e \in sealed
  /\ sealed' = sealed \ {e}
  /\ UNCHANGED <<order, want, task, lastOwner, pumping, closed>>

Close ==
  /\ ~pumping /\ ~closed
  /\ closed' = TRUE
  /\ CancelOwners(Owners)
  /\ lastOwner' = [p \in Prios |-> "none"]
  /\ UNCHANGED <<pumping, sealed>>

------------------------------------------------------------------------------
(* The executor.  A worker runs the task or, finding it cancelled, drops   *)
(* it; a preparation may also come back with nothing.                      *)

Work(i) ==
  /\ i \in InFlight /\ task[i].phase = "queued"
  /\ \E p \in IF task[i].cancelled THEN {"ending"} ELSE {"page", "nothing"} :
       task' = [task EXCEPT ![i].phase = p]
  /\ UNCHANGED <<order, want, lastOwner, pumping, closed, sealed>>

\* The answer's signal: _ready or _failed for a page still wanted; nothing
\* for one that came back empty or was cancelled meanwhile.
Answer(i) ==
  /\ ~pumping
  /\ i \in InFlight /\ task[i].phase \in {"page", "nothing"}
  /\ task' = [task EXCEPT ![i].phase = "ending",
                          ![i].live = @ /\ task[i].phase = "nothing"]
  /\ UNCHANGED <<order, want, lastOwner, pumping, closed, sealed>>

\* Mutant: the finished callback does not look for more work.
FinishedQuietly(i) ==
  /\ ~pumping
  /\ i \in InFlight /\ task[i].phase = "ending"
  /\ task' = [task EXCEPT ![i] = NoTask]
  /\ order' = PlaceAfter(task[i].owner, task')
  /\ UNCHANGED <<want, lastOwner, pumping, closed, sealed>>
\* Mutant: the record of a finished task is not cleared.
FinishedUncleared(i) ==
  /\ ~pumping
  /\ i \in InFlight /\ task[i].phase = "ending"
  /\ task' = [task EXCEPT ![i].phase = "none"]
  /\ pumping' = ~closed
  /\ UNCHANGED <<order, want, lastOwner, closed, sealed>>
\* Mutant: the slot of a task that was cancelled is never given back.
FinishedUncancelled(i) ==
  /\ ~pumping
  /\ i \in InFlight /\ task[i].phase = "ending" /\ ~task[i].cancelled
  /\ task' = [task EXCEPT ![i] = NoTask]
  /\ order' = PlaceAfter(task[i].owner, task')
  /\ pumping' = (task[i].held /\ ~closed)
  /\ UNCHANGED <<want, lastOwner, closed, sealed>>
\* The finished signal: the slot is free, whatever became of the demand.
Finished(i) ==
  /\ ~pumping
  /\ i \in InFlight /\ task[i].phase = "ending"
  /\ task' = [task EXCEPT ![i] = NoTask]
  /\ order' = IF task[i].held THEN PlaceAfter(task[i].owner, task') ELSE order
  /\ pumping' = (task[i].held /\ ~closed)
  /\ UNCHANGED <<want, lastOwner, closed, sealed>>

------------------------------------------------------------------------------
Demands == [Keys -> Prios \cup {0}]

Pump   == PumpStep \/ PumpEnd
Caller == \/ \E o \in Owners : Cancel(o) \/ \E demand \in Demands : Replace(o, demand)
          \/ \E e \in Sealable : Quiesce(e) \/ Resume(e)
          \/ Close
Goes(i) == Work(i) \/ Answer(i) \/ Finished(i)
Executor == \E i \in Ids : Goes(i)

Next == Pump \/ Caller \/ Executor

Spec == Init /\ [][Next]_vars

(* Workers finish what they run, and a loop of the GUI thread runs to its *)
(* end.  Qt delivers posted signals in order between the other events of  *)
(* that thread, so one that keeps coming up for delivery is delivered.  A  *)
(* task is in one phase at a time, and one that is queued stays so until a *)
(* worker takes it: one strong condition per task says all of that.        *)
Fairness ==
  /\ WF_vars(Pump)
  /\ \A i \in Ids : SF_vars(Goes(i))

FairSpec == Spec /\ Fairness

------------------------------------------------------------------------------
(* Properties                                                              *)

Task == [phase : {"queued", "page", "nothing", "ending"}, owner : Owners,
         key : Keys, live : BOOLEAN, held : BOOLEAN, cancelled : BOOLEAN]

\* Every variable holds a value of its type, and an owner with jobs has its
\* place in the order of turns.
TypeOK ==
  /\ order \in Orders(Owners)
  /\ \A o \in Owners : HasJobs(o) => o \in Listed(order)
  /\ want \in [Owners -> [Keys -> Prios \cup {0}]]
  /\ task \in [Ids -> Task \cup {NoTask}]
  /\ lastOwner \in [Prios -> Owners \cup {"none"}]
  /\ pumping \in BOOLEAN /\ closed \in BOOLEAN /\ sealed \subseteq Executors

\* The tasks the executor really holds, retired ones included, stay within
\* the global, per-reader and thumbnail limits: a reader that changes its
\* mind cannot take more workers than its share.
WorkWithinLimits ==
  /\ Cardinality(InFlight) <= Capacity
  /\ \A o \in Owners : Cardinality({i \in InFlight : Group[task[i].owner] = Group[o]}) <= PerReader
  /\ Cardinality({i \in InFlight : task[i].owner \in Thumbs}) <= ThumbSlots

\* Whenever the GUI thread is between events, no slot is free that some
\* waiting page could take: no wake-up is lost.
NoIdleSlot ==
  (~pumping /\ ~closed) => Cardinality(Active) >= Capacity \/ Candidates = {}

\* A page an owner wants is either waiting or being prepared for it, once:
\* no change of demand starts a second preparation of the same page.
PreparedOnce == \A o \in Owners, k \in Keys :
  LET tries == {i \in Live(o) : task[i].key = k} IN
  /\ Cardinality(tries) <= 1
  /\ tries # {} => want[o][k] = 0

\* A storage transition that seals the library's executor sees its tasks
\* drain, whatever the other readers go on doing.
SealDrains == \A e \in Sealable :
  []<>(e \in sealed => \A i \in InFlight : Exec[task[i].owner] # e)

\* Equal-priority readers take turns: where every reader keeps its place in the
\* order, none that keeps asking for a page at the highest priority is passed
\* over for ever, however the readers change what they want and whoever joins.
\* A reader that withdraws its demand or runs out of it loses its place and is
\* added again at the end; of such readers the code promises nothing, since two
\* of them can starve a third.
PlacesKept == <>[][Listed(order) \subseteq Listed(order)']_vars
TurnsTaken == \A o \in Owners \ Thumbs, k \in Keys :
  LET Asks == \A p \in Prios : want[o][k] >= p IN PlacesKept => []<>~Asks
=============================================================================
