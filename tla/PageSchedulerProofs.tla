------------------------- MODULE PageSchedulerProofs -------------------------
(***************************************************************************)
(* The page scheduler, for any number of readers, strips, pages,           *)
(* priorities and slots: what the executor really holds, cancelled work    *)
(* included, never exceeds the admission limits; a sealed executor is      *)
(* asked for nothing; no slot stays idle beside a page that could take it; *)
(* and a page that an owner wants waits or is prepared for it, once.       *)
(***************************************************************************)
EXTENDS PageScheduler, FiniteSetTheorems, TLAPS

\* Every task the executor has still holds its slot: a slot is given back by
\* the finished callback only.
SlotsHeld ==
  /\ task \in [Ids -> Task \cup {NoTask}]
  /\ \A i \in InFlight : task[i].held

IInv == SlotsHeld /\ WorkWithinLimits

OfGroup(g) == {i \in InFlight : Group[task[i].owner] = g}
OfThumbs   == {i \in InFlight : task[i].owner \in Thumbs}

LEMMA LimitsType ==
  /\ Capacity \in Nat /\ PerReader \in Nat /\ ThumbSlots \in Nat
  /\ IsFiniteSet(Ids)
  BY SchedulerAssumption DEF ThumbSlots

\* Sets of tasks are finite, and a part is no larger than the whole.
LEMMA Parts ==
  ASSUME NEW S \in SUBSET Ids, NEW T \in SUBSET S
  PROVE  /\ IsFiniteSet(S) /\ IsFiniteSet(T)
         /\ Cardinality(S) \in Nat /\ Cardinality(T) \in Nat
         /\ Cardinality(T) <= Cardinality(S)
<1>1. IsFiniteSet(S) /\ Cardinality(S) \in Nat
  BY LimitsType, FS_Subset, FS_CardinalityType
<1>2. IsFiniteSet(T) /\ Cardinality(T) \in Nat /\ Cardinality(T) <= Cardinality(S)
  BY <1>1, FS_Subset, FS_CardinalityType
<1> QED
  BY <1>1, <1>2

\* A step that starts no task keeps the limits.
LEMMA NoStartKeeps ==
  ASSUME IInv, task' \in [Ids -> Task \cup {NoTask}],
         \A i \in InFlight' : /\ i \in InFlight
                              /\ task'[i].owner = task[i].owner
                              /\ task'[i].held
  PROVE  IInv'
<1>1. SlotsHeld'
  BY DEF SlotsHeld
<1>2. InFlight' \subseteq InFlight /\ InFlight \subseteq Ids
  BY DEF InFlight
<1>3. Cardinality(InFlight') <= Capacity
  BY <1>2, Parts, LimitsType DEF IInv, WorkWithinLimits
<1>4. ASSUME NEW o \in Owners
      PROVE  Cardinality(OfGroup(Group[o])') <= PerReader
  <2>1. OfGroup(Group[o])' \subseteq OfGroup(Group[o]) /\ OfGroup(Group[o]) \subseteq Ids
    BY <1>2 DEF OfGroup
  <2>2. Cardinality(OfGroup(Group[o])) <= PerReader
    BY DEF IInv, WorkWithinLimits, OfGroup
  <2> QED
    BY <2>1, <2>2, Parts, LimitsType
<1>5. Cardinality(OfThumbs') <= ThumbSlots
  <2>1. OfThumbs' \subseteq OfThumbs /\ OfThumbs \subseteq Ids
    BY <1>2 DEF OfThumbs
  <2>2. Cardinality(OfThumbs) <= ThumbSlots
    BY DEF IInv, WorkWithinLimits, OfThumbs
  <2> QED
    BY <2>1, <2>2, Parts, LimitsType
<1> QED
  BY <1>1, <1>3, <1>4, <1>5 DEF IInv, WorkWithinLimits, OfGroup, OfThumbs, ThumbSlots

\* Adding one element to a set of tasks below a limit stays within it.
LEMMA OneMore ==
  ASSUME NEW S \in SUBSET Ids, NEW i, NEW n \in Nat, Cardinality(S) < n
  PROVE  Cardinality(S \cup {i}) <= n
<1>1. IsFiniteSet(S) /\ Cardinality(S) \in Nat
  BY LimitsType, FS_Subset, FS_CardinalityType
<1> QED
  BY <1>1, FS_AddElement

\* A dispatch finds room in every limit it counts against.
LEMMA StartKeeps ==
  ASSUME IInv, NEW o \in Owners, NEW k \in Keys, NEW i \in Ids \ InFlight,
         Candidate(o), Cardinality(Active) < Capacity,
         task' = [task EXCEPT ![i] =
                    [phase |-> "queued", owner |-> o, key |-> k,
                     live |-> TRUE, held |-> TRUE, cancelled |-> FALSE]]
  PROVE  IInv'
<1> DEFINE new == [phase |-> "queued", owner |-> o, key |-> k,
                   live |-> TRUE, held |-> TRUE, cancelled |-> FALSE]
<1>1. new \in Task /\ new # NoTask /\ new.owner = o /\ new.held
  BY DEF Task, NoTask
<1> HIDE DEF new
<1>2. /\ task' \in [Ids -> Task \cup {NoTask}]
      /\ \A j \in Ids : task'[j] = IF j = i THEN new ELSE task[j]
  BY <1>1 DEF IInv, SlotsHeld, new
<1>3. InFlight' = InFlight \cup {i} /\ InFlight \subseteq Ids /\ i \notin InFlight
  BY <1>1, <1>2 DEF InFlight
<1>4. SlotsHeld'
  BY <1>1, <1>2, <1>3 DEF IInv, SlotsHeld
<1>5. Active = InFlight
  BY DEF IInv, SlotsHeld, Active
<1>6. Cardinality(InFlight') <= Capacity
  BY <1>3, <1>5, OneMore, LimitsType
<1>7. ASSUME NEW q \in Owners
      PROVE  Cardinality(OfGroup(Group[q])') <= PerReader
  <2>1. OfGroup(Group[q]) \subseteq Ids /\ Cardinality(OfGroup(Group[q])) <= PerReader
    BY DEF IInv, WorkWithinLimits, OfGroup, InFlight
  <2>2. CASE Group[q] = Group[o]
    <3>1. OfGroup(Group[q])' = OfGroup(Group[q]) \cup {i}
      BY <1>1, <1>2, <1>3, <2>2 DEF OfGroup
    <3>2. Cardinality(OfGroup(Group[q])) < PerReader
      BY <1>5, <2>2 DEF Candidate, ActiveOf, OfGroup
    <3> QED
      BY <3>1, <3>2, <2>1, OneMore, LimitsType
  <2>3. CASE Group[q] # Group[o]
    <3>1. OfGroup(Group[q])' = OfGroup(Group[q])
      BY <1>1, <1>2, <1>3, <2>3 DEF OfGroup
    <3> QED
      BY <3>1, <2>1
  <2> QED
    BY <2>2, <2>3
<1>8. Cardinality(OfThumbs') <= ThumbSlots
  <2>1. OfThumbs \subseteq Ids /\ Cardinality(OfThumbs) <= ThumbSlots
    BY DEF IInv, WorkWithinLimits, OfThumbs, InFlight
  <2>2. CASE o \in Thumbs
    <3>1. OfThumbs' = OfThumbs \cup {i}
      BY <1>1, <1>2, <1>3, <2>2 DEF OfThumbs
    <3>2. Cardinality(OfThumbs) < ThumbSlots
      BY <1>5, <2>2 DEF Candidate, ThumbsActive, OfThumbs
    <3> QED
      BY <3>1, <3>2, <2>1, OneMore, LimitsType
  <2>3. CASE o \notin Thumbs
    <3>1. OfThumbs' = OfThumbs
      BY <1>1, <1>2, <1>3, <2>3 DEF OfThumbs
    <3> QED
      BY <3>1, <2>1
  <2> QED
    BY <2>2, <2>3
<1> QED
  BY <1>4, <1>6, <1>7, <1>8 DEF IInv, WorkWithinLimits, OfGroup, OfThumbs, ThumbSlots

\* Retiring attempts takes their demand, never their slot.
LEMMA RetireKeeps ==
  ASSUME IInv, NEW S \in SUBSET InFlight, task' = Retired(task, S)
  PROVE  IInv'
<1>1. /\ task' \in [Ids -> Task \cup {NoTask}]
      /\ \A i \in Ids : /\ task[i] = NoTask => task'[i] = NoTask
                        /\ task[i] # NoTask => /\ task'[i].owner = task[i].owner
                                               /\ task'[i].held = task[i].held
  <2>1. \A i \in S : i \in Ids /\ task[i] \in Task
    BY DEF IInv, SlotsHeld, InFlight
  <2>2. \A t \in Task : /\ [t EXCEPT !.live = FALSE, !.cancelled = TRUE] \in Task
                         /\ [t EXCEPT !.live = FALSE, !.cancelled = TRUE].owner = t.owner
                         /\ [t EXCEPT !.live = FALSE, !.cancelled = TRUE].held = t.held
    BY DEF Task
  <2>3. \A i \in Ids : task'[i] = IF i \in S
          THEN [task[i] EXCEPT !.live = FALSE, !.cancelled = TRUE] ELSE task[i]
    BY DEF Retired
  <2>4. task' \in [Ids -> Task \cup {NoTask}]
    BY <2>1, <2>2 DEF Retired, IInv, SlotsHeld
  <2>5. \A i \in S : task[i] # NoTask
    BY DEF InFlight
  <2> QED
    BY <2>1, <2>2, <2>3, <2>4, <2>5
<1>2. ASSUME NEW i \in InFlight'
      PROVE  i \in InFlight /\ task'[i].owner = task[i].owner /\ task'[i].held
  <2>1. i \in Ids /\ task[i] # NoTask
    BY <1>1 DEF InFlight
  <2>2. task[i].held /\ task'[i].held = task[i].held
    BY <1>1, <2>1 DEF InFlight, IInv, SlotsHeld
  <2> QED
    BY <1>1, <2>1, <2>2 DEF InFlight
<1> QED
  BY <1>1, <1>2, NoStartKeeps

LEMMA InitHolds == Init => IInv
<1> SUFFICES ASSUME Init PROVE IInv
  OBVIOUS
<1>1. InFlight = {} /\ task \in [Ids -> Task \cup {NoTask}]
  BY DEF Init, InFlight
<1> QED
  BY <1>1, FS_EmptySet, LimitsType DEF IInv, SlotsHeld, WorkWithinLimits

LEMMA StepKeeps == IInv /\ [Next]_vars => IInv'
<1> SUFFICES ASSUME IInv, [Next]_vars PROVE IInv'
  OBVIOUS
<1>u. ASSUME task' = task PROVE IInv'
  BY <1>u, NoStartKeeps DEF IInv, SlotsHeld, InFlight
<1>1. CASE PumpStep
  <2>1. PICK o \in Owners, k \in Keys :
          /\ IsNext(o, TopPriority)
          /\ \/ \E i \in Ids \ InFlight : task' = [task EXCEPT ![i] =
                  [phase |-> "queued", owner |-> o, key |-> k,
                   live |-> TRUE, held |-> TRUE, cancelled |-> FALSE]]
             \/ task' = task
    BY <1>1 DEF PumpStep, Waiting
  <2>2. Candidate(o) /\ Cardinality(Active) < Capacity
    BY <1>1, <2>1 DEF PumpStep, IsNext, Candidates
  <2> QED
    BY <2>1, <2>2, <1>u, StartKeeps
<1>2. CASE PumpEnd
  BY <1>2, <1>u DEF PumpEnd
<1>c. ASSUME NEW O \in SUBSET Owners, CancelOwners(O) PROVE IInv'
  <2>1. UNION {Live(o) : o \in O} \subseteq InFlight
    BY DEF Live
  <2> QED
    BY <1>c, <2>1, RetireKeeps DEF CancelOwners
<1>3. ASSUME NEW o \in Owners, Cancel(o) PROVE IInv'
  BY <1>3, <1>c DEF Cancel
<1>4. ASSUME NEW o \in Owners, NEW demand \in Demands, Replace(o, demand) PROVE IInv'
  <2>1. CASE Reject(o)
    BY <1>4, <2>1, <1>c DEF Replace
  <2>2. CASE ~Reject(o)
    <3>1. \E S \in SUBSET InFlight : task' = Retired(task, S)
      BY <1>4, <2>2 DEF Replace, Live
    <3> QED
      BY <3>1, RetireKeeps
  <2> QED
    BY <2>1, <2>2
<1>5. ASSUME NEW e \in Sealable, Quiesce(e) PROVE IInv'
  BY <1>5, <1>c DEF Quiesce
<1>6. ASSUME NEW e \in Sealable, Resume(e) PROVE IInv'
  BY <1>6, <1>u DEF Resume
<1>7. CASE Close
  BY <1>7, <1>c DEF Close
<1>8. ASSUME NEW i \in Ids, Work(i) \/ Answer(i) PROVE IInv'
  <2>1. /\ task' \in [Ids -> Task \cup {NoTask}]
        /\ \A j \in Ids : /\ task'[j].owner = task[j].owner
                          /\ task'[j].held = task[j].held
        /\ InFlight' \subseteq InFlight
    BY <1>8 DEF Work, Answer, IInv, SlotsHeld, InFlight, Task, NoTask
  <2> QED
    BY <2>1, NoStartKeeps DEF IInv, SlotsHeld, InFlight
<1>9. ASSUME NEW i \in Ids, Finished(i) PROVE IInv'
  <2>1. /\ task' \in [Ids -> Task \cup {NoTask}]
        /\ \A j \in Ids : task'[j] = IF j = i THEN NoTask ELSE task[j]
    BY <1>9 DEF Finished, IInv, SlotsHeld
  <2> QED
    BY <2>1, NoStartKeeps DEF IInv, SlotsHeld, InFlight
<1>10. CASE UNCHANGED vars
  BY <1>10, <1>u DEF vars
<1> QED
  BY <1>1, <1>2, <1>3, <1>4, <1>5, <1>6, <1>7, <1>8, <1>9, <1>10
     DEF Next, Pump, Caller, Executor, Goes

\* ReaderPageScheduler: the executor never holds more pages than the global
\* capacity, more of one reader than its share, or more thumbnails than theirs.
THEOREM LimitsHold == Spec => []WorkWithinLimits
<1>1. IInv => WorkWithinLimits
  BY DEF IInv
<1> QED
  BY <1>1, InitHolds, StepKeeps, PTL DEF Spec

-----------------------------------------------------------------------------
(* No wake-up is lost, and no page is prepared twice.                      *)
(*                                                                         *)
(* The loop of _pump ends only where nothing can be dispatched.  After     *)
(* that, what could make a dispatch possible is a slot given back, new     *)
(* demand or an executor unsealed.  The first two run the loop again; the  *)
(* last finds nothing, because no owner of a sealed executor waits: its    *)
(* demand was withdrawn by the seal and is refused until it is lifted.     *)

\* What an owner of a sealed executor asked for is forgotten, and it asks
\* for nothing new.
SealedAskNothing == \A o \in Owners : Exec[o] \in sealed => Waiting(o) = {}

\* PreparedOnce without a cardinality: the attempt in the executor that is
\* still wanted is the only one for its page, and the page does not wait.
OnceEach == \A o \in Owners : \A i \in Live(o) :
  /\ want[o][task[i].key] = 0
  /\ \A j \in Live(o) : task[j].key = task[i].key => i = j

Wants == want \in [Owners -> [Keys -> Prios \cup {0}]]

DemandInv == SlotsHeld /\ Wants /\ SealedAskNothing /\ NoIdleSlot /\ OnceEach

\* What is dispatched depends on the demand, the slots taken and the seals.
LEMMA SameCandidates ==
  ASSUME want' = want, Active' = Active, \A i \in Active : task'[i].owner = task[i].owner,
         \A o \in Owners : Waiting(o) # {} => (Exec[o] \in sealed' <=> Exec[o] \in sealed)
  PROVE  Candidates' = Candidates
<1>1. \A o \in Owners : Waiting(o)' = Waiting(o)
  BY DEF Waiting
<1>2. BodyWaiting' <=> BodyWaiting
  BY <1>1 DEF BodyWaiting
<1>3. \A g : ActiveOf(g)' = ActiveOf(g)
  BY DEF ActiveOf
<1>4. ThumbsActive' = ThumbsActive
  BY DEF ThumbsActive
<1>5. \A o \in Owners : Candidate(o)' <=> Candidate(o)
  BY <1>1, <1>2, <1>3, <1>4 DEF Candidate
<1> QED
  BY <1>5 DEF Candidates

\* Taking demand away, or putting it where nothing of it is being prepared,
\* never makes two preparations of one page.
LEMMA FewerLive ==
  ASSUME OnceEach,
         \A o \in Owners : \A i \in Live(o)' :
           /\ i \in Live(o) /\ task'[i].key = task[i].key
           /\ want'[o][task[i].key] = 0
  PROVE  OnceEach'
BY DEF OnceEach

\* Retired attempts are live no more; the others are as they were.
LEMMA RetiredTasks ==
  ASSUME SlotsHeld, NEW S \in SUBSET InFlight, task' = Retired(task, S)
  PROVE  /\ SlotsHeld'
         /\ Active' = Active
         /\ \A i \in InFlight : task'[i].owner = task[i].owner /\ task'[i].key = task[i].key
         /\ \A o \in Owners : Live(o)' = Live(o) \ S
<1>1. \A i \in InFlight : i \in Ids /\ task[i] \in Task /\ task[i] # NoTask
  BY DEF SlotsHeld, InFlight
<1>2. \A t \in Task : LET r == [t EXCEPT !.live = FALSE, !.cancelled = TRUE] IN
        /\ r \in Task /\ r # NoTask /\ ~r.live
        /\ r.owner = t.owner /\ r.held = t.held /\ r.key = t.key
  BY DEF Task, NoTask
<1>3. \A i \in Ids : task'[i] = IF i \in S
        THEN [task[i] EXCEPT !.live = FALSE, !.cancelled = TRUE] ELSE task[i]
  BY DEF Retired
<1>4. task' \in [Ids -> Task \cup {NoTask}]
  BY <1>1, <1>2, <1>3 DEF Retired, SlotsHeld
<1>5. InFlight' = InFlight
  <2>1. \A i \in S : task'[i] # NoTask
    BY <1>1, <1>2, <1>3
  <2>2. \A i \in Ids \ S : task'[i] = task[i]
    BY <1>3
  <2> QED
    BY <2>1, <2>2 DEF InFlight
<1>6. \A i \in InFlight : /\ task'[i].owner = task[i].owner /\ task'[i].key = task[i].key
                          /\ task'[i].held = task[i].held
                          /\ task'[i].live <=> task[i].live /\ i \notin S
  BY <1>1, <1>2, <1>3
<1>7. SlotsHeld' /\ Active' = Active
  BY <1>4, <1>5, <1>6 DEF SlotsHeld, Active
<1>8. \A o \in Owners : Live(o)' = Live(o) \ S
  BY <1>5, <1>6 DEF Live
<1> QED
  BY <1>6, <1>7, <1>8

\* Withdrawing the demand of some owners.
LEMMA CancelDemand ==
  ASSUME DemandInv, NEW O \in SUBSET Owners, CancelOwners(O)
  PROVE  /\ SlotsHeld' /\ Wants' /\ OnceEach'
         /\ \A o \in Owners : Waiting(o)' \subseteq Waiting(o)
         /\ \A o \in O : Waiting(o)' = {}
         /\ Active' = Active
         /\ \A i \in Active : task'[i].owner = task[i].owner
<1> DEFINE S == UNION {Live(o) : o \in O}
<1>1. S \in SUBSET InFlight /\ task' = Retired(task, S)
  BY DEF Live, CancelOwners
<1>2. /\ SlotsHeld' /\ Active' = Active
      /\ \A i \in InFlight : task'[i].owner = task[i].owner /\ task'[i].key = task[i].key
      /\ \A o \in Owners : Live(o)' = Live(o) \ S
  BY <1>1, RetiredTasks DEF DemandInv
<1>3. \A o \in Owners : want'[o] = IF o \in O THEN [k \in Keys |-> 0] ELSE want[o]
  BY DEF CancelOwners
<1>4. Wants'
  BY <1>3 DEF CancelOwners, DemandInv, Wants
<1>5. \A o \in Owners : Waiting(o)' \subseteq Waiting(o) /\ (o \in O => Waiting(o)' = {})
  BY <1>3 DEF Waiting
<1>6. OnceEach'
  <2>1. ASSUME NEW o \in Owners, NEW i \in Live(o)'
        PROVE  i \in Live(o) /\ task'[i].key = task[i].key /\ want'[o][task[i].key] = 0
    <3>1. i \in Live(o) /\ o \notin O /\ i \in InFlight
      BY <1>2, <2>1 DEF Live
    <3> QED
      BY <3>1, <1>2, <1>3 DEF DemandInv, OnceEach
  <2> QED
    BY <2>1, FewerLive DEF DemandInv
<1>7. \A i \in Active : task'[i].owner = task[i].owner
  BY <1>2 DEF Active
<1> HIDE DEF S
<1> QED
  BY <1>2, <1>4, <1>5, <1>6, <1>7

\* A dispatch takes one waiting page, of which nothing was being prepared;
\* or the executor refuses it, and the page is only forgotten.
LEMMA DispatchKeepsDemand ==
  ASSUME DemandInv, PumpStep
  PROVE  SlotsHeld' /\ Wants' /\ SealedAskNothing' /\ OnceEach'
<1>1. PICK o \in Owners, k \in Keys :
        /\ k \in Waiting(o)
        /\ want' = [want EXCEPT ![o][k] = 0]
        /\ \/ \E i \in Ids \ InFlight : task' = [task EXCEPT ![i] =
                [phase |-> "queued", owner |-> o, key |-> k,
                 live |-> TRUE, held |-> TRUE, cancelled |-> FALSE]]
           \/ task' = task
  BY DEF PumpStep, Waiting
<1>2. Wants'
  BY <1>1 DEF DemandInv, Wants
<1>3. /\ want[o][k] # 0 /\ want'[o][k] = 0
      /\ \A q \in Owners, j \in Keys : q # o \/ j # k => want'[q][j] = want[q][j]
  BY <1>1, SchedulerAssumption DEF Waiting, DemandInv, Wants
<1>4. SealedAskNothing'
  <2>1. \A q \in Owners : Waiting(q)' \subseteq Waiting(q)
    BY <1>3 DEF Waiting
  <2>2. sealed' = sealed
    BY DEF PumpStep
  <2> QED
    BY <2>1, <2>2 DEF DemandInv, SealedAskNothing
<1>5. CASE task' = task
  <2>1. \A q \in Owners : Live(q)' = Live(q)
    BY <1>5 DEF Live, InFlight
  <2>2. \A q \in Owners : \A i \in Live(q) : task[i].key \in Keys
    BY DEF Live, InFlight, DemandInv, SlotsHeld, Task, NoTask
  <2>3. OnceEach'
    BY <1>3, <1>5, <2>1, <2>2 DEF OnceEach, DemandInv
  <2> QED
    BY <1>2, <1>4, <1>5, <2>3 DEF DemandInv, SlotsHeld, InFlight
<1>6. ASSUME NEW i \in Ids \ InFlight,
             task' = [task EXCEPT ![i] = [phase |-> "queued", owner |-> o, key |-> k,
                        live |-> TRUE, held |-> TRUE, cancelled |-> FALSE]]
      PROVE  SlotsHeld' /\ OnceEach'
  <2> DEFINE new == [phase |-> "queued", owner |-> o, key |-> k,
                     live |-> TRUE, held |-> TRUE, cancelled |-> FALSE]
  <2>1. /\ new \in Task /\ new # NoTask /\ new.owner = o /\ new.key = k
        /\ new.held /\ new.live
    BY DEF Task, NoTask
  <2>2. /\ task' \in [Ids -> Task \cup {NoTask}]
        /\ \A j \in Ids : task'[j] = IF j = i THEN new ELSE task[j]
    BY <1>6, <2>1 DEF DemandInv, SlotsHeld
  <2> HIDE DEF new
  <2>3. InFlight' = InFlight \cup {i} /\ i \notin InFlight
    BY <2>1, <2>2 DEF InFlight
  <2>4. SlotsHeld'
    BY <2>1, <2>2, <2>3 DEF DemandInv, SlotsHeld, InFlight
  <2>5. \A q \in Owners : Live(q)' = IF q = o THEN Live(q) \cup {i} ELSE Live(q)
    BY <2>1, <2>2, <2>3 DEF Live, InFlight
  <2>6. \A q \in Owners : \A j \in Live(q) :
          /\ task'[j] = task[j] /\ j # i /\ j \in Ids /\ task[j].key \in Keys
          /\ want[q][task[j].key] = 0
    BY <2>2, <2>3 DEF Live, InFlight, DemandInv, SlotsHeld, OnceEach, Task, NoTask
  <2>7. task'[i].key = k
    BY <2>1, <2>2
  <2>8. \A j \in Live(o) : task'[j].key # k
    BY <2>6, <1>3
  <2>9. ASSUME NEW q \in Owners, NEW j \in Live(q)'
        PROVE  /\ want'[q][task'[j].key] = 0
               /\ \A m \in Live(q)' : task'[m].key = task'[j].key => j = m
    <3>1. CASE j = i
      BY <3>1, <2>5, <2>6, <2>7, <2>8, <1>3
    <3>2. CASE j # i
      <4>1. j \in Live(q)
        BY <3>2, <2>5
      <4>2. want'[q][task'[j].key] = 0
        BY <4>1, <2>6, <1>3
      <4>3. \A m \in Live(q) : task'[m].key = task'[j].key => j = m
        BY <4>1, <2>6 DEF DemandInv, OnceEach
      <4> QED
        BY <4>1, <4>2, <4>3, <2>5, <2>7, <2>8
    <3> QED
      BY <3>1, <3>2
  <2> QED
    BY <2>4, <2>9 DEF OnceEach
<1> QED
  BY <1>1, <1>2, <1>4, <1>5, <1>6

\* New demand leaves alone what is being prepared of it.
LEMMA ReplaceKeepsDemand ==
  ASSUME DemandInv, NEW o \in Owners, NEW demand \in Demands, Replace(o, demand), ~Reject(o)
  PROVE  SlotsHeld' /\ Wants' /\ SealedAskNothing' /\ OnceEach'
<1> DEFINE kept == {i \in Live(o) : demand[task[i].key] > 0}
           S    == Live(o) \ kept
<1>1. /\ S \in SUBSET InFlight /\ task' = Retired(task, S)
      /\ want' = [want EXCEPT ![o] = [k \in Keys |->
                    IF \E i \in kept : task[i].key = k THEN 0 ELSE demand[k]]]
      /\ sealed' = sealed
  BY DEF Live, Replace
<1>2. /\ SlotsHeld'
      /\ \A i \in InFlight : task'[i].key = task[i].key
      /\ \A q \in Owners : Live(q)' = Live(q) \ S
  BY <1>1, RetiredTasks DEF DemandInv
<1>3. /\ \A k \in Keys : want'[o][k] = IF \E i \in kept : task[i].key = k THEN 0 ELSE demand[k]
      /\ \A q \in Owners \ {o} : want'[q] = want[q]
  BY <1>1 DEF DemandInv, Wants
<1>4. Wants'
  <2>1. [k \in Keys |-> IF \E i \in kept : task[i].key = k THEN 0 ELSE demand[k]]
          \in [Keys -> Prios \cup {0}]
    BY DEF Demands
  <2> QED
    BY <1>1, <2>1 DEF DemandInv, Wants
<1>5. SealedAskNothing'
  <2>1. \A q \in Owners \ {o} : Waiting(q)' = Waiting(q)
    BY <1>3 DEF Waiting
  <2> QED
    BY <1>1, <2>1 DEF DemandInv, SealedAskNothing, Reject
<1>6. OnceEach'
  <2>1. ASSUME NEW q \in Owners, NEW i \in Live(q)'
        PROVE  i \in Live(q) /\ task'[i].key = task[i].key /\ want'[q][task[i].key] = 0
    <3>1. i \in Live(q) /\ i \notin S /\ i \in InFlight /\ task[i].key \in Keys
      BY <1>2, <2>1 DEF Live, InFlight, DemandInv, SlotsHeld, Task, NoTask
    <3>2. q = o => i \in kept
      BY <3>1
    <3> QED
      BY <3>1, <3>2, <1>2, <1>3 DEF DemandInv, OnceEach
  <2> QED
    BY <2>1, FewerLive DEF DemandInv
<1> HIDE DEF S
<1> QED
  BY <1>2, <1>4, <1>5, <1>6

\* A step of the executor changes the phase of a task, or what is live of it.
LEMMA ExecutorKeepsDemand ==
  ASSUME DemandInv, UNCHANGED <<want, sealed>>,
         task' \in [Ids -> Task \cup {NoTask}],
         \A i \in InFlight' : /\ i \in InFlight /\ task'[i].held
                              /\ task'[i].owner = task[i].owner
                              /\ task'[i].key = task[i].key
                              /\ task'[i].live => task[i].live
  PROVE  SlotsHeld' /\ Wants' /\ SealedAskNothing' /\ OnceEach'
<1>1. SlotsHeld' /\ Wants'
  BY DEF SlotsHeld, DemandInv, Wants
<1>2. SealedAskNothing'
  BY DEF DemandInv, SealedAskNothing, Waiting
<1>3. \A o \in Owners : \A i \in Live(o)' :
        i \in Live(o) /\ task'[i].key = task[i].key /\ want'[o][task[i].key] = 0
  BY DEF Live, DemandInv, OnceEach
<1> QED
  BY <1>1, <1>2, <1>3, FewerLive DEF DemandInv

LEMMA DemandInit == Init => DemandInv
<1> SUFFICES ASSUME Init PROVE DemandInv
  OBVIOUS
<1>1. InFlight = {} /\ SlotsHeld /\ Wants
  BY DEF Init, InFlight, SlotsHeld, Wants
<1>2. \A o \in Owners : Waiting(o) = {} /\ Live(o) = {}
  BY <1>1 DEF Init, Waiting, Live
<1>3. SealedAskNothing /\ OnceEach
  BY <1>2 DEF SealedAskNothing, OnceEach
<1>4. Candidates = {}
  BY <1>2 DEF Candidates, Candidate
<1> QED
  BY <1>1, <1>3, <1>4 DEF DemandInv, NoIdleSlot

LEMMA DemandStep == DemandInv /\ [Next]_vars => DemandInv'
<1> SUFFICES ASSUME DemandInv, [Next]_vars PROVE DemandInv'
  OBVIOUS
<1> DEFINE Rest == SlotsHeld' /\ Wants' /\ SealedAskNothing' /\ OnceEach'
<1>1. CASE PumpStep
  <2>1. pumping'
    BY <1>1 DEF PumpStep
  <2> QED
    BY <1>1, <2>1, DispatchKeepsDemand DEF DemandInv, NoIdleSlot
<1>s. ASSUME UNCHANGED <<want, task, sealed>> PROVE Rest
  BY <1>s, ExecutorKeepsDemand DEF DemandInv, SlotsHeld, InFlight
<1>e. ASSUME UNCHANGED <<want, task, sealed>>
      PROVE  Active' = Active /\ Candidates' = Candidates
  <2>1. Active' = Active
    BY <1>e DEF Active, InFlight
  <2> QED
    BY <1>e, <2>1, SameCandidates
<1>2. CASE PumpEnd
  <2>1. Cardinality(Active') >= Capacity \/ Candidates' = {}
    BY <1>2, <1>e DEF PumpEnd
  <2> QED
    BY <1>2, <1>s, <2>1 DEF PumpEnd, DemandInv, NoIdleSlot
<1>c. ASSUME NEW O \in SUBSET Owners, CancelOwners(O), sealed' = sealed PROVE Rest
  BY <1>c, CancelDemand DEF DemandInv, SealedAskNothing
<1>p. ASSUME Rest, pumping' = ~closed, closed' = closed PROVE DemandInv'
  BY <1>p DEF DemandInv, NoIdleSlot
<1>3. ASSUME NEW o \in Owners, Cancel(o) PROVE DemandInv'
  <2>1. Rest
    BY <1>3, <1>c DEF Cancel
  <2> QED
    BY <1>3, <2>1, <1>p DEF Cancel
<1>4. ASSUME NEW o \in Owners, NEW demand \in Demands, Replace(o, demand) PROVE DemandInv'
  <2>1. Rest
    <3>1. CASE Reject(o)
      BY <1>4, <3>1, <1>c DEF Replace
    <3>2. CASE ~Reject(o)
      BY <1>4, <3>2, ReplaceKeepsDemand
    <3> QED
      BY <3>1, <3>2
  <2> QED
    BY <1>4, <2>1, <1>p DEF Replace
<1>5. ASSUME NEW e \in Sealable, Quiesce(e) PROVE DemandInv'
  <2> DEFINE O == {o \in Owners : Exec[o] = e /\ HasJobs(o)}
  <2>1. /\ sealed' = sealed \cup {e} /\ CancelOwners(O) /\ closed' = closed
        /\ pumping' = (O # {} /\ ~closed) /\ ~pumping
    BY <1>5 DEF Quiesce
  <2>2. /\ SlotsHeld' /\ Wants' /\ OnceEach'
        /\ \A o \in Owners : Waiting(o)' \subseteq Waiting(o)
        /\ \A o \in O : Waiting(o)' = {}
        /\ Active' = Active
        /\ \A i \in Active : task'[i].owner = task[i].owner
    BY <2>1, CancelDemand
  <2>3. \A o \in Owners : Exec[o] = e /\ o \notin O => Waiting(o) = {}
    BY DEF HasJobs
  <2>4. SealedAskNothing'
    BY <2>1, <2>2, <2>3 DEF DemandInv, SealedAskNothing
  <2>5. NoIdleSlot'
    <3>1. CASE O # {}
      BY <2>1, <3>1 DEF NoIdleSlot
    <3>2. CASE O = {}
      <4>1. want' = want
        BY <2>1, <3>2 DEF CancelOwners, DemandInv, Wants
      <4>2. \A o \in Owners : Waiting(o) # {} => Exec[o] # e
        BY <2>3, <3>2
      <4>3. Candidates' = Candidates
        BY <4>1, <4>2, <2>1, <2>2, SameCandidates
      <4> QED
        BY <4>3, <2>1, <2>2 DEF DemandInv, NoIdleSlot
    <3> QED
      BY <3>1, <3>2
  <2> HIDE DEF O
  <2> QED
    BY <2>2, <2>4, <2>5 DEF DemandInv
<1>6. ASSUME NEW e \in Sealable, Resume(e) PROVE DemandInv'
  <2>1. /\ e \in sealed /\ sealed' = sealed \ {e}
        /\ UNCHANGED <<want, task, pumping, closed>>
    BY <1>6 DEF Resume
  <2>2. Active' = Active
    BY <2>1 DEF Active, InFlight
  <2>3. Candidates' = Candidates
    BY <2>1, <2>2, SameCandidates DEF DemandInv, SealedAskNothing
  <2>4. NoIdleSlot'
    BY <2>1, <2>2, <2>3 DEF DemandInv, NoIdleSlot
  <2>5. \A o \in Owners : Waiting(o)' = Waiting(o) /\ Live(o)' = Live(o)
    BY <2>1 DEF Waiting, Live, InFlight
  <2>6. SlotsHeld' /\ Wants' /\ SealedAskNothing' /\ OnceEach'
    BY <2>1, <2>5 DEF DemandInv, SlotsHeld, InFlight, Wants, SealedAskNothing, OnceEach
  <2> QED
    BY <2>4, <2>6 DEF DemandInv
<1>7. CASE Close
  BY <1>7, <1>c DEF Close, DemandInv, NoIdleSlot
<1>8. ASSUME NEW i \in Ids, Work(i) \/ Answer(i) PROVE DemandInv'
  <2>1. /\ task' \in [Ids -> Task \cup {NoTask}]
        /\ i \in InFlight
        /\ \A j \in Ids \ {i} : task'[j] = task[j]
        /\ task'[i] \in Task /\ task'[i].owner = task[i].owner
        /\ task'[i].key = task[i].key /\ task'[i].held = task[i].held
        /\ task'[i].live => task[i].live
    BY <1>8 DEF Work, Answer, DemandInv, SlotsHeld, InFlight, Task, NoTask
  <2>2. task'[i] # NoTask
    BY <2>1 DEF Task, NoTask
  <2>3. InFlight' = InFlight
    BY <2>1, <2>2 DEF InFlight
  <2>4. /\ UNCHANGED <<want, sealed, pumping, closed>>
    BY <1>8 DEF Work, Answer
  <2>5. \A j \in InFlight : task'[j].held /\ task[j].held /\ task'[j].owner = task[j].owner
    BY <2>1 DEF InFlight, DemandInv, SlotsHeld
  <2>6. Active' = Active /\ \A j \in Active : task'[j].owner = task[j].owner
    BY <2>3, <2>5 DEF Active
  <2>7. Candidates' = Candidates
    BY <2>4, <2>6, SameCandidates
  <2>8. Rest
    <3>1. \A j \in InFlight : task'[j].key = task[j].key /\ (task'[j].live => task[j].live)
      BY <2>1 DEF InFlight
    <3> QED
      BY <3>1, <2>1, <2>3, <2>4, <2>5, ExecutorKeepsDemand
  <2> QED
    BY <2>4, <2>6, <2>7, <2>8 DEF DemandInv, NoIdleSlot
<1>9. ASSUME NEW i \in Ids, Finished(i) PROVE DemandInv'
  <2>1. /\ task' \in [Ids -> Task \cup {NoTask}]
        /\ \A j \in Ids : task'[j] = IF j = i THEN NoTask ELSE task[j]
    BY <1>9 DEF Finished, DemandInv, SlotsHeld
  <2>2. Rest
    <3>1. \A j \in InFlight' : j \in InFlight /\ task'[j] = task[j] /\ task[j].held
      BY <2>1 DEF InFlight, DemandInv, SlotsHeld
    <3> QED
      BY <1>9, <2>1, <3>1, ExecutorKeepsDemand DEF Finished
  <2>3. task[i].held
    BY <1>9 DEF Finished, DemandInv, SlotsHeld
  <2>4. pumping' = ~closed /\ closed' = closed
    BY <1>9, <2>3 DEF Finished
  <2> QED
    BY <2>2, <2>4, <1>p
<1>10. CASE UNCHANGED vars
  BY <1>10, <1>s, <1>e DEF vars, DemandInv, NoIdleSlot
<1> HIDE DEF Rest
<1> QED
  BY <1>1, <1>2, <1>3, <1>4, <1>5, <1>6, <1>7, <1>8, <1>9, <1>10
     DEF Next, Pump, Caller, Executor, Goes

LEMMA DemandHolds == Spec => []DemandInv
BY DemandInit, DemandStep, PTL DEF Spec

\* Whenever the GUI thread is between events, no slot is free that a waiting
\* page could take: each callback that could make a dispatch possible runs
\* _pump, or has nothing to offer it.
THEOREM NoWakeUpLost == Spec => []NoIdleSlot
<1>1. DemandInv => NoIdleSlot
  BY DEF DemandInv
<1> QED
  BY <1>1, DemandHolds, PTL

\* No change of demand starts a second preparation of a page that is waiting
\* or being prepared for the same owner.
THEOREM EachPageOnce == Spec => []PreparedOnce
<1>1. ASSUME DemandInv PROVE PreparedOnce
  <2> SUFFICES ASSUME NEW o \in Owners, NEW k \in Keys
               PROVE  LET tries == {i \in Live(o) : task[i].key = k} IN
                      Cardinality(tries) <= 1 /\ (tries # {} => want[o][k] = 0)
    BY DEF PreparedOnce
  <2> DEFINE tries == {i \in Live(o) : task[i].key = k}
  <2>1. tries # {} => want[o][k] = 0
    BY <1>1 DEF DemandInv, OnceEach
  <2>2. Cardinality(tries) <= 1
    <3>1. CASE tries = {}
      <4>1. Cardinality({}) = 0
        BY FS_EmptySet
      <4> QED
        BY <3>1, <4>1
    <3>2. CASE tries # {}
      <4>1. PICK i \in tries : tries = {i}
        BY <1>1, <3>2 DEF DemandInv, OnceEach
      <4> QED
        BY <4>1, FS_Singleton
    <3> QED
      BY <3>1, <3>2
  <2> QED
    BY <2>1, <2>2
<1> QED
  BY <1>1, DemandHolds, PTL

-----------------------------------------------------------------------------
(* The order of turns, and the types                                       *)

LEMMA EmptyOrder ==
  ASSUME NEW K
  PROVE  Empty(K) \in Orders(K) /\ Listed(Empty(K)) = {}
BY DEF Empty, Orders, Listed

LEMMA WithoutOrder ==
  ASSUME NEW K, NEW q \in Orders(K), NEW X
  PROVE  Without(q, X) \in Orders(K) /\ Listed(Without(q, X)) = Listed(q) \ X
<1> DEFINE w == Without(q, X)
<1>1. q \in [K -> SUBSET K]
  BY DEF Orders
<1>2. w \in [K -> SUBSET K] /\ \A k \in K : w[k] = IF k \in X THEN {} ELSE q[k] \ X
  BY <1>1 DEF Without
<1> HIDE DEF w
<1>3. Listed(w) = Listed(q) \ X
  BY <1>1, <1>2 DEF Listed
<1>4. /\ \A k \in K : \A j \in q[k] : /\ j \in Listed(q) /\ k \in Listed(q)
                                      /\ q[j] \subseteq q[k] /\ (k \in q[j] => j = k)
      /\ \A j, k \in Listed(q) : j \in q[k] \/ k \in q[j]
      /\ Listed(q) \subseteq K
  BY <1>1 DEF Orders, Listed
<1>5. ASSUME NEW k \in K, NEW j \in w[k]
      PROVE  j \in Listed(w) /\ k \in Listed(w) /\ w[j] \subseteq w[k] /\ (k \in w[j] => j = k)
  <2>1. k \notin X /\ j \in q[k] /\ j \notin X /\ j \in K
    BY <1>2, <1>5, <1>1
  <2> QED
    BY <2>1, <1>2, <1>3, <1>4
<1>6. \A j, k \in Listed(w) : j \in w[k] \/ k \in w[j]
  BY <1>2, <1>3, <1>4
<1>7. w \in Orders(K)
  BY <1>2, <1>5, <1>6 DEF Orders
<1> QED
  BY <1>3, <1>7 DEF w

LEMMA WithLastOrder ==
  ASSUME NEW K, NEW q \in Orders(K), NEW x \in K
  PROVE  WithLast(q, x) \in Orders(K) /\ Listed(WithLast(q, x)) = Listed(q) \cup {x}
<1> DEFINE w == WithLast(q, x)
<1>1. q \in [K -> SUBSET K]
  BY DEF Orders
<1>2. CASE x \in q[x]
  BY <1>1, <1>2 DEF WithLast, Listed
<1>3. CASE x \notin q[x]
  <2>1. w \in [K -> SUBSET K] /\ \A k \in K : w[k] = IF k = x THEN Listed(q) \cup {x} ELSE q[k]
    BY <1>1, <1>3 DEF WithLast, Listed
  <2> HIDE DEF w
  <2>2. Listed(w) = Listed(q) \cup {x} /\ x \notin Listed(q)
    BY <1>1, <1>3, <2>1 DEF Listed
  <2>3. /\ \A k \in K : \A j \in q[k] : /\ j \in Listed(q) /\ k \in Listed(q)
                                        /\ q[j] \subseteq q[k] /\ (k \in q[j] => j = k)
        /\ \A j, k \in Listed(q) : j \in q[k] \/ k \in q[j]
        /\ Listed(q) \subseteq K
    BY <1>1 DEF Orders, Listed
  <2>4. ASSUME NEW k \in K, NEW j \in w[k]
        PROVE  j \in Listed(w) /\ k \in Listed(w) /\ w[j] \subseteq w[k] /\ (k \in w[j] => j = k)
    <3>1. \A m \in K : q[m] \subseteq Listed(q)
      BY <2>3
    <3>2. CASE k = x
      BY <2>1, <2>2, <2>3, <2>4, <3>1, <3>2
    <3>3. CASE k # x
      <4>1. j \in q[k] /\ j # x /\ j \in K
        BY <2>1, <2>2, <2>3, <2>4, <3>3
      <4> QED
        BY <2>1, <2>2, <2>3, <3>3, <4>1
    <3> QED
      BY <3>2, <3>3
  <2>5. \A j, k \in Listed(w) : j \in w[k] \/ k \in w[j]
    BY <2>1, <2>2, <2>3
  <2>6. w \in Orders(K)
    BY <2>1, <2>4, <2>5 DEF Orders
  <2> QED
    BY <2>2, <2>6 DEF w
<1> QED
  BY <1>2, <1>3

\* What TypeOK says besides what DemandInv says of the tasks and the demand.
Turns ==
  /\ order \in Orders(Owners)
  /\ \A o \in Owners : HasJobs(o) => o \in Listed(order)
  /\ lastOwner \in [Prios -> Owners \cup {"none"}]
  /\ pumping \in BOOLEAN /\ closed \in BOOLEAN /\ sealed \subseteq Executors

\* An owner that keeps its place, or has nothing left to do, keeps the turns.
LEMMA TurnsKeep ==
  ASSUME Turns, order' \in Orders(Owners),
         \A o \in Owners : HasJobs(o)' => o \in Listed(order'),
         lastOwner' \in [Prios -> Owners \cup {"none"}],
         pumping' \in BOOLEAN, closed' \in BOOLEAN, sealed' \subseteq Executors
  PROVE  Turns'
BY DEF Turns

LEMMA CancelTurns ==
  ASSUME DemandInv, Turns, NEW O \in SUBSET Owners, CancelOwners(O)
  PROVE  /\ order' \in Orders(Owners)
         /\ \A o \in Owners : HasJobs(o)' => o \in Listed(order')
<1>1. order' \in Orders(Owners) /\ Listed(order') = Listed(order) \ O
  BY WithoutOrder DEF CancelOwners, Turns
<1> DEFINE S == UNION {Live(o) : o \in O}
<1>2. S \in SUBSET InFlight /\ task' = Retired(task, S)
  BY DEF CancelOwners, Live
<1> HIDE DEF S
<1>3. \A o \in Owners : Live(o)' = Live(o) \ S
  BY <1>2, RetiredTasks DEF DemandInv
<1>4. \A o \in Owners : Waiting(o)' = IF o \in O THEN {} ELSE Waiting(o)
  BY DEF CancelOwners, Waiting, DemandInv, Wants
<1>5. \A o \in O : Live(o)' = {}
  BY <1>3 DEF S
<1>6. \A o \in Owners : HasJobs(o)' => o \notin O /\ HasJobs(o)
  BY <1>3, <1>4, <1>5 DEF HasJobs
<1> QED
  BY <1>1, <1>6 DEF Turns

LEMMA PumpTurns ==
  ASSUME DemandInv, Turns, PumpStep
  PROVE  Turns'
<1>1. PICK o \in Owners, k \in Keys :
        /\ k \in Waiting(o) /\ IsNext(o, TopPriority)
        /\ lastOwner' = [lastOwner EXCEPT ![TopPriority] = o]
        /\ want' = [want EXCEPT ![o][k] = 0]
        /\ \/ /\ \E i \in Ids \ InFlight : task' = [task EXCEPT ![i] =
                   [phase |-> "queued", owner |-> o, key |-> k,
                    live |-> TRUE, held |-> TRUE, cancelled |-> FALSE]]
              /\ order' = order
           \/ /\ task' = task
              /\ order' = IF Waiting(o) = {k} /\ \A i \in Active : task[i].owner # o
                          THEN Without(order, {o}) ELSE order
  BY DEF PumpStep, Waiting
<1>2. \A q \in Owners : Waiting(q)' = IF q = o THEN Waiting(o) \ {k} ELSE Waiting(q)
  BY <1>1 DEF Waiting, DemandInv, Wants
<1>3. HasJobs(o)
  BY <1>1 DEF HasJobs
<1>4. lastOwner' \in [Prios -> Owners \cup {"none"}]
  BY <1>1 DEF Turns
<1>5. pumping' \in BOOLEAN /\ closed' \in BOOLEAN /\ sealed' \subseteq Executors
  BY DEF PumpStep, Turns
<1>6. ASSUME NEW i \in Ids \ InFlight, order' = order,
             task' = [task EXCEPT ![i] = [phase |-> "queued", owner |-> o, key |-> k,
                        live |-> TRUE, held |-> TRUE, cancelled |-> FALSE]]
      PROVE  Turns'
  <2>1. \A q \in Owners \ {o} : \A j \in Live(q)' : j \in Live(q)
    BY <1>6 DEF Live, InFlight, DemandInv, SlotsHeld
  <2>2. \A q \in Owners : HasJobs(q)' => HasJobs(q)
    BY <1>2, <1>3, <2>1 DEF HasJobs
  <2> QED
    BY <1>4, <1>5, <1>6, <2>2 DEF Turns
<1>7. ASSUME task' = task,
             order' = IF Waiting(o) = {k} /\ \A i \in Active : task[i].owner # o
                      THEN Without(order, {o}) ELSE order
      PROVE  Turns'
  <2>1. \A q \in Owners : Live(q)' = Live(q)
    BY <1>7 DEF Live, InFlight
  <2>2. \A q \in Owners : HasJobs(q)' => HasJobs(q)
    BY <1>2, <2>1 DEF HasJobs
  <2>3. ASSUME Waiting(o) = {k}, \A i \in Active : task[i].owner # o
        PROVE  ~HasJobs(o)'
    <3>1. Live(o) = {}
      BY <2>3 DEF Live, Active, DemandInv, SlotsHeld
    <3> QED
      BY <1>2, <2>1, <2>3, <3>1 DEF HasJobs
  <2>4. /\ Without(order, {o}) \in Orders(Owners)
        /\ Listed(Without(order, {o})) = Listed(order) \ {o}
    BY WithoutOrder DEF Turns
  <2> QED
    BY <1>4, <1>5, <1>7, <2>2, <2>3, <2>4 DEF Turns
<1> QED
  BY <1>1, <1>6, <1>7

LEMMA ReplaceTurns ==
  ASSUME DemandInv, Turns, NEW o \in Owners, NEW demand \in Demands, Replace(o, demand), ~Reject(o)
  PROVE  /\ order' \in Orders(Owners)
         /\ \A q \in Owners : HasJobs(q)' => q \in Listed(order')
<1> DEFINE kept == {i \in Live(o) : demand[task[i].key] > 0}
           S    == Live(o) \ kept
           none == \A k \in Keys : demand[k] = 0
<1>1. /\ S \in SUBSET InFlight /\ task' = Retired(task, S)
      /\ want' = [want EXCEPT ![o] = [k \in Keys |->
                    IF \E i \in kept : task[i].key = k THEN 0 ELSE demand[k]]]
      /\ order' = IF none THEN Without(order, {o}) ELSE WithLast(order, o)
  BY DEF Live, Replace
<1>2. \A q \in Owners : Live(q)' = Live(q) \ S
  BY <1>1, RetiredTasks DEF DemandInv
<1>3. \A q \in Owners \ {o} : HasJobs(q)' => HasJobs(q)
  BY <1>1, <1>2 DEF HasJobs, Waiting, DemandInv, Wants
<1>4. CASE ~none
  <2>1. order' = WithLast(order, o)
    BY <1>1, <1>4
  <2>2. order' \in Orders(Owners) /\ Listed(order') = Listed(order) \cup {o}
    BY <2>1, WithLastOrder DEF Turns
  <2> QED
    BY <1>3, <2>2 DEF Turns
<1>5. CASE none
  <2>1. order' = Without(order, {o})
    BY <1>1, <1>5
  <2>2. order' \in Orders(Owners) /\ Listed(order') = Listed(order) \ {o}
    BY <2>1, WithoutOrder DEF Turns
  <2>3. \A i \in Live(o) : task[i].key \in Keys
    BY DEF Live, InFlight, DemandInv, SlotsHeld, Task, NoTask
  <2>4. kept = {}
    BY <1>5, <2>3
  <2>5. Live(o)' = {}
    BY <1>2, <2>4
  <2>6. \A k \in Keys : want'[o][k] = 0
    BY <1>1, <1>5 DEF DemandInv, Wants
  <2>7. ~HasJobs(o)'
    BY <2>5, <2>6 DEF HasJobs, Waiting
  <2> QED
    BY <1>3, <2>2, <2>7 DEF Turns
<1> QED
  BY <1>4, <1>5

LEMMA FinishedTurns ==
  ASSUME DemandInv, Turns, NEW i \in Ids, Finished(i)
  PROVE  Turns'
<1>0. task[i].held /\ task[i].owner \in Owners
  BY DEF Finished, DemandInv, SlotsHeld, InFlight, Task
<1>1. PICK o \in Owners :
        /\ task' = [task EXCEPT ![i] = NoTask]
        /\ order' = PlaceAfter(o, task') /\ want' = want
        /\ pumping' = (task[i].held /\ ~closed) /\ UNCHANGED <<lastOwner, closed, sealed>>
  BY <1>0 DEF Finished
<1>2. \A q \in Owners : HasJobs(q)' => HasJobs(q)
  BY <1>1 DEF HasJobs, Waiting, Live, InFlight, DemandInv, SlotsHeld
<1>3. CASE order' = order
  BY <1>0, <1>1, <1>2, <1>3 DEF Turns
<1>4. CASE order' # order
  <2>1. /\ Waiting(o) = {} /\ order' = Without(order, {o})
        /\ ~ \E j \in Ids : task'[j] # NoTask /\ task'[j].owner = o /\ (task'[j].live \/ task'[j].held)
    BY <1>1, <1>4 DEF PlaceAfter
  <2>2. ~HasJobs(o)'
    BY <1>1, <2>1 DEF HasJobs, Waiting, Live, InFlight
  <2>3. order' \in Orders(Owners) /\ Listed(order') = Listed(order) \ {o}
    BY <2>1, WithoutOrder DEF Turns
  <2> QED
    BY <1>0, <1>1, <1>2, <2>2, <2>3 DEF Turns
<1> QED
  BY <1>3, <1>4

LEMMA TurnsInit == Init => Turns
<1> SUFFICES ASSUME Init PROVE Turns
  OBVIOUS
<1>1. \A o \in Owners : ~HasJobs(o)
  BY DEF Init, HasJobs, Waiting, Live, InFlight
<1> QED
  BY <1>1, EmptyOrder DEF Init, Turns

LEMMA TurnsStep == DemandInv /\ Turns /\ [Next]_vars => Turns'
<1> SUFFICES ASSUME DemandInv, Turns, [Next]_vars PROVE Turns'
  OBVIOUS
<1>1. CASE PumpStep
  BY <1>1, PumpTurns
<1>s. ASSUME order' = order, lastOwner' = lastOwner, \A o \in Owners : HasJobs(o)' => HasJobs(o),
             pumping' \in BOOLEAN, closed' \in BOOLEAN, sealed' \subseteq Executors
      PROVE  Turns'
  BY <1>s DEF Turns
<1>j. ASSUME want' = want, task' = task
      PROVE  \A o \in Owners : HasJobs(o)' => HasJobs(o)
  BY <1>j DEF HasJobs, Waiting, Live, InFlight
<1>2. CASE PumpEnd
  BY <1>2, <1>s, <1>j DEF PumpEnd, Turns
<1>3. ASSUME NEW o \in Owners, Cancel(o) PROVE Turns'
  BY <1>3, CancelTurns DEF Cancel, Turns
<1>4. ASSUME NEW o \in Owners, NEW demand \in Demands, Replace(o, demand) PROVE Turns'
  <2>1. /\ order' \in Orders(Owners)
        /\ \A q \in Owners : HasJobs(q)' => q \in Listed(order')
    <3>1. CASE Reject(o)
      BY <1>4, <3>1, CancelTurns DEF Replace
    <3>2. CASE ~Reject(o)
      BY <1>4, <3>2, ReplaceTurns
    <3> QED
      BY <3>1, <3>2
  <2> QED
    BY <1>4, <2>1 DEF Replace, Turns
<1>5. ASSUME NEW e \in Sealable, Quiesce(e) PROVE Turns'
  <2> DEFINE O == {o \in Owners : Exec[o] = e /\ HasJobs(o)}
  <2>1. /\ CancelOwners(O) /\ sealed' = sealed \cup {e} /\ pumping' = (O # {} /\ ~closed)
        /\ UNCHANGED <<lastOwner, closed>>
    BY <1>5 DEF Quiesce
  <2>2. O \in SUBSET Owners
    OBVIOUS
  <2> HIDE DEF O
  <2> QED
    BY <2>1, <2>2, CancelTurns, SchedulerAssumption DEF Turns
<1>6. ASSUME NEW e \in Sealable, Resume(e) PROVE Turns'
  BY <1>6, <1>s, <1>j DEF Resume, Turns
<1>7. CASE Close
  <2>1. CancelOwners(Owners) /\ lastOwner' = [p \in Prios |-> "none"] /\ closed' = TRUE
        /\ UNCHANGED <<pumping, sealed>>
    BY <1>7 DEF Close
  <2> QED
    BY <2>1, CancelTurns DEF Turns
<1>8. ASSUME NEW i \in Ids, Work(i) \/ Answer(i) PROVE Turns'
  <2>1. \A j \in Ids : task'[j] # NoTask /\ task'[j].live =>
          task[j] # NoTask /\ task[j].live /\ task[j].owner = task'[j].owner
    BY <1>8 DEF Work, Answer, DemandInv, SlotsHeld, InFlight, Task, NoTask
  <2>2. \A o \in Owners : HasJobs(o)' => HasJobs(o)
    BY <1>8, <2>1 DEF Work, Answer, HasJobs, Waiting, Live, InFlight
  <2> QED
    BY <1>8, <2>2, <1>s DEF Work, Answer, Turns
<1>9. ASSUME NEW i \in Ids, Finished(i) PROVE Turns'
  BY <1>9, FinishedTurns
<1>10. CASE UNCHANGED vars
  BY <1>10, <1>s, <1>j DEF vars, Turns
<1> QED
  BY <1>1, <1>2, <1>3, <1>4, <1>5, <1>6, <1>7, <1>8, <1>9, <1>10
     DEF Next, Pump, Caller, Executor, Goes

\* Every variable of the scheduler holds a value of its type, and an owner with
\* jobs has its place in the dictionary of owners, which _next goes through.
THEOREM SchedulerTypes == Spec => []TypeOK
<1>1. DemandInv /\ Turns => TypeOK
  BY DEF DemandInv, Turns, SlotsHeld, Wants, TypeOK
<1>2. Spec => []Turns
  BY DemandHolds, TurnsInit, TurnsStep, PTL DEF Spec
<1> QED
  BY <1>1, <1>2, DemandHolds, PTL
=============================================================================
