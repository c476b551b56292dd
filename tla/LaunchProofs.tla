----------------------------- MODULE LaunchProofs -----------------------------
(***************************************************************************)
(* Theorems about Launch, for any number of processes, document events and *)
(* documents: every state is well formed, a listening primary is reached   *)
(* under the profile's name, and a window the system asked for outlives    *)
(* the library.                                                            *)
(***************************************************************************)
EXTENDS Launch, TLAPS

(* A window the system asked for is open and is not the library's. *)
AskedAreRoots == \A p \in Procs : asked[p] \subseteq win[p].readers \ win[p].owned

(* What stands in a socket stands in the socket of a process. *)
SocketOwned == \A r \in Requests : at[r] = "socket" => to[r] \in Procs

Inv == TypeOK /\ PrimaryReachable /\ AskedAreRoots /\ SocketOwned

-----------------------------------------------------------------------------
(* What the window operations keep. *)

LEMMA NoWindowsType == W!NoWindows \in W!Windows
BY DEF W!NoWindows, W!Windows

LEMMA ShowType == ASSUME NEW w \in W!Windows
                  PROVE  /\ W!ShowLibrary(w) \in W!Windows
                         /\ W!ShowLibrary(w).readers = w.readers
                         /\ W!ShowLibrary(w).owned = w.owned
BY DEF W!ShowLibrary, W!Windows

LEMMA OpenType ==
  ASSUME NEW w \in W!Windows, NEW docs \in SUBSET Docs
  PROVE  /\ W!OpenFiles(w, docs) \in W!Windows
         /\ W!OpenFiles(w, docs).readers = w.readers \cup (docs \ Unopenable)
         /\ W!OpenFiles(w, docs).owned = w.owned \ docs
         /\ w.main => W!OpenFiles(w, docs).main
BY DEF W!OpenFiles, W!Windows

LEMMA FromLibraryType ==
  ASSUME NEW w \in W!Windows, NEW d \in Docs, w.main
  PROVE  /\ W!OpenFromLibrary(w, d) \in W!Windows
         /\ W!OpenFromLibrary(w, d).readers = w.readers \cup {d}
         /\ W!OpenFromLibrary(w, d).owned \subseteq
              w.owned \cup ({d} \ w.readers)
         /\ W!OpenFromLibrary(w, d).main
BY DEF W!OpenFromLibrary, W!Windows

LEMMA CloseReaderType ==
  ASSUME NEW w \in W!Windows, NEW d \in Docs
  PROVE  /\ W!CloseReader(w, d) \in W!Windows
         /\ W!CloseReader(w, d).readers = w.readers \ {d}
         /\ W!CloseReader(w, d).owned = w.owned \ {d}
         /\ W!CloseReader(w, d).main = w.main
BY DEF W!CloseReader, W!Windows

LEMMA CloseMainType ==
  ASSUME NEW w \in W!Windows
  PROVE  /\ W!CloseMain(w) \in W!Windows
         /\ W!CloseMain(w).readers = w.readers \ w.owned
         /\ W!CloseMain(w).owned = {}
BY DEF W!CloseMain, W!Windows

(* The windows and the ghost beside them are well formed. *)
UiOK == /\ win \in [Procs -> W!Windows]
        /\ asked \in [Procs -> SUBSET Docs]
        /\ AskedAreRoots

LEMMA ShownKeeps == ASSUME UiOK, NEW p \in Procs, Shown(p)
                    PROVE  UiOK'
BY ShowType DEF UiOK, Shown, SetWin, AskedAreRoots

LEMMA OpenKeeps ==
  ASSUME UiOK, NEW p \in Procs, NEW docs \in SUBSET Docs, Open(p, docs)
  PROVE  UiOK'
<1>1. win[p] \in W!Windows
  BY DEF UiOK
<1>2. W!OpenFiles(win[p], docs) \in W!Windows
  BY <1>1, OpenType
<1>3. win' \in [Procs -> W!Windows] /\ asked' \in [Procs -> SUBSET Docs]
  BY <1>2 DEF UiOK, Open, SetWin
<1>4. ASSUME NEW q \in Procs
      PROVE  asked'[q] \subseteq win'[q].readers \ win'[q].owned
  <2>1. CASE q = p
    BY <2>1, <1>1, OpenType DEF UiOK, Open, SetWin, AskedAreRoots
  <2>2. CASE q # p
    BY <2>2 DEF UiOK, Open, SetWin, AskedAreRoots
  <2> QED BY <2>1, <2>2
<1> QED BY <1>3, <1>4 DEF UiOK, AskedAreRoots

LEMMA ClearKeeps == ASSUME UiOK, NEW p \in Procs, ClearUi(p)
                    PROVE  UiOK'
BY NoWindowsType DEF UiOK, ClearUi, SetWin, AskedAreRoots

LEMMA CloseKeeps ==
  ASSUME UiOK, NEW p \in Procs, NEW w \in W!Windows, Close(p, w),
         asked[p] \cap w.owned = {}
  PROVE  UiOK'
BY DEF UiOK, Close, SetWin, AskedAreRoots

-----------------------------------------------------------------------------
(* What the steps of the broker keep.  The lock is what makes it work: who *)
(* holds it is the only one past it, so removing the name and listening    *)
(* under it never hit another primary.                                     *)
BrokerOK == BrokerTypeOK /\ PrimaryReachable /\ SocketOwned

LEMMA QueuesType == Queues = { "nowhere", "socket", "pending", "buffered",
                               "opening", "done", "failed", "lost" }
BY DEF Queues

LEMMA DrainKeeps ==
  ASSUME BrokerTypeOK, SocketOwned, NEW p \in Procs, NEW from \in SUBSET Queues,
         NEW next \in Queues \ {"socket"}
  PROVE  /\ Drained(p, from, next) \in [Requests -> Queues]
         /\ \A r \in Requests :
              Drained(p, from, next)[r] = "socket" => at[r] = "socket"
BY DEF BrokerTypeOK, Drained

LEMMA Alone ==
  ASSUME BrokerOK, NEW p \in Procs, NEW q \in Procs, HoldsLock(p), q # p
  PROVE  ~HoldsLock(q) /\ q \notin Listening
BY DEF BrokerOK, PrimaryReachable, HoldsLock, Listening

LEMMA ArbitrateKeeps ==
  ASSUME BrokerOK, NEW p \in Procs, Arbitrate(p)
  PROVE  BrokerOK'
<1> USE DEF BrokerOK, BrokerTypeOK, Requests, Phases
<1>1. CASE Claim(p)
  <2>1. \A q \in Procs : ~HoldsLock(q)
    BY <1>1 DEF Claim, LockFree, Gone, HoldsLock, PrimaryReachable
  <2>2. PrimaryReachable'
    BY <1>1, <2>1 DEF Claim, Step, PrimaryReachable, HoldsLock, Listening
  <2> QED BY <1>1, <2>2 DEF Claim, Step, ipc, SocketOwned
<1>2. CASE BecomeSecondary(p) \/ LockError(p) \/ WriteFails(p) \/ GiveUp(p)
  BY <1>2 DEF BecomeSecondary, LockError, WriteFails, GiveUp, Step, ipc,
              PrimaryReachable, HoldsLock, Listening, SocketOwned
<1>3. CASE Listen(p)
  <2>1. HoldsLock(p)
    BY <1>3 DEF Listen, Step, HoldsLock
  <2>2. \A q \in Procs \ {p} : ~HoldsLock(q) /\ q \notin Listening
    BY <2>1, Alone
  <2>3. PrimaryReachable'
    BY <1>3, <2>1, <2>2 DEF Listen, Step, PrimaryReachable, HoldsLock, Listening
  <2> QED BY <1>3, <2>3 DEF Listen, Step, ipc, SocketOwned
<1>4. CASE ListenFails(p)
  <2>1. HoldsLock(p)
    BY <1>4 DEF ListenFails, Step, HoldsLock
  <2>2. \A q \in Procs \ {p} : ~HoldsLock(q) /\ q \notin Listening
    BY <2>1, Alone
  <2>3. PrimaryReachable'
    BY <1>4, <2>1, <2>2
    DEF ListenFails, Step, PrimaryReachable, HoldsLock, Listening
  <2> QED BY <1>4, <2>3 DEF ListenFails, Step, RemoveServer, ipc, SocketOwned
<1>5. CASE Connect(p)
  <2>1. name \in Procs
    BY <1>5 DEF Connect, Listening
  <2> QED BY <1>5, <2>1
          DEF Connect, Step, PrimaryReachable, HoldsLock, Listening, SocketOwned
<1>6. CASE Write(p)
  <2>1. to[p] \in Procs
    BY <1>6 DEF Write, Listening
  <2>2. PrimaryReachable'
    BY <1>6 DEF Write, Step, PrimaryReachable, HoldsLock, Listening
  <2> QED BY <1>6, <2>1, <2>2 DEF Write, Step, SocketOwned, Queues
<1> QED BY <1>1, <1>2, <1>3, <1>4, <1>5, <1>6 DEF Arbitrate

LEMMA DisposeKeeps ==
  ASSUME BrokerOK, NEW p \in Procs, Dispose(p)
  PROVE  BrokerOK'
<1> USE DEF BrokerOK
<1>1. CASE DropRequests(p)
  <2>1. HoldsLock(p)
    BY <1>1 DEF DropRequests, Step, HoldsLock
  <2>2. \A q \in Procs \ {p} : ~HoldsLock(q) /\ q \notin Listening
    BY <2>1, Alone
  <2>3. PrimaryReachable'
    BY <1>1, <2>1, <2>2
    DEF DropRequests, Step, PrimaryReachable, HoldsLock, Listening, BrokerTypeOK
  <2>4. at' \in [Requests -> Queues] /\ SocketOwned'
    BY <1>1, DrainKeeps DEF DropRequests, Queues, SocketOwned
  <2> QED BY <1>1, <2>3, <2>4 DEF DropRequests, Step, BrokerTypeOK, Phases
<1>2. CASE RemoveName(p)
  <2>1. HoldsLock(p)
    BY <1>2 DEF RemoveName, Step, HoldsLock
  <2>2. \A q \in Procs \ {p} : ~HoldsLock(q) /\ q \notin Listening
    BY <2>1, Alone
  <2>3. PrimaryReachable'
    BY <1>2, <2>1, <2>2
    DEF RemoveName, Step, PrimaryReachable, HoldsLock, Listening, BrokerTypeOK
  <2> QED BY <1>2, <2>3
          DEF RemoveName, RemoveServer, Step, BrokerTypeOK, Phases, ipc, SocketOwned
<1>3. CASE Unlock(p)
  <2>1. HoldsLock(p)
    BY <1>3 DEF Unlock, Step, HoldsLock
  <2>2. \A q \in Procs \ {p} : ~HoldsLock(q) /\ q \notin Listening
    BY <2>1, Alone
  <2>3. PrimaryReachable'
    BY <1>3, <2>1, <2>2
    DEF Unlock, Step, PrimaryReachable, HoldsLock, Listening, BrokerTypeOK
  <2> QED BY <1>3, <2>3 DEF Unlock, Step, BrokerTypeOK, Phases, ipc, SocketOwned
<1>4. CASE CloseRuntime(p)
  BY <1>4 DEF CloseRuntime, Step, BrokerTypeOK, Phases, ipc, SocketOwned,
              PrimaryReachable, HoldsLock, Listening
<1> QED BY <1>1, <1>2, <1>3, <1>4 DEF Dispose

LEMMA LaunchKeeps == ASSUME BrokerOK, NEW p \in Procs, Launch(p)
                     PROVE  BrokerOK'
BY DEF BrokerOK, Launch, Step, BrokerTypeOK, Phases, Requests, SocketOwned,
       PrimaryReachable, HoldsLock, Listening

LEMMA CrashKeeps == ASSUME BrokerOK, NEW p \in Procs, Crash(p)
                    PROVE  BrokerOK'
<1>1. at' \in [Requests -> Queues] /\ SocketOwned'
  BY DrainKeeps DEF BrokerOK, Crash, Queues, SocketOwned
<1>2. PrimaryReachable'
  BY DEF BrokerOK, Crash, BrokerTypeOK, PrimaryReachable, HoldsLock, Listening
<1> QED BY <1>1, <1>2 DEF BrokerOK, Crash, BrokerTypeOK, Phases

-----------------------------------------------------------------------------
(* What the steps of the primary keep. *)
LEMMA InvParts == Inv <=> /\ BrokerOK /\ UiOK
                          /\ stage \in [Procs -> {"building", "wired", "ready"}]
                          /\ todo \in [Procs -> SUBSET Docs]
BY DEF Inv, TypeOK, BrokerOK, UiOK

(* A step that leaves the processes where they are. *)
Settled == UNCHANGED <<phase, lock, name>>

LEMMA SettledKeeps ==
  ASSUME BrokerOK, Settled,
         req' \in [Requests -> SUBSET Docs],
         at' \in [Requests -> Queues],
         to' \in [Requests -> Procs \cup {none}],
         SocketOwned'
  PROVE  BrokerOK'
BY DEF BrokerOK, Settled, BrokerTypeOK, PrimaryReachable, HoldsLock, Listening

LEMMA DecideKeeps ==
  ASSUME Inv, NEW p \in Procs, NEW queue \in SUBSET Requests, Decide(p, queue)
  PROVE  /\ UiOK'
         /\ stage' \in [Procs -> {"building", "wired", "ready"}]
         /\ todo' \in [Procs -> SUBSET Docs]
         /\ at' \in [Requests -> Queues]
         /\ \A r \in Requests : at'[r] = "socket" => at[r] = "socket"
<1> DEFINE docs == UNION {req[r] : r \in queue}
<1>1. docs \in SUBSET Docs
  BY DEF Inv, TypeOK, BrokerTypeOK
<1>2. UiOK'
  <2>1. CASE docs = {}
    BY <2>1, ShownKeeps, InvParts DEF Decide
  <2>2. CASE docs # {}
    BY <2>2, InvParts DEF Decide, UiOK, AskedAreRoots
  <2> QED BY <2>1, <2>2
<1>3. /\ at' \in [Requests -> Queues]
      /\ \A r \in Requests : at'[r] = "socket" => at[r] = "socket"
  BY DEF Decide, Inv, TypeOK, BrokerTypeOK, Queues
<1>4. /\ stage' \in [Procs -> {"building", "wired", "ready"}]
      /\ todo' \in [Procs -> SUBSET Docs]
  BY <1>1 DEF Decide, Inv, TypeOK
<1> QED BY <1>2, <1>3, <1>4

LEMMA WireKeeps == ASSUME Inv, NEW p \in Procs, Wire(p)
                   PROVE  Inv'
<1> DEFINE queue == Queued(p, "pending") \cup {p}
<1>1. queue \in SUBSET Requests
  BY DEF Queued, Requests
<1>2. /\ UiOK'
      /\ stage' \in [Procs -> {"building", "wired", "ready"}]
      /\ todo' \in [Procs -> SUBSET Docs]
      /\ at' \in [Requests -> Queues]
      /\ \A r \in Requests : at'[r] = "socket" => at[r] = "socket"
  <2>1. CASE Decide(p, queue)
    BY <2>1, <1>1, DecideKeeps
  <2>2. CASE /\ stage' = [stage EXCEPT ![p] = "wired"]
             /\ at' = [r \in Requests |-> IF r \in queue THEN "buffered" ELSE at[r]]
             /\ UNCHANGED <<todo, win, asked>>
    BY <2>2 DEF Inv, TypeOK, BrokerTypeOK, Queues, UiOK, AskedAreRoots
  <2> QED BY <2>1, <2>2 DEF Wire
<1>3. to' \in [Requests -> Procs \cup {none}] /\ SocketOwned'
  BY <1>2 DEF Wire, Inv, TypeOK, BrokerTypeOK, SocketOwned
<1>4. req' \in [Requests -> SUBSET Docs] /\ Settled
  BY DEF Wire, Settled, Inv, TypeOK, BrokerTypeOK
<1>5. BrokerOK'
  BY <1>2, <1>3, <1>4, SettledKeeps DEF Inv, TypeOK, BrokerOK
<1> QED BY <1>2, <1>3, <1>4, <1>5 DEF Inv, TypeOK, BrokerOK, UiOK

LEMMA SettleKeeps == ASSUME Inv, NEW p \in Procs, Settle(p)
                     PROVE  Inv'
<1>1. Queued(p, "buffered") \in SUBSET Requests
  BY DEF Queued
<1>2. /\ UiOK'
      /\ stage' \in [Procs -> {"building", "wired", "ready"}]
      /\ todo' \in [Procs -> SUBSET Docs]
      /\ at' \in [Requests -> Queues]
      /\ \A r \in Requests : at'[r] = "socket" => at[r] = "socket"
  BY <1>1, DecideKeeps DEF Settle
<1>3. /\ to' \in [Requests -> Procs \cup {none}] /\ SocketOwned'
      /\ req' \in [Requests -> SUBSET Docs] /\ Settled
  BY <1>2 DEF Settle, Settled, Inv, TypeOK, BrokerTypeOK, SocketOwned
<1>4. BrokerOK'
  BY <1>2, <1>3, SettledKeeps DEF Inv, TypeOK, BrokerOK
<1> QED BY <1>2, <1>3, <1>4 DEF Inv, TypeOK, BrokerOK, UiOK

LEMMA DecisionFailsKeeps ==
  ASSUME Inv, NEW p \in Procs, DecisionFails(p)
  PROVE  Inv'
<1>1. UiOK'
  BY InvParts DEF DecisionFails, UiOK, AskedAreRoots
<1>2. at' \in [Requests -> Queues] /\ SocketOwned'
  <2>1. {"buffered", "opening"} \in SUBSET Queues /\ "failed" \in Queues \ {"socket"}
    BY DEF Queues
  <2>2. at' = Drained(p, {"buffered", "opening"}, "failed") /\ UNCHANGED to
    BY DEF DecisionFails
  <2>3. BrokerTypeOK /\ SocketOwned
    BY DEF Inv, TypeOK
  <2>4. /\ Drained(p, {"buffered", "opening"}, "failed") \in [Requests -> Queues]
        /\ \A r \in Requests :
             Drained(p, {"buffered", "opening"}, "failed")[r] = "socket" => at[r] = "socket"
    BY <2>1, <2>3, DrainKeeps
  <2> HIDE DEF Drained
  <2> QED BY <2>2, <2>3, <2>4 DEF SocketOwned
<1>3. /\ to' \in [Requests -> Procs \cup {none}]
      /\ req' \in [Requests -> SUBSET Docs] /\ Settled
      /\ stage' \in [Procs -> {"building", "wired", "ready"}]
      /\ todo' \in [Procs -> SUBSET Docs]
  BY DEF DecisionFails, Settled, Inv, TypeOK, BrokerTypeOK
<1>4. BrokerOK'
  BY <1>1, <1>2, <1>3, SettledKeeps DEF Inv, TypeOK, BrokerOK
<1> QED BY <1>1, <1>2, <1>3, <1>4 DEF Inv, TypeOK, BrokerOK, UiOK

LEMMA OpenNextKeeps ==
  ASSUME Inv, NEW p \in Procs, NEW d \in Docs, OpenNext(p, d)
  PROVE  Inv'
<1>1. UiOK'
  <2>1. CASE Shown(p)
    BY <2>1, ShownKeeps, InvParts
  <2>2. CASE Open(p, {d})
    BY <2>2, OpenKeeps, InvParts
  <2> QED BY <2>1, <2>2 DEF OpenNext
<1>2. at' \in [Requests -> Queues] /\ SocketOwned'
  <2>1. CASE at' = at
    BY <2>1 DEF OpenNext, Inv, TypeOK, BrokerTypeOK, SocketOwned
  <2>2. CASE at' = Drained(p, {"opening"}, "done")
    BY SMTT(30), <2>2, DrainKeeps DEF OpenNext, Inv, TypeOK, Queues, SocketOwned
  <2> QED BY <2>1, <2>2 DEF OpenNext
<1>3. /\ to' \in [Requests -> Procs \cup {none}]
      /\ req' \in [Requests -> SUBSET Docs] /\ Settled
      /\ stage' \in [Procs -> {"building", "wired", "ready"}]
      /\ todo' \in [Procs -> SUBSET Docs]
  BY DEF OpenNext, Settled, Inv, TypeOK, BrokerTypeOK
<1>4. BrokerOK'
  BY <1>1, <1>2, <1>3, SettledKeeps DEF Inv, TypeOK, BrokerOK
<1> QED BY <1>1, <1>2, <1>3, <1>4 DEF Inv, TypeOK, BrokerOK, UiOK

LEMMA SubmitKeeps ==
  ASSUME Inv, NEW p \in Procs, NEW r \in Requests, Submit(p, r),
         req' \in [Requests -> SUBSET Docs]
  PROVE  /\ UiOK'
         /\ at' \in [Requests -> Queues]
         /\ \A q \in Requests : at'[q] = "socket" => at[q] = "socket"
<1>1. UiOK'
  <2>1. CASE UNCHANGED <<win, asked>>
    BY <2>1, InvParts DEF UiOK, AskedAreRoots
  <2>2. CASE Shown(p)
    BY <2>2, ShownKeeps, InvParts
  <2>3. CASE Open(p, req'[r])
    BY <2>3, OpenKeeps, InvParts
  <2> QED BY <2>1, <2>2, <2>3 DEF Submit
<1>2. /\ at' \in [Requests -> Queues]
      /\ \A q \in Requests : at'[q] = "socket" => at[q] = "socket"
  BY DEF Submit, Inv, TypeOK, BrokerTypeOK, Queues
<1> QED BY <1>1, <1>2

LEMMA ReceiveKeeps == ASSUME Inv, NEW r \in Requests, Receive(r)
                      PROVE  Inv'
<1>1. to[r] \in Procs
  BY DEF Receive, Inv, SocketOwned
<1>2. /\ req' \in [Requests -> SUBSET Docs]
      /\ to' \in [Requests -> Procs \cup {none}] /\ Settled
      /\ stage' \in [Procs -> {"building", "wired", "ready"}]
      /\ todo' \in [Procs -> SUBSET Docs]
  BY DEF Receive, Settled, Inv, TypeOK, BrokerTypeOK
<1>3. /\ UiOK' /\ at' \in [Requests -> Queues]
      /\ \A q \in Requests : at'[q] = "socket" => at[q] = "socket"
  BY <1>1, <1>2, SubmitKeeps DEF Receive
<1>4. SocketOwned'
  BY <1>3 DEF Receive, Inv, SocketOwned
<1>5. BrokerOK'
  BY <1>2, <1>3, <1>4, SettledKeeps DEF Inv, TypeOK, BrokerOK
<1> QED BY <1>2, <1>3, <1>4, <1>5 DEF Inv, TypeOK, BrokerOK, UiOK

LEMMA EventKeeps ==
  ASSUME Inv, NEW p \in Procs, NEW e \in Events, FileOpenEvent(e, p)
  PROVE  Inv'
<1>1. /\ req' \in [Requests -> SUBSET Docs]
      /\ to' \in [Requests -> Procs \cup {none}] /\ Settled
      /\ stage' \in [Procs -> {"building", "wired", "ready"}]
      /\ todo' \in [Procs -> SUBSET Docs]
  BY ZenonT(40) DEF FileOpenEvent, Settled, Inv, TypeOK, BrokerTypeOK
<1>2. e \in Requests
  BY DEF Requests
<1>3. /\ UiOK' /\ at' \in [Requests -> Queues]
      /\ \A q \in Requests : at'[q] = "socket" => at[q] = "socket"
  BY <1>1, <1>2, SubmitKeeps DEF FileOpenEvent
<1>4. SocketOwned'
  BY <1>3 DEF FileOpenEvent, Inv, TypeOK, BrokerTypeOK, SocketOwned
<1>5. BrokerOK'
  BY <1>1, <1>3, <1>4, SettledKeeps DEF Inv, TypeOK, BrokerOK
<1> QED BY <1>1, <1>3, <1>4, <1>5 DEF Inv, TypeOK, BrokerOK, UiOK

-----------------------------------------------------------------------------
(* What the user's steps keep.  A window that closes takes nothing the     *)
(* system asked for with it but itself.                                    *)
LEMMA LeaveKeeps == ASSUME Inv, NEW p \in Procs, phase[p] = "primary", Leave(p)
                    PROVE  Inv'
<1>1. UiOK'
  BY ClearKeeps, InvParts DEF Leave
<1>2. BrokerOK'
  BY DEF Leave, ipc, Inv, TypeOK, BrokerOK, BrokerTypeOK, Phases, SocketOwned,
         PrimaryReachable, HoldsLock, Listening
<1>3. /\ stage' \in [Procs -> {"building", "wired", "ready"}]
      /\ todo' \in [Procs -> SUBSET Docs]
  BY DEF Leave, ClearUi, Inv, TypeOK
<1> QED BY <1>1, <1>2, <1>3 DEF Inv, TypeOK, BrokerOK, UiOK

LEMMA CloseStepKeeps ==
  ASSUME Inv, NEW p \in Procs, NEW w \in W!Windows, Close(p, w),
         asked[p] \cap w.owned = {}
  PROVE  Inv'
<1>1. UiOK'
  BY CloseKeeps, InvParts
<1> QED BY <1>1 DEF Close, brokerVars, ipc, UiOK, Inv, TypeOK, BrokerTypeOK,
                    PrimaryReachable, HoldsLock, Listening, SocketOwned

LEMMA UserClosesMainKeeps == ASSUME Inv, NEW p \in Procs, UserClosesMain(p)
                             PROVE  Inv'
<1>1. /\ W!CloseMain(win[p]) \in W!Windows
      /\ asked[p] \cap W!CloseMain(win[p]).owned = {}
  BY CloseMainType DEF Inv, TypeOK
<1>2. CASE Close(p, W!CloseMain(win[p]))
  BY <1>1, <1>2, CloseStepKeeps
<1>3. CASE Leave(p)
  BY <1>3, LeaveKeeps DEF UserClosesMain, Ready
<1> QED BY <1>2, <1>3 DEF UserClosesMain, UserCloses

LEMMA UserClosesReaderKeeps ==
  ASSUME Inv, NEW p \in Procs, NEW d \in Docs, UserClosesReader(p, d)
  PROVE  Inv'
<1>1. /\ W!CloseReader(win[p], d) \in W!Windows
      /\ asked[p] \cap W!CloseReader(win[p], d).owned = {}
  BY CloseReaderType DEF Inv, TypeOK, AskedAreRoots
<1>2. CASE Close(p, W!CloseReader(win[p], d))
  BY <1>1, <1>2, CloseStepKeeps
<1>3. CASE Leave(p)
  BY <1>3, LeaveKeeps DEF UserClosesReader, Ready
<1> QED BY <1>2, <1>3 DEF UserClosesReader, UserCloses

LEMMA UserOpensKeeps ==
  ASSUME Inv, NEW p \in Procs, NEW d \in Docs, UserOpens(p, d)
  PROVE  Inv'
<1>1. win[p] \in W!Windows /\ win[p].main
  BY DEF UserOpens, Inv, TypeOK
<1>2. win' \in [Procs -> W!Windows]
  BY <1>1, FromLibraryType DEF UserOpens, SetWin, Inv, TypeOK
<1>3. ASSUME NEW q \in Procs
      PROVE  asked'[q] \subseteq win'[q].readers \ win'[q].owned
  <2>1. CASE q = p
    BY <2>1, <1>1, FromLibraryType
    DEF UserOpens, SetWin, Inv, TypeOK, AskedAreRoots
  <2>2. CASE q # p
    BY <2>2 DEF UserOpens, SetWin, Inv, TypeOK, AskedAreRoots
  <2> QED BY <2>1, <2>2
<1> QED BY <1>2, <1>3
        DEF UserOpens, brokerVars, ipc, Inv, TypeOK, BrokerTypeOK, AskedAreRoots,
            PrimaryReachable, HoldsLock, Listening, SocketOwned

LEMMA ReopenKeeps == ASSUME Inv, NEW p \in Procs, Reopen(p)
                     PROVE  Inv'
<1>1. UiOK'
  BY ShownKeeps, InvParts DEF Reopen
<1> QED BY <1>1 DEF Reopen, brokerVars, ipc, UiOK, Inv, TypeOK, BrokerTypeOK,
                    PrimaryReachable, HoldsLock, Listening, SocketOwned

(* A step of the broker alone. *)
LEMMA BrokerStepKeeps == ASSUME Inv, BrokerOK', UNCHANGED uiVars
                         PROVE  Inv'
BY DEF Inv, BrokerOK, uiVars, TypeOK, AskedAreRoots

LEMMA DiesKeeps == ASSUME Inv, NEW p \in Procs, Dies(p)
                   PROVE  Inv'
<1>1. UiOK' /\ BrokerOK'
  BY ClearKeeps, CrashKeeps, InvParts DEF Dies
<1>2. /\ stage' \in [Procs -> {"building", "wired", "ready"}]
      /\ todo' \in [Procs -> SUBSET Docs]
  BY DEF Dies, ClearUi, Inv, TypeOK
<1> QED BY <1>1, <1>2 DEF Inv, TypeOK, BrokerOK, UiOK

-----------------------------------------------------------------------------
LEMMA InitInv == Init => Inv
<1> SUFFICES ASSUME Init PROVE Inv
  OBVIOUS
<1>1. BrokerOK
  BY DEF Init, BrokerInit, BrokerOK, BrokerTypeOK, Phases, Queues, Requests,
         PrimaryReachable, HoldsLock, Listening, SocketOwned
<1>2. UiOK
  BY NoWindowsType DEF Init, UiOK, AskedAreRoots
<1> QED BY <1>1, <1>2 DEF Init, Inv, TypeOK, BrokerOK, UiOK

LEMMA StepInv == Inv /\ [Next]_vars => Inv'
<1> SUFFICES ASSUME Inv, [Next]_vars PROVE Inv'
  OBVIOUS
<1> BrokerOK
  BY InvParts
<1>1. CASE UNCHANGED vars
  BY <1>1 DEF vars, brokerVars, ipc, uiVars, Inv, TypeOK, BrokerTypeOK,
              PrimaryReachable, HoldsLock, Listening, AskedAreRoots, SocketOwned
<1>2. ASSUME NEW p \in Procs, Launch(p) /\ UNCHANGED uiVars
      PROVE  Inv'
  BY <1>2, LaunchKeeps, BrokerStepKeeps
<1>3. ASSUME NEW p \in Procs, Arbitrate(p)
      PROVE  Inv'
  BY <1>3, ArbitrateKeeps, BrokerStepKeeps DEF Arbitrate
<1>4. ASSUME NEW p \in Procs, Dispose(p)
      PROVE  Inv'
  BY <1>4, DisposeKeeps, BrokerStepKeeps DEF Dispose
<1>5. ASSUME NEW p \in Procs,
             Wire(p) \/ Settle(p) \/ DecisionFails(p) \/ Reopen(p)
             \/ UserClosesMain(p) \/ Quit(p) \/ Dies(p)
      PROVE  Inv'
  BY <1>5, WireKeeps, SettleKeeps, DecisionFailsKeeps, ReopenKeeps,
     UserClosesMainKeeps, LeaveKeeps,
     DiesKeeps DEF Quit
<1>6. ASSUME NEW p \in Procs, NEW d \in Docs,
             OpenNext(p, d) \/ UserOpens(p, d) \/ UserClosesReader(p, d)
      PROVE  Inv'
  BY <1>6, OpenNextKeeps, UserOpensKeeps, UserClosesReaderKeeps
<1>7. ASSUME NEW p \in Procs, NEW e \in Events, FileOpenEvent(e, p)
      PROVE  Inv'
  BY <1>7, EventKeeps
<1>8. ASSUME NEW r \in Requests, Receive(r)
      PROVE  Inv'
  BY <1>8, ReceiveKeeps
<1> QED BY <1>1, <1>2, <1>3, <1>4, <1>5, <1>6, <1>7, <1>8 DEF Next

(* Every reachable state is well formed, the names lead to the listening   *)
(* primary, and what the system asked for is a root.                       *)
THEOREM Invariance == Spec => []Inv
BY InitInv, StepInv, PTL DEF Spec

(* The states keep their shapes: a reader the library owns is open, and so *)
(* is the library (single_instance_broker.py, coordinator.py, manager.py). *)
THEOREM LaunchTypes == Spec => []TypeOK
<1>1. Inv => TypeOK
  BY DEF Inv
<1> QED BY <1>1, Invariance, PTL

(* However many processes start, quit and die, in whatever order: the      *)
(* socket file belongs to the primary that listens, and one process at a   *)
(* time holds the lock (_start_primary_server and dispose()).              *)
THEOREM NameLeadsToPrimary == Spec => []PrimaryReachable
<1>1. Inv => PrimaryReachable
  BY DEF Inv
<1> QED BY <1>1, Invariance, PTL

-----------------------------------------------------------------------------
(* Only the user's closing of the library takes the main window away from  *)
(* a process that stays a primary.                                         *)
LEMMA MainGoes ==
  ASSUME Inv, [Next]_vars, NEW p \in Procs,
         phase'[p] = "primary", win[p].main, ~win'[p].main
  PROVE  Close(p, W!CloseMain(win[p]))
<1> win[p] \in W!Windows
  BY DEF Inv, TypeOK
<1>1. ASSUME NEW q \in Procs, NEW docs \in SUBSET Docs, Shown(q) \/ Open(q, docs)
      PROVE  FALSE
  <2>1. win[q] \in W!Windows /\ win \in [Procs -> W!Windows]
    BY DEF Inv, TypeOK
  <2>2. CASE Shown(q)
    <3>1. W!ShowLibrary(win[q]).main
      BY <2>1 DEF W!ShowLibrary, W!Windows
    <3> QED BY <2>1, <2>2, <3>1 DEF Shown, SetWin
  <2>3. CASE Open(q, docs)
    <3>1. win[q].main => W!OpenFiles(win[q], docs).main
      BY <2>1, OpenType
    <3> QED BY <2>1, <2>3, <3>1 DEF Open, SetWin
  <2> QED BY <1>1, <2>2, <2>3
<1>2. ASSUME UNCHANGED win PROVE FALSE
  BY <1>2
<1>3. ASSUME NEW q \in Procs, ClearUi(q), phase'[q] # "primary" PROVE FALSE
  BY <1>3 DEF ClearUi, SetWin, Inv, TypeOK
<1>4. ASSUME NEW q \in Procs, NEW queue \in SUBSET Requests, Decide(q, queue)
      PROVE  FALSE
  <2>1. UNION {req[r] : r \in queue} \in SUBSET Docs
    BY DEF Inv, TypeOK, BrokerTypeOK
  <2> QED BY <1>4, <1>1, <1>2, <2>1 DEF Decide
<1>5. ASSUME NEW q \in Procs, Leave(q) PROVE FALSE
  BY <1>5, <1>3 DEF Leave, Inv, TypeOK, BrokerTypeOK
<1>6. ASSUME NEW q \in Procs, Dies(q) PROVE FALSE
  BY <1>6, <1>3 DEF Dies, Crash, Inv, TypeOK, BrokerTypeOK
<1>7. ASSUME NEW q \in Procs, Wire(q) \/ Settle(q) PROVE FALSE
  <2>1. /\ Queued(q, "pending") \cup {q} \in SUBSET Requests
        /\ Queued(q, "buffered") \in SUBSET Requests
    BY DEF Queued, Requests
  <2> QED BY <1>7, <2>1, <1>4, <1>2 DEF Wire, Settle
<1>8. ASSUME NEW q \in Procs, NEW r \in Requests, Submit(q, r),
             req' \in [Requests -> SUBSET Docs]
      PROVE  FALSE
  BY <1>8, <1>1, <1>2 DEF Submit
<1>9. ASSUME NEW r \in Requests, Receive(r) PROVE FALSE
  BY <1>9, <1>8 DEF Receive, Inv, TypeOK, BrokerTypeOK, SocketOwned
<1>10. ASSUME NEW q \in Procs, NEW e \in Events, FileOpenEvent(e, q) PROVE FALSE
  <2>1. e \in Requests /\ req' \in [Requests -> SUBSET Docs]
    BY <1>10 DEF FileOpenEvent, Requests, Inv, TypeOK, BrokerTypeOK
  <2> QED BY <1>10, <2>1, <1>8 DEF FileOpenEvent
<1>11. ASSUME NEW q \in Procs, NEW d \in Docs, OpenNext(q, d) PROVE FALSE
  BY <1>11, <1>1 DEF OpenNext
<1>12. ASSUME NEW q \in Procs, NEW d \in Docs, UserOpens(q, d) PROVE FALSE
  <2>1. win[q] \in W!Windows /\ win[q].main
    BY <1>12 DEF UserOpens, Inv, TypeOK
  <2> QED BY <1>12, <2>1, FromLibraryType DEF UserOpens, SetWin, Inv, TypeOK
<1>13. ASSUME NEW q \in Procs, NEW d \in Docs, UserClosesReader(q, d) PROVE FALSE
  <2>1. win[q] \in W!Windows
    BY DEF Inv, TypeOK
  <2>2. CASE Close(q, W!CloseReader(win[q], d))
    BY <2>1, <2>2, CloseReaderType DEF Close, SetWin, Inv, TypeOK
  <2> QED BY <1>13, <2>2, <1>5 DEF UserClosesReader, UserCloses
<1>14. ASSUME NEW q \in Procs, UserClosesMain(q)
       PROVE  Close(p, W!CloseMain(win[p]))
  <2>1. Close(q, W!CloseMain(win[q]))
    BY <1>14, <1>5 DEF UserClosesMain, UserCloses
  <2>2. q = p
    BY <2>1 DEF Close, SetWin, Inv, TypeOK
  <2> QED BY <2>1, <2>2
<1>15. ASSUME NEW q \in Procs, DecisionFails(q) PROVE FALSE
  BY <1>15, <1>2 DEF DecisionFails
<1> QED BY <1>1, <1>2, <1>5, <1>6, <1>7, <1>9, <1>10, <1>11, <1>12, <1>13, <1>14, <1>15
        DEF Next, vars, uiVars, Arbitrate, Dispose, Reopen, Quit

(* Closing the library leaves every reader the system asked for open, also *)
(* one the library had opened before (open_files and promote_to_root).     *)
THEOREM AskedOutlive == Spec => AskedOutliveMain
<1>1. Inv /\ [Next]_vars =>
        \A p \in Procs : phase'[p] = "primary" /\ win[p].main /\ ~win'[p].main
                           => asked[p] \subseteq win'[p].readers
  <2> SUFFICES ASSUME Inv, [Next]_vars, NEW p \in Procs,
                      phase'[p] = "primary", win[p].main, ~win'[p].main
               PROVE  asked[p] \subseteq win'[p].readers
    OBVIOUS
  <2>1. Close(p, W!CloseMain(win[p]))
    BY MainGoes
  <2>2. win'[p].readers = win[p].readers \ win[p].owned
    BY <2>1, CloseMainType DEF Close, SetWin, Inv, TypeOK
  <2> QED BY <2>2 DEF Inv, AskedAreRoots
<1> QED BY <1>1, Invariance, PTL DEF Spec, AskedOutliveMain
=============================================================================
