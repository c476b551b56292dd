-------------------------------- MODULE Launch --------------------------------
(***************************************************************************)
(* The processes of one profile from launch to exit: the broker of each    *)
(* (LaunchBroker), and in the primary the router of document events, the   *)
(* coordinator that decides on the first window, and the window manager.   *)
(*                                                                         *)
(* Opening a window pumps events, so while the coordinator opens the       *)
(* documents of the launch one after the other, requests come in between.  *)
(* A process without windows quits unless it stays resident in the tray.   *)
(***************************************************************************)
EXTENDS LaunchBroker

CONSTANTS
  Unopenable,   \* documents the window manager refuses
  Resident      \* does the last window leave the process in the tray?

ASSUME WindowAssumption == Unopenable \subseteq Docs /\ Resident \subseteq BOOLEAN

VARIABLES
  stage,    \* stage[p]: "building", "wired" (handlers set, gate open) or "ready"
  todo,     \* todo[p]: documents of the first decision not opened yet
  win,      \* win[p]: the windows
  asked     \* asked[p]: documents the system asked for whose window is open

uiVars == <<stage, todo, win, asked>>
vars == <<brokerVars, uiVars>>

W == INSTANCE WindowOwnership

Init ==
  /\ BrokerInit
  /\ stage = [p \in Procs |-> "building"]
  /\ todo = [p \in Procs |-> {}]
  /\ win = [p \in Procs |-> W!NoWindows]
  /\ asked = [p \in Procs |-> {}]

SetWin(p, w) == win' = [win EXCEPT ![p] = w]

(* The windows of a process die with it. *)
ClearUi(p) ==
  /\ stage' = [stage EXCEPT ![p] = "building"]
  /\ todo' = [todo EXCEPT ![p] = {}]
  /\ SetWin(p, W!NoWindows)
  /\ asked' = [asked EXCEPT ![p] = {}]

Open(p, docs) ==
  /\ SetWin(p, W!OpenFiles(win[p], docs))
  /\ asked' = [asked EXCEPT ![p] = @ \cup (docs \ Unopenable)]

Shown(p) ==
  /\ SetWin(p, W!ShowLibrary(win[p]))
  /\ UNCHANGED asked

(* _settle_bound on the requests in `queue`: they are merged, "show the    *)
(* library" counts only where nothing asks for a document.                 *)
Decide(p, queue) ==
  LET docs == UNION {req[r] : r \in queue}
  IN  /\ stage' = [stage EXCEPT ![p] = "ready"]
      /\ todo' = [todo EXCEPT ![p] = docs]
      /\ at' = [r \in Requests |-> IF r \notin queue THEN at[r]
                                   ELSE IF docs = {} THEN "done" ELSE "opening"]
      /\ IF docs = {} THEN Shown(p) ELSE UNCHANGED <<win, asked>>

Queued(p, queue) == {r \in Requests : to[r] = p /\ at[r] = queue}

(* Mutant: what waits for the handlers is left where it is. *)
WireKeepingPending(p) ==
  /\ phase[p] = "primary"
  /\ stage[p] = "building"
  /\ to' = [to EXCEPT ![p] = p]
  /\ \/ Decide(p, {p})
     \/ /\ stage' = [stage EXCEPT ![p] = "wired"]
        /\ at' = [at EXCEPT ![p] = "buffered"]
        /\ UNCHANGED <<todo, win, asked>>
  /\ UNCHANGED <<phase, lock, name, req>>

(* _configure_window_management: both handlers are set, which empties      *)
(* what waited for them, and the coordinator starts with the documents of  *)
(* the command line.  A gate that has resolved settles at once.            *)
Wire(p) ==
  /\ phase[p] = "primary"
  /\ stage[p] = "building"
  /\ to' = [to EXCEPT ![p] = p]
  /\ LET queue == Queued(p, "pending") \cup {p}
     IN  \/ Decide(p, queue)
         \/ /\ stage' = [stage EXCEPT ![p] = "wired"]
            /\ at' = [r \in Requests |-> IF r \in queue THEN "buffered" ELSE at[r]]
            /\ UNCHANGED <<todo, win, asked>>
  /\ UNCHANGED <<phase, lock, name, req>>

(* The gate resolves: the launch notification, or the backstop timer. *)
Settle(p) ==
  /\ phase[p] = "primary"
  /\ stage[p] = "wired"
  /\ Decide(p, Queued(p, "buffered"))
  /\ UNCHANGED <<phase, lock, name, req, to>>

(* One window of the first decision.  After the last, the library is shown *)
(* if not one of the documents could be opened.                            *)
OpenNext(p, d) ==
  LET first == UNION {req[r] : r \in Queued(p, "opening")}
      last  == todo[p] = {d}
  IN  /\ phase[p] = "primary"
      /\ d \in todo[p]
      /\ todo' = [todo EXCEPT ![p] = @ \ {d}]
      /\ IF last /\ first \subseteq Unopenable THEN Shown(p) ELSE Open(p, {d})
      /\ at' = IF last THEN Drained(p, {"opening"}, "done") ELSE at
      /\ UNCHANGED <<phase, lock, name, req, to, stage>>

(* A window of the first decision cannot be made: the error is logged, and *)
(* what the decision had still to open is given up.  Where the gate had    *)
(* resolved at once the exception leaves run() as well: Dies.              *)
DecisionFails(p) ==
  /\ phase[p] = "primary"
  /\ stage[p] = "wired" \/ todo[p] # {}
  /\ stage' = [stage EXCEPT ![p] = "ready"]
  /\ todo' = [todo EXCEPT ![p] = {}]
  /\ at' = Drained(p, {"buffered", "opening"}, "failed")
  /\ UNCHANGED <<phase, lock, name, req, to, win, asked>>

(* submit(), and before there is a handler the queue in front of it; a     *)
(* window that cannot be made is logged.                                   *)
Submit(p, r) ==
  \/ /\ stage[p] # "ready"
     /\ at' = [at EXCEPT ![r] = IF stage[p] = "building" THEN "pending" ELSE "buffered"]
     /\ UNCHANGED <<win, asked>>
  \/ /\ stage[p] = "ready"
     /\ at' = [at EXCEPT ![r] = "done"]
     /\ IF req'[r] = {} THEN Shown(p) ELSE Open(p, req'[r])
  \/ /\ stage[p] = "ready"
     /\ at' = [at EXCEPT ![r] = "failed"]
     /\ UNCHANGED <<win, asked>>

(* The event loop reads a secondary's message. *)
Receive(r) ==
  /\ at[r] = "socket"
  /\ UNCHANGED <<phase, lock, name, req, to, stage, todo>>
  /\ Submit(to[r], r)

(* The system delivers a document event to the running process. *)
FileOpenEvent(e, p) ==
  /\ phase[p] = "primary"
  /\ at[e] = "nowhere"
  /\ \E d \in Docs : req' = [req EXCEPT ![e] = {d}]
  /\ to' = [to EXCEPT ![e] = p]
  /\ Submit(p, e)
  /\ UNCHANGED <<phase, lock, name, stage, todo>>

-----------------------------------------------------------------------------
(* Once the first window is decided on, the user opens and closes windows. *)
Ready(p) == phase[p] = "primary" /\ stage[p] = "ready"

UserOpens(p, d) ==
  /\ Ready(p)
  /\ win[p].main
  /\ SetWin(p, W!OpenFromLibrary(win[p], d))
  /\ UNCHANGED <<brokerVars, stage, todo, asked>>

(* handle_reopen, and the tray: the library where there is no window. *)
Reopen(p) ==
  /\ Ready(p)
  /\ todo[p] = {}
  /\ ~W!HasWindows(win[p])
  /\ Shown(p)
  /\ UNCHANGED <<brokerVars, stage, todo>>

(* The last window closes: the process quits, or stays in the tray. *)
Leave(p) ==
  /\ phase' = [phase EXCEPT ![p] = "leaving"]
  /\ ClearUi(p)
  /\ UNCHANGED <<lock, name, ipc>>

Close(p, w) ==
  /\ SetWin(p, w)
  /\ asked' = [asked EXCEPT ![p] = @ \cap w.readers]
  /\ UNCHANGED <<brokerVars, stage, todo>>

UserCloses(p, last, w) ==
  \/ ~last /\ Close(p, w)
  \/ last /\ TRUE \in Resident /\ Close(p, w)
  \/ last /\ FALSE \in Resident /\ Leave(p)

UserClosesMain(p) ==
  /\ Ready(p)
  /\ win[p].main
  /\ UserCloses(p, W!MainIsLast(win[p]), W!CloseMain(win[p]))

UserClosesReader(p, d) ==
  /\ Ready(p)
  /\ d \in win[p].readers
  /\ UserCloses(p, W!ReaderIsLast(win[p], d), W!CloseReader(win[p], d))

(* The user quits, or the runtime of the primary cannot be built. *)
Quit(p) == phase[p] = "primary" /\ Leave(p)

Dies(p) == Crash(p) /\ ClearUi(p)

-----------------------------------------------------------------------------
Arbitrate(p) ==
  /\ \/ Claim(p) \/ BecomeSecondary(p) \/ LockError(p) \/ Listen(p)
     \/ ListenFails(p) \/ Connect(p) \/ Write(p) \/ WriteFails(p) \/ GiveUp(p)
  /\ UNCHANGED uiVars

Dispose(p) ==
  /\ DropRequests(p) \/ RemoveName(p) \/ Unlock(p) \/ CloseRuntime(p)
  /\ UNCHANGED uiVars

Next ==
  \/ \E p \in Procs :
       \/ Launch(p) /\ UNCHANGED uiVars
       \/ Arbitrate(p) \/ Wire(p) \/ Settle(p) \/ DecisionFails(p) \/ Reopen(p)
       \/ UserClosesMain(p) \/ Quit(p) \/ Dispose(p) \/ Dies(p)
       \/ \E d \in Docs : OpenNext(p, d) \/ UserOpens(p, d) \/ UserClosesReader(p, d)
       \/ \E e \in Events : FileOpenEvent(e, p)
  \/ \E r \in Requests : Receive(r)

Spec == Init /\ [][Next]_vars

(* A process executes the code it is in, its gate resolves at the latest   *)
(* by its backstop timer, and the event loop reads what a socket holds.    *)
Fairness ==
  /\ \A p \in Procs : /\ WF_vars(Arbitrate(p) \/ Wire(p) \/ Settle(p) \/ Dispose(p))
                      /\ WF_vars(\E d \in Docs : OpenNext(p, d))
  /\ \A r \in Requests : WF_vars(Receive(r))

FairSpec == Spec /\ Fairness

-----------------------------------------------------------------------------
(* Shapes, and what the queues say of the processes they belong to. *)
TypeOK ==
  /\ BrokerTypeOK
  /\ stage \in [Procs -> {"building", "wired", "ready"}]
  /\ todo \in [Procs -> SUBSET Docs]
  /\ win \in [Procs -> W!Windows]
  /\ asked \in [Procs -> SUBSET Docs]

(* A window the system asked for outlives the library: a reader closes     *)
(* with the library only if nobody asked for its document since it opened. *)
AskedOutliveMain ==
  [][\A p \in Procs :
       phase'[p] = "primary" /\ win[p].main /\ ~win'[p].main
         => asked[p] \subseteq win'[p].readers]_vars

(* What was handed over is answered, by a window, by the library in its    *)
(* place or by a logged failure, in whatever queue it stands, unless the   *)
(* primary goes away: nothing waits where nobody looks any more.           *)
RequestAnswered ==
  \A r \in Requests :
    at[r] \in {"socket", "pending", "buffered", "opening"}
      ~> at[r] \in {"done", "failed"} \/ to[r] \notin Listening
=============================================================================
