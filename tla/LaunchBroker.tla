----------------------------- MODULE LaunchBroker -----------------------------
(***************************************************************************)
(* Which of the JoyRead processes of one profile is the primary, and how   *)
(* the others hand it what they were launched to open.                     *)
(*                                                                         *)
(* The operating system keeps three things between the processes: the file *)
(* of the profile lock, the socket file that carries the server's name,    *)
(* and the bytes on their way between a secondary and its primary.  A      *)
(* process that dies leaves both files behind: nobody holds its lock, and  *)
(* nobody answers at its socket file.  A request is named by the process   *)
(* launched with it, or by the document event that brought it; at[r] says  *)
(* which of the queues it stands in, to[r] whose queue that is.            *)
(***************************************************************************)
EXTENDS FiniteSets

CONSTANTS
  Procs,      \* bound: the processes launched in the history considered
  Events,     \* bound: the document events the system delivers to a primary
  Docs,       \* documents
  none

ASSUME LaunchAssumption ==
  /\ none \notin Procs
  /\ Procs \cap Events = {}

VARIABLES
  phase,      \* phase[p]: how far the broker of process p has come
  lock,       \* the process whose lock file stands, or none
  name,       \* the process that made the socket file, or none
  req,        \* req[r]: the documents r asks for, {} for "show the library"
  at,         \* at[r]: the queue r stands in
  to          \* to[r]: the process whose queue that is, or none

ipc == <<req, at, to>>
brokerVars == <<phase, lock, name, ipc>>

Requests == Procs \cup Events

Phases == { "unborn", "arbitrating", "claimed", "primary",  \* to primary
            "sending", "connected", "forwarded",            \* as a secondary
            "leaving", "closed", "removed", "unlocked",     \* aboutToQuit
            "failed", "exited", "crashed" }
Queues == { "nowhere", "socket", "pending", "buffered", "opening",
            "done", "failed", "lost" }

(* Processes the lock file of which still counts; QLockFile takes over the *)
(* file of a process that is no longer there.                              *)
Gone(p) == phase[p] \in {"exited", "failed", "forwarded", "crashed"}
Listening == {p \in Procs : phase[p] = "primary"}

BrokerInit ==
  /\ phase = [p \in Procs |-> "unborn"]
  /\ lock = none
  /\ name = none
  /\ req = [r \in Requests |-> {}]
  /\ at = [r \in Requests |-> "nowhere"]
  /\ to = [r \in Requests |-> none]

Step(p, from, next) == phase[p] = from /\ phase' = [phase EXCEPT ![p] = next]

(* What stands in the queues `from` of p goes to queue `next`. *)
Drained(p, from, next) ==
  [r \in Requests |-> IF to[r] = p /\ at[r] \in from THEN next ELSE at[r]]

(* The user launches JoyRead, with documents or without. *)
Launch(p) ==
  /\ Step(p, "unborn", "arbitrating")
  /\ \E docs \in SUBSET Docs : req' = [req EXCEPT ![p] = docs]
  /\ UNCHANGED <<lock, name, at, to>>

LockFree == lock \notin {p \in Procs : ~Gone(p)}

(* _start: the lock is tried once. *)
Claim(p) ==
  /\ Step(p, "arbitrating", "claimed")
  /\ LockFree
  /\ lock' = p
  /\ UNCHANGED <<name, ipc>>

BecomeSecondary(p) ==
  /\ Step(p, "arbitrating", "sending")
  /\ ~LockFree
  /\ UNCHANGED <<lock, name, ipc>>

LockError(p) ==
  /\ Step(p, "arbitrating", "failed")
  /\ UNCHANGED <<lock, name, ipc>>

(* The socket file after removeServer(): whoever made it, it is gone. *)
RemoveServer == none

(* _start_primary_server: listen() needs the name to be free. *)
Listen(p) ==
  /\ Step(p, "claimed", "primary")
  /\ RemoveServer = none
  /\ name' = p
  /\ UNCHANGED <<lock, ipc>>

ListenFails(p) ==
  /\ Step(p, "claimed", "failed")
  /\ name' = RemoveServer
  /\ lock' = none
  /\ UNCHANGED ipc

(* _forward_to_primary: connect, again and again until the deadline; then  *)
(* write, once.  The bytes are in the socket when the secondary leaves.    *)
Connect(s) ==
  /\ name \in Listening
  /\ Step(s, "sending", "connected")
  /\ to' = [to EXCEPT ![s] = name]
  /\ UNCHANGED <<lock, name, req, at>>

Write(s) ==
  /\ Step(s, "connected", "forwarded")
  /\ to[s] \in Listening
  /\ at' = [at EXCEPT ![s] = "socket"]
  /\ UNCHANGED <<lock, name, req, to>>

WriteFails(s) ==
  /\ Step(s, "connected", "failed")
  /\ UNCHANGED <<lock, name, ipc>>

GiveUp(s) ==
  /\ Step(s, "sending", "failed")
  /\ UNCHANGED <<lock, name, ipc>>

(* Mutant: the lock is given back before the name is removed. *)
DropRequestsUnlocking(p) ==
  /\ Step(p, "leaving", "closed")
  /\ at' = Drained(p, {"socket", "pending", "buffered", "opening"}, "lost")
  /\ name' = IF name = p THEN none ELSE name
  /\ lock' = none
  /\ UNCHANGED <<req, to>>

(* dispose() of a primary, in the order of its effects: its sockets and    *)
(* what was queued are dropped, the server is closed (which takes its      *)
(* socket file away), the name is removed, the lock is given back.         *)
DropRequests(p) ==
  /\ Step(p, "leaving", "closed")
  /\ at' = Drained(p, {"socket", "pending", "buffered", "opening"}, "lost")
  /\ name' = IF name = p THEN none ELSE name
  /\ UNCHANGED <<lock, req, to>>

RemoveName(p) ==
  /\ Step(p, "closed", "removed")
  /\ name' = RemoveServer
  /\ UNCHANGED <<lock, ipc>>

Unlock(p) ==
  /\ Step(p, "removed", "unlocked")
  /\ lock' = IF lock = p THEN none ELSE lock
  /\ UNCHANGED <<name, ipc>>

(* The handlers of aboutToQuit connected after dispose(): runtime.close(). *)
CloseRuntime(p) ==
  /\ Step(p, "unlocked", "exited")
  /\ UNCHANGED <<lock, name, ipc>>

(* The process dies: the files stay, the queues do not. *)
Crash(p) ==
  /\ phase[p] # "unborn"
  /\ ~Gone(p)
  /\ phase' = [phase EXCEPT ![p] = "crashed"]
  /\ at' = Drained(p, {"socket", "pending", "buffered", "opening"}, "lost")
  /\ UNCHANGED <<lock, name, req, to>>

BrokerTypeOK ==
  /\ phase \in [Procs -> Phases]
  /\ lock \in Procs \cup {none}
  /\ name \in Procs \cup {none}
  /\ req \in [Requests -> SUBSET Docs]
  /\ at \in [Requests -> Queues]
  /\ to \in [Requests -> Procs \cup {none}]

-----------------------------------------------------------------------------
HoldsLock(p) == phase[p] \in {"claimed", "primary", "leaving", "closed", "removed"}

(* The socket file a secondary finds belongs to the process that answers:  *)
(* a primary that listens is reached under the profile's name, whatever    *)
(* the primary before it left behind or still has to remove, and only one  *)
(* process at a time is past the lock and not yet behind it.               *)
PrimaryReachable ==
  \A p \in Procs : /\ p \in Listening => name = p
                   /\ HoldsLock(p) => lock = p
=============================================================================
