------------------------------ MODULE Lifecycle ------------------------------
(***************************************************************************)
(* Daemon processes that start, serve, stop and die on one desktop         *)
(* (internal/app/daemon.go, internal/app/lifecycle.go): the lock, the      *)
(* managed root, SQLite, the adapter, LAN and control listeners, the       *)
(* control socket's directory entry, and the work that uses them.  With    *)
(* the LAN sync identity (internal/lansync/identity.go) that outlives      *)
(* them: which phone credential is on disk, in use and in the phone.       *)
(*                                                                         *)
(* Each step of NewDaemon, Run and releaseResources is an action of the    *)
(* process's main goroutine; `phase` is the next one.  The kernel drops    *)
(* the lock and the listeners of a process that dies, never the socket's   *)
(* directory entry.  Processes share one configuration.                    *)
(***************************************************************************)
EXTENDS Integers, FiniteSets

CONSTANTS
  Procs,      \* offbeatd processes, each number used again
  Clients,    \* control connections
  MaxCred,    \* bound: credentials ever generated
  None

ASSUME LifecycleAssumption ==
  /\ None \notin Procs \cup Clients /\ "other" \notin Procs
  /\ {"request", "worker"} \cap Clients = {}
  /\ MaxCred \in Nat \ {0}

VARIABLES
  phase,      \* of each process: where its main goroutine is
  lock,       \* the process that holds the lock file
  holds,      \* what each process has open: root, db, adapter, sync, control
  work,       \* what each process runs: control handlers, a sync request, a worker
  socket,     \* the entry at the socket path: who bound it, "other" or none
  saved,      \* the credential in lan-sync.json, 0 without a file
  cred,       \* syncIdentity of the process that serves LAN sync
  last,       \* the newest credential generated
  resetting,  \* the control handler that holds syncMu, its Save done or failed
  told,       \* the credential last printed for the phone, 0 if none
  revoked,    \* credentials a reported reset replaced
  doubtful    \* a reset reached the disk and no setup or reset was reported since

procVars == <<phase, lock, holds, work, socket>>
credVars == <<saved, cred, last, resetting, told, revoked, doubtful>>
vars == <<procVars, credVars>>

Resources == {"root", "db", "adapter", "sync", "control"}
\* serveSync requests and acquisition workers, each kind counted by a wait group.
Tasks == Clients \cup {"request", "worker"}

Starting == {"root", "database", "adapter", "sync", "stale", "project", "bind", "workers"}
Stopping == {"stopping", "closing", "draining", "unlinking", "sync_close", "sync_wait",
             "worker_wait", "close_db", "close_root", "unlock"}
Phases == Starting \cup Stopping \cup {"out", "serving"}

Init ==
  /\ phase = [p \in Procs |-> "out"] /\ lock = None
  /\ holds = [p \in Procs |-> {}] /\ work = [p \in Procs |-> {}] /\ socket = None
  /\ saved = 0 /\ cred = 0 /\ last = 0 /\ resetting = None
  /\ told = 0 /\ revoked = {} /\ doubtful = FALSE

Goto(p, from, to) == phase[p] = from /\ phase' = [phase EXCEPT ![p] = to]
Take(p, what) == holds' = [holds EXCEPT ![p] = @ \cup {what}]
Drop(p, what) == holds' = [holds EXCEPT ![p] = @ \ {what}]

-----------------------------------------------------------------------------
(* NewDaemon and the first half of Run.                                    *)

\* Slip: a lock that is held is only logged.
AcquireLockAnyway(p) ==
  /\ Goto(p, "out", "root")
  /\ lock' = p
  /\ UNCHANGED <<holds, work, socket, credVars>>

\* flock without waiting: a second process gives up.
AcquireLock(p) ==
  /\ lock = None
  /\ Goto(p, "out", "root")
  /\ lock' = p
  /\ UNCHANGED <<holds, work, socket, credVars>>

OpenRoot(p) ==
  /\ Goto(p, "root", "database") /\ Take(p, "root")
  /\ UNCHANGED <<lock, work, socket, credVars>>

\* SQLite is opened and migrated; a failed migration leaves it open.
OpenDatabase(p) ==
  /\ phase[p] = "database" /\ Take(p, "db")
  /\ phase' \in {[phase EXCEPT ![p] = to] : to \in {"adapter", "sync_close"}}
  /\ UNCHANGED <<lock, work, socket, credVars>>

BindAdapter(p) ==
  /\ Goto(p, "adapter", "sync") /\ Take(p, "adapter")
  /\ UNCHANGED <<lock, work, socket, credVars>>

\* LoadIdentity: without a file, an identity is generated and saved first.
LoadIdentity ==
  IF saved = 0
  THEN last < MaxCred /\ cred' = last + 1 /\ last' = last + 1 /\ saved' = last + 1
  ELSE cred' = saved /\ UNCHANGED <<saved, last>>

\* startLANSync, unless the port is 0; from here on phones are answered.
StartSync(p) ==
  /\ Goto(p, "sync", "stale")
  /\ \/ Take(p, "sync") /\ LoadIdentity
     \/ UNCHANGED <<holds, saved, cred, last>>
  /\ UNCHANGED <<lock, work, socket, resetting, told, revoked, doubtful>>

\* Only a socket is removed - nobody asks whether it is alive - and anything
\* else at the path ends the start.
ResolveStaleSocket(p) ==
  /\ phase[p] = "stale"
  /\ IF socket = "other"
     THEN phase' = [phase EXCEPT ![p] = "sync_close"] /\ UNCHANGED socket
     ELSE phase' = [phase EXCEPT ![p] = "project"] /\ socket' = None
  /\ UNCHANGED <<lock, holds, work, credVars>>

MaterializePlaylists(p) ==
  /\ Goto(p, "project", "bind")
  /\ UNCHANGED <<lock, holds, work, socket, credVars>>

\* An entry that appeared in between makes bind(2) fail.
BindControlSocket(p) ==
  /\ socket = None
  /\ Goto(p, "bind", "workers") /\ Take(p, "control")
  /\ socket' = p
  /\ UNCHANGED <<lock, work, credVars>>

StartWorkers(p) ==
  /\ Goto(p, "workers", "serving")
  /\ work' = [work EXCEPT ![p] = @ \cup {"worker"}]
  /\ UNCHANGED <<lock, holds, socket, credVars>>

\* Recovery of the queue failed: listener and path go before the rest.
WorkersFail(p) ==
  /\ Goto(p, "workers", "sync_close") /\ Drop(p, "control")
  /\ socket' = None
  /\ UNCHANGED <<lock, work, credVars>>

\* Any other step fails or the signal comes first: releaseResources.
StartFails(p) ==
  /\ phase[p] \in Starting \ {"workers"}
  /\ phase' = [phase EXCEPT ![p] = "sync_close"]
  /\ UNCHANGED <<lock, holds, work, socket, credVars>>

-----------------------------------------------------------------------------
(* The second half of Run, and releaseResources.                           *)

\* A signal, or an accept error: the context of everything is cancelled.
Cancel(p) ==
  /\ Goto(p, "serving", "stopping")
  /\ UNCHANGED <<lock, holds, work, socket, credVars>>

\* stopAdapterWork ends a waiting spotify.sync, Shutdown closes the endpoint.
StopAdapter(p) ==
  /\ Goto(p, "stopping", "closing") /\ Drop(p, "adapter")
  /\ UNCHANGED <<lock, work, socket, credVars>>

\* Closing a listener also removes its path; the accept loop has ended.
CloseListener(p) ==
  /\ Goto(p, "closing", "draining") /\ Drop(p, "control")
  /\ socket' = None
  /\ UNCHANGED <<lock, work, credVars>>

\* Slip: the handlers are not waited for.
DrainAtOnce(p) ==
  /\ Goto(p, "draining", "unlinking")
  /\ UNCHANGED <<lock, holds, work, socket, credVars>>

\* Slip: the lock is released as soon as the last handler is done.
DrainUnlocking(p) ==
  /\ work[p] \cap Clients = {}
  /\ Goto(p, "draining", "unlinking")
  /\ lock' = None
  /\ UNCHANGED <<holds, work, socket, credVars>>

Drain(p) ==
  /\ work[p] \cap Clients = {}
  /\ Goto(p, "draining", "unlinking")
  /\ UNCHANGED <<lock, holds, work, socket, credVars>>

\* Whatever is at the path by now.
RemoveSocket(p) ==
  /\ Goto(p, "unlinking", "sync_close")
  /\ socket' = None
  /\ UNCHANGED <<lock, holds, work, credVars>>

\* stopLANSync: no request is counted any more, those that run are cut off ...
CloseSync(p) ==
  /\ Goto(p, "sync_close", "sync_wait") /\ Drop(p, "sync")
  /\ cred' = IF "sync" \in holds[p] THEN 0 ELSE cred
  /\ UNCHANGED <<lock, work, socket, saved, last, resetting, told, revoked, doubtful>>

\* ... and waited for.
SyncStopped(p) ==
  /\ "request" \notin work[p]
  /\ Goto(p, "sync_wait", "worker_wait")
  /\ UNCHANGED <<lock, holds, work, socket, credVars>>

\* stopAcquisitionWork, and the adapter endpoint of a start that failed.
WorkersStopped(p) ==
  /\ "worker" \notin work[p]
  /\ Goto(p, "worker_wait", "close_db") /\ Drop(p, "adapter")
  /\ UNCHANGED <<lock, work, socket, credVars>>

CloseDatabase(p) ==
  /\ Goto(p, "close_db", "close_root") /\ Drop(p, "db")
  /\ UNCHANGED <<lock, work, socket, credVars>>

\* Slip: the lock goes with the managed root still open.
CloseRootLater(p) ==
  /\ phase[p] = "close_root" /\ lock' = None
  /\ phase' = [phase EXCEPT ![p] = "unlock"]
  /\ UNCHANGED <<holds, work, socket, credVars>>

CloseRoot(p) ==
  /\ Goto(p, "close_root", "unlock") /\ Drop(p, "root")
  /\ UNCHANGED <<lock, work, socket, credVars>>

ReleaseLock(p) ==
  /\ Goto(p, "unlock", "out")
  /\ lock' = None
  /\ UNCHANGED <<holds, work, socket, credVars>>

Crash(p) ==
  /\ phase[p] # "out"
  /\ phase' = [phase EXCEPT ![p] = "out"]
  /\ lock' = IF lock = p THEN None ELSE lock
  /\ holds' = [holds EXCEPT ![p] = {}] /\ work' = [work EXCEPT ![p] = {}]
  /\ cred' = IF "sync" \in holds[p] THEN 0 ELSE cred
  /\ resetting' = IF resetting \in work[p] THEN None ELSE resetting
  /\ UNCHANGED <<socket, saved, last, told, revoked, doubtful>>

-----------------------------------------------------------------------------
(* The work: control connections, phone requests, acquisition workers.     *)

\* serveLoop: a client finds the process through the path, and the handler is
\* counted before its goroutine starts.
Connect(p, c) ==
  /\ socket = p /\ "control" \in holds[p] /\ phase[p] \in {"serving", "stopping", "closing"}
  /\ \A q \in Procs : c \notin work[q]
  /\ work' = [work EXCEPT ![p] = @ \cup {c}]
  /\ UNCHANGED <<phase, lock, holds, socket, credVars>>

\* The response is written, or the caller gave up; the connection is closed.
Disconnect(p, c) ==
  /\ c \in work[p] /\ resetting # c
  /\ work' = [work EXCEPT ![p] = @ \ {c}]
  /\ UNCHANGED <<phase, lock, holds, socket, credVars>>

\* LanSync has the steps of a request.
Request(p) ==
  /\ "sync" \in holds[p] /\ "request" \notin work[p]
  /\ work' = [work EXCEPT ![p] = @ \cup {"request"}]
  /\ UNCHANGED <<phase, lock, holds, socket, credVars>>

RequestEnds(p) ==
  /\ "request" \in work[p]
  /\ work' = [work EXCEPT ![p] = @ \ {"request"}]
  /\ UNCHANGED <<phase, lock, holds, socket, credVars>>

\* Slip: the workers' context is not derived from that of Run, and cancelled
\* only after they were waited for.
WorkerEndsLate(p) ==
  /\ "worker" \in work[p] /\ phase[p] \in {"close_db", "close_root", "unlock"}
  /\ work' = [work EXCEPT ![p] = @ \ {"worker"}]
  /\ UNCHANGED <<phase, lock, holds, socket, credVars>>

\* Workers poll until the context is cancelled.
WorkerEnds(p) ==
  /\ "worker" \in work[p] /\ phase[p] \in Stopping
  /\ work' = [work EXCEPT ![p] = @ \ {"worker"}]
  /\ UNCHANGED <<phase, lock, holds, socket, credVars>>

-----------------------------------------------------------------------------
(* handleSyncControl, under syncMu; serveSync compares credentials under it. *)

Free(p, c) == c \in work[p] /\ "sync" \in holds[p] /\ resetting = None

Setup(p, c) ==
  /\ Free(p, c)
  /\ told' = cred /\ doubtful' = (cred # saved)
  /\ UNCHANGED <<procVars, saved, cred, last, resetting, revoked>>

\* Slip: the identity in use is changed in place before it is saved.
TakeResetUnsaved(p, c) ==
  /\ Free(p, c) /\ last < MaxCred
  /\ cred' = last + 1 /\ last' = last + 1 /\ told' = last + 1
  /\ revoked' = revoked \cup {cred} /\ doubtful' = FALSE
  /\ UNCHANGED <<procVars, saved, resetting>>

\* Save: the new identity is staged, synced and renamed over the old one ...
SaveReset(p, c) ==
  /\ Free(p, c) /\ last < MaxCred
  /\ saved' = last + 1 /\ last' = last + 1
  /\ resetting' = c /\ doubtful' = TRUE
  /\ UNCHANGED <<procVars, cred, told, revoked>>

\* ... and only then taken into use and printed.
TakeReset(p, c) ==
  /\ resetting = c /\ c \in work[p]
  /\ cred' = saved /\ told' = saved
  /\ revoked' = revoked \cup {cred} /\ doubtful' = FALSE
  /\ resetting' = None
  /\ UNCHANGED <<procVars, saved, last>>

\* The directory sync after the rename fails: the old credential stays in use.
ResetFails(p, c) ==
  /\ resetting = c /\ c \in work[p]
  /\ resetting' = None
  /\ UNCHANGED <<procVars, saved, cred, last, told, revoked, doubtful>>

-----------------------------------------------------------------------------
\* Somebody else creates or removes a file at the path of an absent socket.
Occupy ==
  /\ socket = None /\ socket' = "other"
  /\ UNCHANGED <<phase, lock, holds, work, credVars>>

Vacate ==
  /\ socket = "other" /\ socket' = None
  /\ UNCHANGED <<phase, lock, holds, work, credVars>>

\* The main goroutine of p, once it stops.
Shutdown(p) ==
  \/ StopAdapter(p) \/ CloseListener(p) \/ Drain(p) \/ RemoveSocket(p)
  \/ CloseSync(p) \/ SyncStopped(p) \/ WorkersStopped(p)
  \/ CloseDatabase(p) \/ CloseRoot(p) \/ ReleaseLock(p)

Startup(p) ==
  \/ AcquireLock(p) \/ OpenRoot(p) \/ OpenDatabase(p) \/ BindAdapter(p) \/ StartSync(p)
  \/ ResolveStaleSocket(p) \/ MaterializePlaylists(p) \/ BindControlSocket(p)
  \/ StartWorkers(p) \/ WorkersFail(p) \/ StartFails(p)

Handle(p, c) ==
  \/ Connect(p, c) \/ Disconnect(p, c)
  \/ Setup(p, c) \/ SaveReset(p, c) \/ TakeReset(p, c) \/ ResetFails(p, c)

Next ==
  \/ \E p \in Procs :
       \/ Startup(p) \/ Cancel(p) \/ Shutdown(p) \/ Crash(p)
       \/ Request(p) \/ RequestEnds(p) \/ WorkerEnds(p)
       \/ \E c \in Clients : Handle(p, c)
  \/ Occupy \/ Vacate

\* A cancelled context, the deadlines of requests and connections and the
\* 10 s bound of a late projection end the work of a process that stops, and
\* its main goroutine goes on.
Fairness ==
  \A p \in Procs :
    /\ WF_vars(Shutdown(p))
    /\ WF_vars(phase[p] \in Stopping /\ RequestEnds(p))
    /\ WF_vars(WorkerEnds(p))
    /\ \A c \in Clients :
         /\ WF_vars(phase[p] \in Stopping /\ Disconnect(p, c))
         /\ WF_vars(TakeReset(p, c) \/ ResetFails(p, c))

Spec == Init /\ [][Next]_vars
FairSpec == Spec /\ Fairness

-----------------------------------------------------------------------------
(* Properties. *)

TypeOK ==
  /\ phase \in [Procs -> Phases] /\ lock \in Procs \cup {None}
  /\ holds \in [Procs -> SUBSET Resources] /\ work \in [Procs -> SUBSET Tasks]
  /\ socket \in Procs \cup {"other", None}
  /\ {saved, cred, last, told} \subseteq 0..MaxCred
  /\ resetting \in Clients \cup {None} /\ revoked \subseteq 0..MaxCred /\ doubtful \in BOOLEAN

\* Exactly one offbeatd (ADR 1): whatever a process has open, runs, or is
\* reached through belongs to one process at a time, dying ones included.
Engaged(p) == holds[p] # {} \/ work[p] # {}
OneOwner == \A p, q \in Procs : Engaged(p) /\ Engaged(q) => p = q

\* The wait groups: SQLite and the managed root are closed only when no handler,
\* phone request or worker is left, on every path out of a start or a run.
NothingUsedAfterClose == \A p \in Procs : work[p] # {} => {"root", "db"} \subseteq holds[p]

\* A ready daemon stays reachable: no other process's start, shutdown or late
\* cleanup removes or replaces its socket.
ServingIsReachable == \A p \in Procs : phase[p] = "serving" => socket = p /\ "control" \in holds[p]

\* "Subsequent requests with the old credential fail", and a setup or reset
\* that was reported gave the phone the credential that every later start of
\* the daemon accepts - save between a reset that reached the disk unreported
\* and the next setup.
CredentialHolds ==
  \A p \in Procs : "sync" \in holds[p] /\ resetting = None =>
    cred \notin revoked /\ (told # 0 /\ ~doubtful => cred = told)

\* A signal, a failed start or an accept error leads to a process that is gone,
\* whatever was running.
ShutdownEnds == \A p \in Procs : phase[p] \in Stopping ~> phase[p] = "out"
=============================================================================
