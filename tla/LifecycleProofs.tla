--------------------------- MODULE LifecycleProofs ---------------------------
(***************************************************************************)
(* Proofs about Lifecycle, for any processes, clients and credentials.     *)
(***************************************************************************)
EXTENDS Lifecycle, TLAPS

\* Phases in which SQLite and the managed root are open, whatever came before.
Ready == {"adapter", "sync", "stale", "project", "bind", "workers", "serving",
          "stopping", "closing", "draining", "unlinking"}
\* Phases in which phones may be answered, connections accepted, clients served
\* and workers run.
SyncPhases == {"stale", "project", "bind", "workers", "serving", "stopping", "closing",
               "draining", "unlinking", "sync_close"}
ControlPhases == {"workers", "serving", "stopping", "closing"}
ClientPhases == {"serving", "stopping", "closing", "draining"}
WorkerPhases == {"serving", "stopping", "closing", "draining", "unlinking", "sync_close",
                 "sync_wait", "worker_wait"}

\* What runs or is open in no process without the lock.
LockFits(p) ==
  /\ phase[p] # "out" <=> lock = p
  /\ phase[p] = "out" => holds[p] = {} /\ work[p] = {}

\* What a process has open in each of its phases.
HoldsFit(p) ==
  /\ phase[p] \in Ready => {"root", "db"} \subseteq holds[p]
  /\ phase[p] = "database" => "root" \in holds[p]
  /\ "sync" \in holds[p] => phase[p] \in SyncPhases /\ {"root", "db"} \subseteq holds[p]
  /\ "control" \in holds[p] => phase[p] \in ControlPhases
  /\ "adapter" \in holds[p] => phase[p] \notin {"close_db", "close_root", "unlock"}
  /\ "db" \in holds[p] => phase[p] \notin {"close_root", "unlock"}
  /\ "root" \in holds[p] => phase[p] # "unlock"

\* What it runs in each of them.
WorkFits(p) ==
  /\ work[p] \cap Clients # {} => phase[p] \in ClientPhases
  /\ "worker" \in work[p] => phase[p] \in WorkerPhases /\ {"root", "db"} \subseteq holds[p]
  /\ "request" \in work[p] =>
       phase[p] \in SyncPhases \cup {"sync_wait"} /\ {"root", "db"} \subseteq holds[p]

SocketFits(p) == phase[p] \in ControlPhases => socket = p /\ "control" \in holds[p]

Fits(p) == LockFits(p) /\ HoldsFit(p) /\ WorkFits(p) /\ SocketFits(p)

IInv == TypeOK /\ \A p \in Procs : Fits(p)

\* The initial types.
LEMMA InitType == Init => TypeOK
<1> SUFFICES ASSUME Init PROVE TypeOK
  OBVIOUS
<1>1. {saved, cred, last, told} \subseteq 0..MaxCred
  BY LifecycleAssumption DEF Init
<1>2. phase \in [Procs -> Phases] /\ holds \in [Procs -> SUBSET Resources] /\ work \in [Procs -> SUBSET Tasks]
  BY DEF Init, Phases
<1> QED
  BY <1>1, <1>2 DEF Init, TypeOK

\* A starting daemon keeps the types.
LEMMA StartupType == \A p \in Procs : TypeOK /\ Startup(p) => TypeOK'
<1> SUFFICES ASSUME NEW p \in Procs, TypeOK, Startup(p) PROVE TypeOK'
  OBVIOUS
<1> USE LifecycleAssumption DEF TypeOK, Phases, Starting, Stopping, Resources, Tasks, credVars
<1>1. CASE AcquireLock(p)
  BY <1>1 DEF AcquireLock, Goto
<1>2. CASE OpenRoot(p)
  BY <1>2 DEF OpenRoot, Goto, Take
<1>3. CASE OpenDatabase(p)
  BY <1>3 DEF OpenDatabase, Take
<1>4. CASE BindAdapter(p)
  BY <1>4 DEF BindAdapter, Goto, Take
<1>5. CASE StartSync(p)
  BY <1>5 DEF StartSync, Goto, Take, LoadIdentity
<1>6. CASE ResolveStaleSocket(p)
  BY <1>6 DEF ResolveStaleSocket
<1>7. CASE MaterializePlaylists(p)
  BY <1>7 DEF MaterializePlaylists, Goto
<1>8. CASE BindControlSocket(p)
  BY <1>8 DEF BindControlSocket, Goto, Take
<1>9. CASE StartWorkers(p)
  BY <1>9 DEF StartWorkers, Goto
<1>10. CASE WorkersFail(p)
  BY <1>10 DEF WorkersFail, Goto, Drop
<1>11. CASE StartFails(p)
  BY <1>11 DEF StartFails
<1> QED
  BY <1>1, <1>2, <1>3, <1>4, <1>5, <1>6, <1>7, <1>8, <1>9, <1>10, <1>11 DEF Startup

\* A stopping daemon keeps the types.
LEMMA ShutdownType == \A p \in Procs : TypeOK /\ Shutdown(p) => TypeOK'
<1> SUFFICES ASSUME NEW p \in Procs, TypeOK, Shutdown(p) PROVE TypeOK'
  OBVIOUS
<1> USE LifecycleAssumption DEF TypeOK, Phases, Starting, Stopping, Resources, Tasks, credVars, procVars
<1>1. CASE StopAdapter(p)
  BY <1>1 DEF StopAdapter, Goto, Drop
<1>2. CASE CloseListener(p)
  BY <1>2 DEF CloseListener, Goto, Drop
<1>3. CASE Drain(p)
  BY <1>3 DEF Drain, Goto
<1>4. CASE RemoveSocket(p)
  BY <1>4 DEF RemoveSocket, Goto
<1>5. CASE CloseSync(p)
  BY <1>5 DEF CloseSync, Goto, Drop
<1>6. CASE SyncStopped(p)
  BY <1>6 DEF SyncStopped, Goto
<1>7. CASE WorkersStopped(p)
  BY <1>7 DEF WorkersStopped, Goto, Drop
<1>8. CASE CloseDatabase(p)
  BY <1>8 DEF CloseDatabase, Goto, Drop
<1>9. CASE CloseRoot(p)
  BY <1>9 DEF CloseRoot, Goto, Drop
<1>10. CASE ReleaseLock(p)
  BY <1>10 DEF ReleaseLock, Goto
<1> QED
  BY <1>1, <1>2, <1>3, <1>4, <1>5, <1>6, <1>7, <1>8, <1>9, <1>10 DEF Shutdown

\* A request handler keeps the types.
LEMMA HandleType == \A p \in Procs, c \in Clients : TypeOK /\ Handle(p, c) => TypeOK'
<1> SUFFICES ASSUME NEW p \in Procs, NEW c \in Clients, TypeOK, Handle(p, c) PROVE TypeOK'
  OBVIOUS
<1> USE LifecycleAssumption DEF TypeOK, Phases, Starting, Stopping, Resources, Tasks, credVars, procVars
<1>1. CASE Connect(p, c)
  BY <1>1 DEF Connect
<1>2. CASE Disconnect(p, c)
  BY <1>2 DEF Disconnect
<1>3. CASE Setup(p, c)
  BY <1>3 DEF Setup, Free, procVars
<1>4. CASE SaveReset(p, c)
  BY <1>4 DEF SaveReset, Free, procVars
<1>5. CASE TakeReset(p, c)
  BY <1>5 DEF TakeReset, procVars
<1>6. CASE ResetFails(p, c)
  BY <1>6 DEF ResetFails, procVars
<1> QED
  BY <1>1, <1>2, <1>3, <1>4, <1>5, <1>6 DEF Handle

\* Every step keeps the types.
LEMMA StepType == TypeOK /\ [Next]_vars => TypeOK'
<1> SUFFICES ASSUME TypeOK, [Next]_vars PROVE TypeOK'
  OBVIOUS
<1> USE LifecycleAssumption DEF TypeOK, Phases, Starting, Stopping, Resources, Tasks, credVars, procVars
<1>1. ASSUME NEW p \in Procs, Cancel(p) PROVE TypeOK'
  BY <1>1 DEF Cancel, Goto
<1>2. ASSUME NEW p \in Procs, Crash(p) PROVE TypeOK'
  BY <1>2 DEF Crash
<1>3. ASSUME NEW p \in Procs, Request(p) \/ RequestEnds(p) \/ WorkerEnds(p) PROVE TypeOK'
  <2>1. CASE Request(p)
    BY <2>1 DEF Request
  <2>2. CASE RequestEnds(p)
    BY <2>2 DEF RequestEnds
  <2>3. CASE WorkerEnds(p)
    BY <2>3 DEF WorkerEnds
  <2> QED
    BY <1>3, <2>1, <2>2, <2>3
<1>4. CASE Occupy \/ Vacate
  BY <1>4 DEF Occupy, Vacate
<1>5. CASE UNCHANGED vars
  BY <1>5 DEF vars
<1> QED
  BY <1>1, <1>2, <1>3, <1>4, <1>5, StartupType, ShutdownType, HandleType DEF Next

\* A process that starts fits its phases, and disturbs no other.
LEMMA StartupFits == \A p \in Procs : IInv /\ Startup(p) => \A q \in Procs : Fits(q)'
<1> SUFFICES ASSUME NEW p \in Procs, IInv, Startup(p), NEW q \in Procs PROVE Fits(q)'
  OBVIOUS
<1> USE LifecycleAssumption DEF IInv, TypeOK, Fits, LockFits, HoldsFit, WorkFits, SocketFits, Ready, SyncPhases, ControlPhases, ClientPhases, WorkerPhases, Resources, Tasks
<1>1. CASE AcquireLock(p)
  BY <1>1 DEF AcquireLock, Goto
<1>2. CASE OpenRoot(p)
  BY <1>2 DEF OpenRoot, Goto, Take
<1>3. CASE OpenDatabase(p)
  <2> PICK to \in {"adapter", "sync_close"} : phase' = [phase EXCEPT ![p] = to]
    BY <1>3 DEF OpenDatabase
  <2>1. CASE to = "adapter"
    BY <1>3, <2>1 DEF OpenDatabase, Take
  <2>2. CASE to = "sync_close"
    BY <1>3, <2>2 DEF OpenDatabase, Take
  <2> QED
    BY <2>1, <2>2
<1>4. CASE BindAdapter(p)
  BY <1>4 DEF BindAdapter, Goto, Take
<1>5. CASE StartSync(p)
  <2>1. CASE Take(p, "sync")
    BY <1>5, <2>1 DEF StartSync, Goto, Take
  <2>2. CASE UNCHANGED holds
    BY <1>5, <2>2 DEF StartSync, Goto
  <2> QED
    BY <1>5, <2>1, <2>2 DEF StartSync
<1>6. CASE ResolveStaleSocket(p)
  BY <1>6 DEF ResolveStaleSocket
<1>7. CASE MaterializePlaylists(p)
  BY <1>7 DEF MaterializePlaylists, Goto
<1>8. CASE BindControlSocket(p)
  BY <1>8 DEF BindControlSocket, Goto, Take
<1>9. CASE StartWorkers(p)
  BY <1>9 DEF StartWorkers, Goto
<1>10. CASE WorkersFail(p)
  BY <1>10 DEF WorkersFail, Goto, Drop
<1>11. CASE StartFails(p)
  <2>1. phase[p] \in {"root", "database", "adapter", "sync", "stale", "project", "bind"}
    BY <1>11 DEF StartFails, Starting
  <2>2. CASE q = p
    BY <1>11, <2>1, <2>2 DEF StartFails
  <2>3. CASE q # p
    BY <1>11, <2>1, <2>3 DEF StartFails
  <2> QED
    BY <2>2, <2>3
<1> QED
  BY <1>1, <1>2, <1>3, <1>4, <1>5, <1>6, <1>7, <1>8, <1>9, <1>10, <1>11 DEF Startup

\* So does one that stops, in the order of Run and releaseResources.
LEMMA ShutdownFits == \A p \in Procs : IInv /\ Shutdown(p) => \A q \in Procs : Fits(q)'
<1> SUFFICES ASSUME NEW p \in Procs, IInv, Shutdown(p), NEW q \in Procs PROVE Fits(q)'
  OBVIOUS
<1> USE LifecycleAssumption DEF IInv, TypeOK, Fits, LockFits, HoldsFit, WorkFits, SocketFits, Ready, SyncPhases, ControlPhases, ClientPhases, WorkerPhases, Resources, Tasks
<1>1. CASE StopAdapter(p)
  BY <1>1 DEF StopAdapter, Goto, Drop
<1>2. CASE CloseListener(p)
  BY <1>2 DEF CloseListener, Goto, Drop
<1>3. CASE Drain(p)
  BY <1>3 DEF Drain, Goto
<1>4. CASE RemoveSocket(p)
  BY <1>4 DEF RemoveSocket, Goto
<1>5. CASE CloseSync(p)
  BY <1>5 DEF CloseSync, Goto, Drop
<1>6. CASE SyncStopped(p)
  BY <1>6 DEF SyncStopped, Goto
<1>7. CASE WorkersStopped(p)
  BY <1>7 DEF WorkersStopped, Goto, Drop
<1>8. CASE CloseDatabase(p)
  BY <1>8 DEF CloseDatabase, Goto, Drop
<1>9. CASE CloseRoot(p)
  BY <1>9 DEF CloseRoot, Goto, Drop
<1>10. CASE ReleaseLock(p)
  BY <1>10 DEF ReleaseLock, Goto
<1> QED
  BY <1>1, <1>2, <1>3, <1>4, <1>5, <1>6, <1>7, <1>8, <1>9, <1>10 DEF Shutdown

\* Control connections only come and go while they are served.
LEMMA HandleFits == \A p \in Procs, c \in Clients : IInv /\ Handle(p, c) => \A q \in Procs : Fits(q)'
<1> SUFFICES ASSUME NEW p \in Procs, NEW c \in Clients, IInv, Handle(p, c), NEW q \in Procs PROVE Fits(q)'
  OBVIOUS
<1> USE LifecycleAssumption DEF IInv, TypeOK, Fits, LockFits, HoldsFit, WorkFits, SocketFits, Ready, SyncPhases, ControlPhases, ClientPhases, WorkerPhases, Resources, Tasks
<1>1. CASE Connect(p, c)
  BY <1>1 DEF Connect
<1>2. CASE Disconnect(p, c)
  BY <1>2 DEF Disconnect
<1>3. CASE Setup(p, c)
  BY <1>3 DEF Setup, Free, procVars
<1>4. CASE SaveReset(p, c)
  BY <1>4 DEF SaveReset, Free, procVars
<1>5. CASE TakeReset(p, c)
  BY <1>5 DEF TakeReset, procVars
<1>6. CASE ResetFails(p, c)
  BY <1>6 DEF ResetFails, procVars
<1> QED
  BY <1>1, <1>2, <1>3, <1>4, <1>5, <1>6 DEF Handle

\* Processes that have not started satisfy the invariant.
LEMMA InitInv == Init => IInv
<1> SUFFICES ASSUME Init PROVE IInv
  OBVIOUS
<1>1. \A p \in Procs : Fits(p)
  BY LifecycleAssumption DEF Init, Fits, LockFits, HoldsFit, WorkFits, SocketFits, Ready, SyncPhases, ControlPhases
<1> QED
  BY <1>1, InitType DEF IInv

\* Everything else that happens to processes, a crash included.
LEMMA EventFits ==
  \A p \in Procs :
    IInv /\ (Cancel(p) \/ Crash(p) \/ Request(p) \/ RequestEnds(p) \/ WorkerEnds(p))
      => \A q \in Procs : Fits(q)'
<1> SUFFICES ASSUME NEW p \in Procs, IInv,
                    Cancel(p) \/ Crash(p) \/ Request(p) \/ RequestEnds(p) \/ WorkerEnds(p),
                    NEW q \in Procs
             PROVE  Fits(q)'
  OBVIOUS
<1> USE LifecycleAssumption DEF IInv, TypeOK, Fits, LockFits, HoldsFit, WorkFits, SocketFits, Ready, SyncPhases, ControlPhases, ClientPhases, WorkerPhases, Resources, Tasks
<1>1. CASE Cancel(p)
  BY <1>1 DEF Cancel, Goto
<1>2. CASE Crash(p)
  BY <1>2 DEF Crash
<1>3. CASE Request(p)
  BY <1>3 DEF Request
<1>4. CASE RequestEnds(p)
  BY <1>4 DEF RequestEnds
<1>5. CASE WorkerEnds(p)
  BY <1>5 DEF WorkerEnds
<1> QED
  BY <1>1, <1>2, <1>3, <1>4, <1>5

\* Every step keeps the invariant.
LEMMA StepInv == IInv /\ [Next]_vars => IInv'
<1> SUFFICES ASSUME IInv, [Next]_vars PROVE \A q \in Procs : Fits(q)'
  BY StepType DEF IInv
<1>1. CASE Occupy \/ Vacate
  <2> USE DEF IInv, Fits, LockFits, HoldsFit, WorkFits, SocketFits
  <2>1. CASE Occupy
    BY <2>1, LifecycleAssumption DEF Occupy
  <2>2. CASE Vacate
    BY <2>2, LifecycleAssumption DEF Vacate
  <2> QED
    BY <1>1, <2>1, <2>2
<1>2. CASE UNCHANGED vars
  BY <1>2 DEF vars, procVars, IInv, Fits, LockFits, HoldsFit, WorkFits, SocketFits
<1> QED
  BY <1>1, <1>2, StartupFits, ShutdownFits, EventFits, HandleFits DEF Next

\* The invariant holds of everything the daemon processes do.
THEOREM Invariant == Spec => []IInv
<1> QED
  BY InitInv, StepInv, PTL DEF Spec

\* Type correctness of the processes' state.
THEOREM TypeCorrect == Spec => []TypeOK
<1>1. IInv => TypeOK
  BY DEF IInv
<1> QED
  BY <1>1, Invariant, PTL

\* One offbeatd owns the desktop: AcquireLock comes before anything is opened
\* and ReleaseLock after everything is closed (daemon.go, NewDaemon, Close).
THEOREM OneOwnerCorrect == Spec => []OneOwner
<1>1. IInv => OneOwner
  BY DEF IInv, Fits, LockFits, OneOwner, Engaged
<1> QED
  BY <1>1, Invariant, PTL

\* SQLite and the managed root outlive handlers, phone requests and workers,
\* because Run and releaseResources wait for each kind before closing them.
THEOREM NothingUsedAfterCloseCorrect == Spec => []NothingUsedAfterClose
<1>1. IInv => NothingUsedAfterClose
  <2> SUFFICES ASSUME IInv, NEW p \in Procs, work[p] # {} PROVE {"root", "db"} \subseteq holds[p]
    BY DEF NothingUsedAfterClose
  <2>1. work[p] \subseteq Tasks
    BY DEF IInv, TypeOK
  <2>2. work[p] \cap Clients # {} \/ "request" \in work[p] \/ "worker" \in work[p]
    BY <2>1 DEF Tasks
  <2> QED
    BY <2>2 DEF IInv, Fits, HoldsFit, WorkFits, ClientPhases, Ready
<1> QED
  BY <1>1, Invariant, PTL

\* Whoever serves is the one a client finds at the socket's path.
THEOREM ServingIsReachableCorrect == Spec => []ServingIsReachable
<1>1. IInv => ServingIsReachable
  BY DEF IInv, Fits, SocketFits, ControlPhases, ServingIsReachable
<1> QED
  BY <1>1, Invariant, PTL

-----------------------------------------------------------------------------
\* Credentials are never used twice, and a process has loaded one.
CredFresh ==
  /\ saved <= last /\ cred <= last /\ revoked \subseteq 0..last /\ saved \notin revoked
  /\ \A p \in Procs : "sync" \in holds[p] => cred \notin revoked /\ saved # 0
\* Between Save and its outcome, the handler runs in the process that serves.
CredResetting ==
  resetting # None =>
    /\ doubtful /\ cred # saved
    /\ \E p \in Procs : resetting \in work[p] /\ "sync" \in holds[p]
\* What the phone was last told.
CredTold ==
  told # 0 =>
    /\ saved # 0
    /\ ~doubtful => told = saved /\ \A p \in Procs : "sync" \in holds[p] => cred = saved

CredInv == CredFresh /\ CredResetting /\ CredTold

\* A step that leaves the credentials, the listener and the handler alone.
Frame ==
  /\ UNCHANGED credVars
  /\ \A p \in Procs : "sync" \in holds'[p] <=> "sync" \in holds[p]
  /\ \A p \in Procs : resetting # None /\ resetting \in work[p] => resetting \in work'[p]

\* Steps that leave the credential alone keep the credential invariant.
LEMMA FrameCred == CredInv /\ Frame => CredInv'
BY DEF CredInv, CredFresh, CredResetting, CredTold, Frame, credVars

\* A starting daemon keeps the credential invariant.
LEMMA StartupCred == \A p \in Procs : IInv /\ CredInv /\ Startup(p) => CredInv'
<1> SUFFICES ASSUME NEW p \in Procs, IInv, CredInv, Startup(p) PROVE CredInv'
  OBVIOUS
<1>1. CASE StartSync(p)
  <2> USE <1>1 DEF IInv, TypeOK
  <2>1. /\ phase[p] = "sync" /\ UNCHANGED <<work, resetting, told, revoked, doubtful>>
        /\ lock = p
    BY DEF StartSync, Goto, Fits, LockFits
  <2>2. \A q \in Procs : "sync" \notin holds[q]
    BY <2>1 DEF Fits, LockFits, HoldsFit, SyncPhases
  <2>3. resetting = None
    BY <2>2 DEF CredInv, CredResetting
  <2>4. CASE UNCHANGED <<holds, saved, cred, last>>
    BY <2>1, <2>4 DEF CredInv, CredFresh, CredResetting, CredTold
  <2>5. CASE Take(p, "sync") /\ LoadIdentity
    <3>1. CASE saved = 0
      <4>1. last' = last + 1 /\ saved' = last + 1 /\ cred' = last + 1 /\ told = 0
        BY <2>5, <3>1 DEF LoadIdentity, CredInv, CredTold
      <4>2. last \in Nat /\ last + 1 \notin revoked /\ revoked \subseteq 0..(last + 1)
        BY LifecycleAssumption DEF CredInv, CredFresh
      <4> QED
        BY <2>1, <2>3, <4>1, <4>2 DEF CredInv, CredFresh, CredResetting, CredTold
    <3>2. CASE saved # 0
      BY <2>1, <2>3, <2>5, <3>2 DEF LoadIdentity, CredInv, CredFresh, CredResetting, CredTold
    <3> QED
      BY <3>1, <3>2
  <2> QED
    BY <2>4, <2>5 DEF StartSync
<1>2. CASE ~StartSync(p)
  <2> USE DEF IInv, TypeOK, Frame
  <2>1. CASE AcquireLock(p) \/ ResolveStaleSocket(p) \/ MaterializePlaylists(p) \/ StartFails(p)
    BY <2>1, FrameCred DEF AcquireLock, ResolveStaleSocket, MaterializePlaylists, StartFails
  <2>2. CASE OpenRoot(p) \/ OpenDatabase(p) \/ BindAdapter(p) \/ BindControlSocket(p)
    BY <2>2, FrameCred DEF OpenRoot, OpenDatabase, BindAdapter, BindControlSocket, Take
  <2>3. CASE StartWorkers(p) \/ WorkersFail(p)
    BY <2>3, FrameCred DEF StartWorkers, WorkersFail, Drop
  <2> QED
    BY <1>2, <2>1, <2>2, <2>3 DEF Startup
<1> QED
  BY <1>1, <1>2

\* A stopping daemon keeps the credential invariant.
LEMMA ShutdownCred == \A p \in Procs : IInv /\ CredInv /\ Shutdown(p) => CredInv'
<1> SUFFICES ASSUME NEW p \in Procs, IInv, CredInv, Shutdown(p) PROVE CredInv'
  OBVIOUS
<1> USE DEF IInv, TypeOK, Frame
<1>1. CASE CloseSync(p)
  <2>1. CASE "sync" \in holds[p]
    <3>1. phase[p] = "sync_close" /\ lock = p
      BY <1>1 DEF CloseSync, Goto, Fits, LockFits
    <3>2. \A q \in Procs : "sync" \in holds[q] => q = p
      BY <3>1 DEF Fits, LockFits
    <3>3. work[p] \cap Clients = {}
      BY <3>1 DEF Fits, WorkFits, ClientPhases
    <3>4. resetting = None
      BY <3>2, <3>3 DEF CredInv, CredResetting
    <3>5. \A q \in Procs : "sync" \notin holds'[q]
      BY <1>1, <3>2 DEF CloseSync, Drop
    <3>6. 0 <= last /\ UNCHANGED <<saved, last, resetting, told, revoked, doubtful>> /\ cred' = 0
      BY <1>1, <2>1 DEF CloseSync
    <3> QED
      BY <3>4, <3>5, <3>6 DEF CredInv, CredFresh, CredResetting, CredTold
  <2>2. CASE "sync" \notin holds[p]
    BY <1>1, <2>2, FrameCred DEF CloseSync, Drop, credVars
  <2> QED
    BY <2>1, <2>2
<1>2. CASE StopAdapter(p) \/ CloseListener(p) \/ WorkersStopped(p) \/ CloseDatabase(p) \/ CloseRoot(p)
  BY <1>2, FrameCred DEF StopAdapter, CloseListener, WorkersStopped, CloseDatabase, CloseRoot, Drop
<1>3. CASE Drain(p) \/ RemoveSocket(p) \/ SyncStopped(p) \/ ReleaseLock(p)
  BY <1>3, FrameCred DEF Drain, RemoveSocket, SyncStopped, ReleaseLock
<1> QED
  BY <1>1, <1>2, <1>3 DEF Shutdown

\* setup and reset, and connections that come and go meanwhile.
LEMMA HandleCred == \A p \in Procs, c \in Clients : IInv /\ CredInv /\ Handle(p, c) => CredInv'
<1> SUFFICES ASSUME NEW p \in Procs, NEW c \in Clients, IInv, CredInv, Handle(p, c) PROVE CredInv'
  OBVIOUS
<1> USE DEF IInv, TypeOK, CredInv, CredFresh, CredResetting, CredTold, procVars
<1>1. CASE Connect(p, c) \/ Disconnect(p, c)
  BY <1>1, FrameCred DEF Connect, Disconnect, Frame
<1>2. CASE Setup(p, c)
  BY <1>2 DEF Setup, Free
<1>3. CASE SaveReset(p, c)
  <2>1. /\ last \in Nat /\ cred # last + 1 /\ last + 1 \notin revoked
        /\ revoked \subseteq 0..(last + 1) /\ cred <= last + 1
    BY LifecycleAssumption
  <2> QED
    BY <1>3, <2>1 DEF SaveReset, Free
<1>4. CASE TakeReset(p, c)
  <2>1. cred \in 0..last /\ cred # saved /\ saved # 0
    BY <1>4, LifecycleAssumption DEF TakeReset
  <2> QED
    BY <1>4, <2>1 DEF TakeReset
<1>5. CASE ResetFails(p, c)
  BY <1>5 DEF ResetFails
<1> QED
  BY <1>1, <1>2, <1>3, <1>4, <1>5 DEF Handle

\* A crash loses the identity in use with the listener, never the one on disk.
LEMMA CrashCred == \A p \in Procs : IInv /\ CredInv /\ Crash(p) => CredInv'
<1> SUFFICES ASSUME NEW p \in Procs, IInv, CredInv, Crash(p) PROVE CredInv'
  OBVIOUS
<1> USE DEF IInv, TypeOK
<1>1. \A q \in Procs : q # p => holds[q] = {} /\ work[q] = {}
  BY DEF Crash, Fits, LockFits
<1>2. resetting' = None
  BY <1>1, LifecycleAssumption DEF Crash, CredInv, CredResetting
<1>3. \A q \in Procs : "sync" \notin holds'[q]
  BY <1>1 DEF Crash
<1>4. UNCHANGED <<saved, last, told, revoked, doubtful>> /\ cred' \in {0, cred} /\ 0 <= last
  BY DEF Crash
<1> QED
  BY <1>2, <1>3, <1>4 DEF CredInv, CredFresh, CredResetting, CredTold

\* Every step keeps the credential invariant.
LEMMA StepCred == IInv /\ CredInv /\ [Next]_vars => CredInv'
<1> SUFFICES ASSUME IInv, CredInv, [Next]_vars PROVE CredInv'
  OBVIOUS
<1> USE DEF IInv, TypeOK, Frame
<1>1. ASSUME NEW p \in Procs, Cancel(p) \/ Request(p) PROVE CredInv'
  BY <1>1, FrameCred DEF Cancel, Request
<1>2. ASSUME NEW p \in Procs, RequestEnds(p) \/ WorkerEnds(p) PROVE CredInv'
  BY <1>2, FrameCred, LifecycleAssumption DEF RequestEnds, WorkerEnds
<1>3. CASE Occupy \/ Vacate
  BY <1>3, FrameCred DEF Occupy, Vacate
<1>4. CASE UNCHANGED vars
  BY <1>4, FrameCred DEF vars, procVars
<1> QED
  BY <1>1, <1>2, <1>3, <1>4, StartupCred, ShutdownCred, HandleCred, CrashCred DEF Next

\* The phone's credential: an old one is never accepted again, and the one last
\* reported is what every later start accepts (sync.go, handleSyncControl;
\* identity.go, LoadIdentity), across crashes between Save and its report.
THEOREM CredentialHoldsCorrect == Spec => []CredentialHolds
<1>1. Init => CredInv
  BY LifecycleAssumption DEF Init, CredInv, CredFresh, CredResetting, CredTold
<1>2. CredInv => CredentialHolds
  BY DEF CredInv, CredFresh, CredTold, CredentialHolds
<1> QED
  BY <1>1, <1>2, Invariant, StepCred, PTL DEF Spec
=============================================================================
