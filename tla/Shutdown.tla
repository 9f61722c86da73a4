-------------------------------- MODULE Shutdown --------------------------------
(***************************************************************************)
(* The end of the agent: the signal handler of main.go, the coordinator    *)
(* (shutdown/coordinator.go) and the Shutdown method of the five managers  *)
(* it was given: updater, healer, monitor, API and audit log.              *)
(*                                                                         *)
(* Until the handler cancels the context the poll loop and the API go on:  *)
(* deploys begin and end, connections open and close.  Time is not         *)
(* counted: a timeout is a step that may come at any moment after what it  *)
(* limits began, and the context of 30 seconds ends the shorter ones.      *)
(*                                                                         *)
(* An audit entry may find the log full: the file becomes an archive and a *)
(* new one is opened, either of which may fail (module AuditLog).          *)
(*                                                                         *)
(* The program registers no operation with OperationStarted and calls      *)
(* Shutdown once; Operations and Callers are as large as its tests make    *)
(* them.                                                                   *)
(***************************************************************************)
EXTENDS Naturals, FiniteSets

CONSTANTS
    Operations,   \* operations that ask the coordinator before they begin
    Callers,      \* goroutines that call the coordinator's Shutdown
    Main,         \* the one of the signal handler
    Deploys,      \* deploys, each begun at most once
    Connections,  \* requests and event streams; a stream ends when its client leaves
    NumServers    \* listen addresses

ASSUME ShutdownAssumption ==
    /\ Main \in Callers
    /\ NumServers \in Nat \ {0}

Managers == {"updater", "healer", "monitor", "api", "audit"}
Servers == 1 .. NumServers

VARIABLES
    caller,          \* where each caller is
    coordinator,     \* where the body of Shutdown is
    isShuttingDown,
    opsDone,         \* the goroutine that waits for the operations has closed its channel
    op,              \* how far each operation is
    expired,         \* the context of the shutdown has ended
    mgr,             \* "new", "running", or what the manager's Shutdown returned
    shutdownErr,     \* what Shutdown returns to the caller that ran it
    deploying,       \* deploys in progress
    finished,        \* deploys that ended by themselves
    awaited,         \* history: deploys in progress when the updater's Shutdown began
    interrupted,     \* history: deploys in progress when the process ended
    server,          \* the server the API is shutting down
    listening,       \* servers that accept connections
    active,          \* connections of each server that are not idle
    opened,          \* connections that were opened
    file,            \* the log's l.file: "open", "closed" or "nil"
    written,         \* audit entries: "shutdown", and one for each deploy that ended
    archived,        \* those whose file a rotation closed and renamed
    synced,          \* those known to be on the disk
    due              \* history: entries written when the audit log's Shutdown began

coordVars == <<coordinator, isShuttingDown, opsDone, expired, shutdownErr>>
deployVars == <<deploying, finished, awaited, interrupted>>
apiVars == <<server, listening, active, opened>>
auditVars == <<file, written, archived, synced, due>>
vars == <<caller, coordVars, op, mgr, deployVars, apiVars, auditVars>>

Exited == caller[Main] = "exited"

Init ==
    /\ caller = [c \in Callers |-> "idle"]
    /\ coordinator = "idle" /\ isShuttingDown = FALSE
    /\ opsDone = FALSE /\ expired = FALSE
    /\ shutdownErr = "none"
    /\ op = [o \in Operations |-> "new"]
    /\ mgr = [m \in Managers |-> "new"]
    /\ deploying = {} /\ finished = {} /\ awaited = {} /\ interrupted = {}
    /\ server = 1
    /\ listening = Servers
    /\ active = [s \in Servers |-> {}] /\ opened = {}
    /\ file \in {"open", "nil"}   \* with a path for the log, or without
    /\ written = {} /\ archived = {} /\ synced = {} /\ due = {}

--------------------------------------------------------------------------------
(* What goes on meanwhile *)

\* Mutant: operations are refused once the managers are told, not before the wait.
AdmittedWhileWaiting(o) == coordinator \notin {"managers", "done"}

Admitted(o) == ~isShuttingDown

\* OperationStarted and OperationCompleted.
OperationStarted(o) ==
    /\ ~Exited /\ op[o] = "new"
    /\ op' = [op EXCEPT ![o] = IF Admitted(o) THEN "active" ELSE "refused"]
    /\ UNCHANGED <<caller, coordVars, mgr, deployVars, apiVars, auditVars>>

OperationCompleted(o) ==
    /\ ~Exited /\ op[o] = "active"
    /\ op' = [op EXCEPT ![o] = "completed"]
    /\ UNCHANGED <<caller, coordVars, mgr, deployVars, apiVars, auditVars>>

\* The poll loop, or a trigger, whose goroutine has a context that nobody cancels:
\* nothing asks whether a shutdown has begun.
BeginDeploy(d) ==
    /\ ~Exited
    /\ d \notin deploying \union finished
    /\ deploying' = deploying \union {d}
    /\ UNCHANGED <<caller, coordVars, op, mgr, finished, awaited, interrupted, apiVars, auditVars>>

\* Write of an audit entry, in the outcomes that module AuditLog has.
AuditWrite(e) ==
    \/ /\ file = "open"
       /\ archived' \in {archived, written}   \* as it was, or rotated first
       /\ written' = written \union {e}
       /\ UNCHANGED file
    \/ \* rotated, but no new file: the entry fails
       /\ file = "open" /\ file' = "closed"
       /\ archived' = written
       /\ UNCHANGED written
    \/ \* the next rotation finds nothing to rename and creates the file
       /\ file = "closed" /\ file' = "open"
       /\ written' = written \union {e}
       /\ UNCHANGED archived
    \/ \* neither renamed nor opened again
       /\ file # "nil" /\ file' = "nil"
       /\ UNCHANGED <<written, archived>>
    \/ UNCHANGED <<file, written, archived>>

\* A deploy ends, the last thing it writes being its audit entry.
EndDeploy(d) ==
    /\ ~Exited /\ d \in deploying
    /\ deploying' = deploying \ {d} /\ finished' = finished \union {d}
    /\ AuditWrite(d)
    /\ UNCHANGED <<caller, coordVars, op, mgr, awaited, interrupted, apiVars, synced, due>>

Open(k) ==
    /\ ~Exited /\ k \in Connections \ opened
    /\ \E s \in listening : active' = [active EXCEPT ![s] = @ \union {k}]
    /\ opened' = opened \union {k}
    /\ UNCHANGED <<caller, coordVars, op, mgr, deployVars, server, listening, auditVars>>

\* A request is answered, or the client of a stream leaves.
Close(k) ==
    /\ ~Exited
    /\ \E s \in Servers : k \in active[s] /\ active' = [active EXCEPT ![s] = @ \ {k}]
    /\ UNCHANGED <<caller, coordVars, op, mgr, deployVars, server, listening, opened, auditVars>>

--------------------------------------------------------------------------------
(* The signal handler and the other callers *)

\* A signal: the handler writes an audit entry and then calls Shutdown.
Signal ==
    /\ caller[Main] = "idle"
    /\ AuditWrite("shutdown")
    /\ caller' = [caller EXCEPT ![Main] = "calling"]
    /\ UNCHANGED <<coordVars, op, mgr, deployVars, apiVars, synced, due>>

Call(c) ==
    /\ c # Main /\ caller[c] = "idle" /\ ~Exited
    /\ caller' = [caller EXCEPT ![c] = "calling"]
    /\ UNCHANGED <<coordVars, op, mgr, deployVars, apiVars, auditVars>>

\* Mutant: a caller that finds the body begun does not wait for its end.
OnceBegun == coordinator # "idle"

OnceOver == coordinator = "done"

\* shutdownOnce: the first caller runs the body, the others wait for its end and
\* return no error.
Enter(c) ==
    /\ caller[c] = "calling" /\ ~Exited
    /\ \/ /\ coordinator = "idle"
          /\ coordinator' = "flag"
          /\ caller' = [caller EXCEPT ![c] = "inside"]
       \/ /\ OnceOver
          /\ caller' = [caller EXCEPT ![c] = "returned"]
          /\ UNCHANGED coordinator
    /\ UNCHANGED <<isShuttingDown, opsDone, expired, shutdownErr, op, mgr, deployVars, apiVars, auditVars>>

Return(c) ==
    /\ caller[c] = "inside" /\ coordinator = "done"
    /\ caller' = [caller EXCEPT ![c] = "returned"]
    /\ UNCHANGED <<coordVars, op, mgr, deployVars, apiVars, auditVars>>

\* The handler cancels the context, whatever Shutdown returned.
Cancel ==
    /\ caller[Main] = "returned"
    /\ caller' = [caller EXCEPT ![Main] = "cancelled"]
    /\ UNCHANGED <<coordVars, op, mgr, deployVars, apiVars, auditVars>>

\* main returns, and every goroutine with it.
Exit ==
    /\ caller[Main] = "cancelled"
    /\ caller' = [caller EXCEPT ![Main] = "exited"]
    /\ interrupted' = deploying
    /\ UNCHANGED <<coordVars, op, mgr, deploying, finished, awaited, apiVars, auditVars>>

--------------------------------------------------------------------------------
(* The coordinator *)

Running == ~Exited /\ coordinator # "idle"

SetFlag ==
    /\ Running /\ coordinator = "flag"
    /\ isShuttingDown' = TRUE
    /\ coordinator' = "waiting"
    /\ UNCHANGED <<opsDone, expired, shutdownErr, caller, op, mgr, deployVars, apiVars, auditVars>>

\* Time: 30 seconds since the flag was set.
Expire ==
    /\ Running /\ coordinator \in {"waiting", "managers"} /\ ~expired
    /\ expired' = TRUE
    /\ UNCHANGED <<coordinator, isShuttingDown, opsDone, shutdownErr, caller, op, mgr,
                   deployVars, apiVars, auditVars>>

\* activeOps.Wait returns in a goroutine of its own.
OpsDone ==
    /\ Running /\ coordinator \in {"waiting", "managers"} /\ ~opsDone
    /\ \A o \in Operations : op[o] # "active"
    /\ opsDone' = TRUE
    /\ UNCHANGED <<coordinator, isShuttingDown, expired, shutdownErr, caller, op, mgr,
                   deployVars, apiVars, auditVars>>

\* The monitor has nothing to wait for.
MonitorShutdown == "nil"

\* Every operation that was admitted has completed, or the time is over: the
\* managers are told, all at once.
OperationsOver ==
    /\ Running /\ coordinator = "waiting"
    /\ opsDone \/ expired
    /\ coordinator' = "managers"
    /\ mgr' = [m \in Managers |-> IF m = "monitor" THEN MonitorShutdown ELSE "running"]
    /\ awaited' = deploying /\ due' = written
    /\ UNCHANGED <<isShuttingDown, opsDone, expired, shutdownErr, caller, op, deploying,
                   finished, interrupted, apiVars, file, written, archived, synced>>

\* wg.Wait, and the errors collected.
ManagersOver ==
    /\ Running /\ coordinator = "managers"
    /\ \A m \in Managers : mgr[m] \in {"nil", "error"}
    /\ coordinator' = "done"
    /\ shutdownErr' = IF \E m \in Managers : mgr[m] = "error" THEN "error" ELSE "nil"
    /\ UNCHANGED <<isShuttingDown, opsDone, expired, caller, op, mgr, deployVars, apiVars, auditVars>>

--------------------------------------------------------------------------------
(* The managers *)

Returns(m, result) ==
    /\ ~Exited /\ mgr[m] = "running"
    /\ mgr' = [mgr EXCEPT ![m] = result]

Others == <<caller, coordVars, op, deployVars, apiVars, auditVars>>

\* Mutant: the wait is given up at the first tick.
NoDeploysLeftAnyway == TRUE

NoDeploysLeft == deploying = {}

\* Mutant: the wait does not look at the context.
UpdaterTimeoutNever == FALSE

UpdaterTimeout == expired

\* The ticker of half a second finds no deploy in progress, or the time is over.
UpdaterShutdown ==
    /\ \/ NoDeploysLeft /\ Returns("updater", "nil")
       \/ UpdaterTimeout /\ Returns("updater", "error")
    /\ UNCHANGED Others

\* The grace of five seconds, or the end of the time.
HealerShutdown ==
    /\ Returns("healer", "nil") \/ (expired /\ Returns("healer", "error"))
    /\ UNCHANGED Others

\* The listener of the server is closed.
StopListening ==
    /\ ~Exited /\ mgr["api"] = "running" /\ server \in listening
    /\ listening' = listening \ {server}
    /\ UNCHANGED <<caller, coordVars, op, mgr, deployVars, server, active, opened, auditVars>>

\* Mutant: the loop goes one past the last server.
LastServerPassed == server > NumServers

LastServer == server = NumServers

\* Its connections are idle: the next server, or the end.
ServerClosed ==
    /\ ~Exited /\ mgr["api"] = "running"
    /\ server \notin listening /\ active[server] = {}
    /\ IF LastServer
       THEN Returns("api", "nil") /\ UNCHANGED server
       ELSE server' = server + 1 /\ UNCHANGED mgr
    /\ UNCHANGED <<caller, coordVars, op, deployVars, listening, active, opened, auditVars>>

\* Mutant: the error of a server is logged, and the next one is tried.
ServerFailsOn ==
    IF LastServer
    THEN Returns("api", "nil") /\ UNCHANGED server
    ELSE server' = server + 1 /\ UNCHANGED mgr

\* The error ends the loop: the servers that follow are left as they are.
ServerFails == Returns("api", "error") /\ UNCHANGED server

\* Ten seconds have passed, or all the time: the connections stay.
ServerTimeout ==
    /\ ~Exited /\ mgr["api"] = "running"
    /\ server \notin listening /\ active[server] # {}
    /\ ServerFails
    /\ UNCHANGED <<caller, coordVars, op, deployVars, listening, active, opened, auditVars>>

\* The look at l.file, without the lock: where it is nil nothing is synced, whatever
\* was written before.
AuditShutdown ==
    /\ Returns("audit", IF file = "nil" THEN "nil" ELSE "syncing")
    /\ UNCHANGED Others

\* The open file is synced, and no archive; or it cannot be, or takes more than five seconds.
AuditSync ==
    /\ ~Exited /\ mgr["audit"] = "syncing"
    /\ \/ /\ file = "open"
          /\ mgr' = [mgr EXCEPT !["audit"] = "nil"]
          /\ synced' = synced \union (written \ archived)
       \/ mgr' = [mgr EXCEPT !["audit"] = "error"] /\ UNCHANGED synced
    /\ UNCHANGED <<caller, coordVars, op, deployVars, apiVars, file, written, archived, due>>

ManagersStep ==
    \/ UpdaterShutdown \/ HealerShutdown \/ AuditShutdown \/ AuditSync
    \/ StopListening \/ ServerClosed \/ ServerTimeout

CoordinatorStep == SetFlag \/ OpsDone \/ OperationsOver \/ ManagersOver

HandlerStep == Cancel \/ Exit \/ \E c \in Callers : Enter(c) \/ Return(c)

Next ==
    \/ \E o \in Operations : OperationStarted(o) \/ OperationCompleted(o)
    \/ \E d \in Deploys : BeginDeploy(d) \/ EndDeploy(d)
    \/ \E k \in Connections : Open(k) \/ Close(k)
    \/ Signal \/ \E c \in Callers : Call(c)
    \/ HandlerStep \/ CoordinatorStep \/ Expire \/ ManagersStep

\* Time passes, and the goroutines of the shutdown run.  Nothing says that a
\* deploy or a connection ends, that an operation completes, or that a signal comes.
Spec ==
    /\ Init /\ [][Next]_vars
    /\ WF_vars(Expire)
    /\ WF_vars(CoordinatorStep) /\ WF_vars(HandlerStep)
    /\ WF_vars(UpdaterShutdown) /\ WF_vars(HealerShutdown)
    /\ WF_vars(AuditShutdown) /\ WF_vars(AuditSync)
    /\ WF_vars(StopListening) /\ WF_vars(ServerClosed) /\ WF_vars(ServerTimeout)

--------------------------------------------------------------------------------
(* Properties *)

TypeOK ==
    /\ caller \in [Callers -> {"idle", "calling", "inside", "returned", "cancelled", "exited"}]
    /\ coordinator \in {"idle", "flag", "waiting", "managers", "done"}
    /\ {isShuttingDown, opsDone, expired} \subseteq BOOLEAN
    /\ shutdownErr \in {"none", "nil", "error"}
    /\ op \in [Operations -> {"new", "refused", "active", "completed"}]
    /\ mgr \in [Managers -> {"new", "running", "syncing", "nil", "error"}]
    /\ deploying \union finished \union awaited \union interrupted \subseteq Deploys
    /\ deploying \cap finished = {}
    /\ server \in Servers /\ listening \subseteq Servers
    /\ active \in [Servers -> SUBSET opened] /\ opened \subseteq Connections
    /\ file \in {"open", "closed", "nil"}
    /\ synced \union due \union archived \subseteq written /\ written \subseteq Deploys \union {"shutdown"}

\* The managers are told to stop only when no operation that was admitted is
\* still active, unless the time ran out: an operation that starts while the
\* coordinator waits is either waited for or refused, never missed.
OperationsAwaited ==
    coordinator \in {"managers", "done"} /\ ~expired =>
        \A o \in Operations : op[o] # "active"

\* A shutdown that reports no error has closed every server with no connection
\* left, interrupts no deploy that was in progress when the managers were told, and
\* has on the disk every entry written before then, except what the code lets go:
\* an archive that rotation closed without a sync, and a log whose file is lost.
NilMeansClean ==
    shutdownErr = "nil" =>
        /\ listening = {} /\ \A s \in Servers : active[s] = {}
        /\ awaited \cap (deploying \union interrupted) = {}
        /\ file # "nil" => due \ archived \subseteq synced

\* The body runs once: while a caller is in it, every other caller waits, and
\* none returns before each manager has returned.
OneShutdown ==
    /\ Cardinality({c \in Callers : caller[c] = "inside"}) <= 1
    /\ (\E c \in Callers : caller[c] \in {"returned", "cancelled", "exited"}) =>
        \A m \in Managers : mgr[m] \in {"nil", "error"}

\* After a signal the process ends, although deploys, operations and streams may
\* last for ever.
SignalEnds == (caller[Main] = "calling") ~> Exited
================================================================================
