---------------------------- MODULE ShutdownProofs ----------------------------
(* Proofs about Shutdown, for every value of the constants. *)
EXTENDS Shutdown, FiniteSetTheorems, TLAPS

USE ShutdownAssumption
USE DEF vars, coordVars, deployVars, apiVars, auditVars, Others

\* Every variable stays in its range (Shutdown, TypeOK).
THEOREM TypeCorrect == Spec => []TypeOK
<1>1. Init => TypeOK
  <2> SUFFICES ASSUME Init PROVE TypeOK
    OBVIOUS
  <2> USE DEF Init
  <2>1. {isShuttingDown, opsDone, expired} \subseteq BOOLEAN
    BY Zenon
  <2>2. 1 \in Servers
    BY DEF Servers
  <2>3. active \in [Servers -> SUBSET opened]
    BY Zenon
  <2> QED
    BY <2>1, <2>2, <2>3 DEF TypeOK
<1>2. TypeOK /\ [Next]_vars => TypeOK'
  <2> SUFFICES ASSUME TypeOK, [Next]_vars PROVE TypeOK'
    OBVIOUS
  <2> USE DEF TypeOK
  <2>1. ASSUME NEW o \in Operations, OperationStarted(o) \/ OperationCompleted(o) PROVE TypeOK'
    BY <2>1 DEF OperationStarted, OperationCompleted
  <2>2. ASSUME NEW d \in Deploys, BeginDeploy(d) PROVE TypeOK'
    BY <2>2 DEF BeginDeploy
  <2>3. ASSUME NEW d \in Deploys, EndDeploy(d) PROVE TypeOK'
    <3>1. /\ file' \in {"open", "closed", "nil"}
          /\ synced' \union due' \union archived' \subseteq written'
          /\ written' \subseteq Deploys \union {"shutdown"}
      BY <2>3 DEF EndDeploy, AuditWrite
    <3> QED
      BY <2>3, <3>1 DEF EndDeploy
  <2>4. ASSUME NEW k \in Connections, Open(k) PROVE TypeOK'
    BY <2>4 DEF Open
  <2>5. ASSUME NEW k \in Connections, Close(k) PROVE TypeOK'
    BY <2>5 DEF Close
  <2>6. CASE Signal
    <3>1. /\ file' \in {"open", "closed", "nil"}
          /\ synced' \union due' \union archived' \subseteq written'
          /\ written' \subseteq Deploys \union {"shutdown"}
      BY <2>6 DEF Signal, AuditWrite
    <3> QED
      BY <2>6, <3>1 DEF Signal
  <2>7. ASSUME NEW c \in Callers, Call(c) \/ Enter(c) \/ Return(c) PROVE TypeOK'
    BY <2>7 DEF Call, Enter, Return
  <2>8. CASE Cancel \/ Exit
    BY <2>8 DEF Cancel, Exit
  <2>9. CASE CoordinatorStep
    BY <2>9 DEF CoordinatorStep, SetFlag, OpsDone, OperationsOver, ManagersOver, MonitorShutdown
  <2>10. CASE Expire
    BY <2>10 DEF Expire
  <2>11. CASE UpdaterShutdown \/ HealerShutdown \/ AuditShutdown \/ AuditSync
    BY <2>11 DEF UpdaterShutdown, HealerShutdown, AuditShutdown, AuditSync, Returns
  <2>12. CASE StopListening
    BY <2>12 DEF StopListening
  <2>13. CASE ServerClosed
    <3>1. server # NumServers => server + 1 \in Servers
      BY DEF Servers
    <3> QED
      BY <2>13, <3>1 DEF ServerClosed, LastServer, Returns
  <2>15. CASE ServerTimeout
    BY <2>15 DEF ServerTimeout, ServerFails, Returns
  <2>14. CASE UNCHANGED vars
    BY <2>14
  <2> QED
    BY <2>1, <2>2, <2>3, <2>4, <2>5, <2>6, <2>7, <2>8, <2>9, <2>10, <2>11, <2>12, <2>13, <2>14, <2>15
    DEF Next, HandlerStep, ManagersStep
<1> QED
  BY <1>1, <1>2, PTL DEF Spec

--------------------------------------------------------------------------------
(* Operations *)

\* The channel of the wait is closed when no operation is active, and by then
\* the flag refuses new ones.
WaitHolds ==
  /\ isShuttingDown <=> coordinator \notin {"idle", "flag"}
  /\ opsDone => isShuttingDown /\ \A o \in Operations : op[o] # "active"
  /\ coordinator \in {"managers", "done"} => opsDone \/ expired

\* The managers are told when every operation that was admitted has completed,
\* or the time is over (Shutdown, OperationsAwaited).
THEOREM OperationsAlwaysAwaited == Spec => []OperationsAwaited
<1>1. Init => WaitHolds
  BY DEF Init, WaitHolds
<1>2. TypeOK /\ WaitHolds /\ [Next]_vars => WaitHolds'
  <2> SUFFICES ASSUME TypeOK, WaitHolds, [Next]_vars PROVE WaitHolds'
    OBVIOUS
  <2> USE DEF TypeOK, WaitHolds
  <2>1. ASSUME NEW o \in Operations, OperationStarted(o) PROVE WaitHolds'
    BY <2>1 DEF OperationStarted, Admitted
  <2>2. ASSUME NEW o \in Operations, OperationCompleted(o) PROVE WaitHolds'
    BY <2>2 DEF OperationCompleted
  <2>3. ASSUME NEW c \in Callers, Enter(c) PROVE WaitHolds'
    BY <2>3 DEF Enter
  <2>4. CASE SetFlag
    BY <2>4 DEF SetFlag
  <2>5. CASE OpsDone
    BY <2>5 DEF OpsDone
  <2>6. CASE OperationsOver
    BY <2>6 DEF OperationsOver
  <2>7. CASE ManagersOver
    BY <2>7 DEF ManagersOver
  <2>8. CASE Expire
    BY <2>8 DEF Expire
  <2>9. CASE UNCHANGED <<coordVars, op>>
    BY <2>9
  <2>10. ManagersStep \/ Signal \/ Cancel \/ Exit => UNCHANGED <<coordVars, op>>
    BY DEF ManagersStep, UpdaterShutdown, HealerShutdown, AuditShutdown, AuditSync, StopListening,
           ServerClosed, ServerTimeout, Signal, Cancel, Exit
  <2>11. /\ \A c \in Callers : Call(c) \/ Return(c) => UNCHANGED <<coordVars, op>>
         /\ \A d \in Deploys : BeginDeploy(d) \/ EndDeploy(d) => UNCHANGED <<coordVars, op>>
         /\ \A k \in Connections : Open(k) \/ Close(k) => UNCHANGED <<coordVars, op>>
    BY DEF Call, Return, BeginDeploy, EndDeploy, Open, Close
  <2> QED
    BY <2>1, <2>2, <2>3, <2>4, <2>5, <2>6, <2>7, <2>8, <2>9, <2>10, <2>11
    DEF Next, HandlerStep, CoordinatorStep
<1>3. WaitHolds => OperationsAwaited
  BY DEF WaitHolds, OperationsAwaited
<1> QED
  BY <1>1, <1>2, <1>3, TypeCorrect, PTL DEF Spec

--------------------------------------------------------------------------------
(* One run of the body *)

\* Nobody is past the call before the body begins, one caller at most is inside,
\* and whoever has returned found the body over.
OnceHolds ==
  /\ coordinator = "idle" => \A c \in Callers : caller[c] \in {"idle", "calling"}
  /\ \A c, d \in Callers : caller[c] = "inside" /\ caller[d] = "inside" => c = d
  /\ \A c \in Callers : caller[c] \in {"returned", "cancelled", "exited"} => coordinator = "done"
  /\ coordinator = "done" => \A m \in Managers : mgr[m] \in {"nil", "error"}

\* The managers' results stand once they are there.
LEMMA ResultsStand ==
  ASSUME TypeOK, ManagersStep, \A m \in Managers : mgr[m] \in {"nil", "error"}
  PROVE  mgr' = mgr
BY DEF ManagersStep, UpdaterShutdown, HealerShutdown, AuditShutdown, AuditSync, StopListening,
       ServerClosed, ServerTimeout, ServerFails, Returns, Managers, TypeOK

\* While a caller runs the body the others wait, and none returns before every
\* manager has (Shutdown, OneShutdown).
THEOREM BodyRunsOnce == Spec => []OneShutdown
<1>1. Init => OnceHolds
  BY DEF Init, OnceHolds
<1>2. TypeOK /\ OnceHolds /\ [Next]_vars => OnceHolds'
  <2> SUFFICES ASSUME TypeOK, OnceHolds, [Next]_vars PROVE OnceHolds'
    OBVIOUS
  <2> USE DEF TypeOK, OnceHolds
  <2>1. CASE Signal
    BY <2>1 DEF Signal
  <2>2. ASSUME NEW c \in Callers, Call(c) PROVE OnceHolds'
    BY <2>2 DEF Call
  <2>3. ASSUME NEW c \in Callers, Enter(c) PROVE OnceHolds'
    BY <2>3 DEF Enter, OnceOver
  <2>4. ASSUME NEW c \in Callers, Return(c) PROVE OnceHolds'
    BY <2>4 DEF Return
  <2>5. CASE Cancel \/ Exit
    BY <2>5 DEF Cancel, Exit
  <2>6. CASE CoordinatorStep
    BY <2>6 DEF CoordinatorStep, SetFlag, OpsDone, OperationsOver, ManagersOver, Running
  <2>7. CASE ManagersStep
    <3>1. UNCHANGED <<caller, coordVars>>
      BY <2>7 DEF ManagersStep, UpdaterShutdown, HealerShutdown, AuditShutdown, AuditSync,
                  StopListening, ServerClosed, ServerTimeout
    <3> QED
      BY <2>7, <3>1, ResultsStand
  <2>8. CASE UNCHANGED <<caller, coordinator, mgr>>
    BY <2>8
  <2>9. /\ Expire => UNCHANGED <<caller, coordinator, mgr>>
        /\ \A o \in Operations : OperationStarted(o) \/ OperationCompleted(o) => UNCHANGED <<caller, coordinator, mgr>>
        /\ \A d \in Deploys : BeginDeploy(d) \/ EndDeploy(d) => UNCHANGED <<caller, coordinator, mgr>>
        /\ \A k \in Connections : Open(k) \/ Close(k) => UNCHANGED <<caller, coordinator, mgr>>
    BY DEF Expire, OperationStarted, OperationCompleted, BeginDeploy, EndDeploy, Open, Close
  <2> QED
    BY <2>1, <2>2, <2>3, <2>4, <2>5, <2>6, <2>7, <2>8, <2>9 DEF Next, HandlerStep
<1>3. OnceHolds => OneShutdown
  <2> SUFFICES ASSUME OnceHolds PROVE OneShutdown
    OBVIOUS
  <2> DEFINE Inside == {c \in Callers : caller[c] = "inside"}
  <2>1. Cardinality(Inside) <= 1
    <3>1. CASE Inside = {}
      BY <3>1, FS_EmptySet
    <3>2. CASE Inside # {}
      <4> PICK c \in Inside : TRUE
        BY <3>2
      <4>1. Inside = {c}
        BY DEF OnceHolds
      <4> QED
        BY <4>1, FS_Singleton
    <3> QED
      BY <3>1, <3>2
  <2> QED
    BY <2>1 DEF OnceHolds, OneShutdown
<1> QED
  BY <1>1, <1>2, <1>3, TypeCorrect, PTL DEF Spec

--------------------------------------------------------------------------------
(* What a shutdown without error says *)

\* The deploys that were awaited were in progress then and have ended when the
\* updater's Shutdown returned no error; the process still runs them, or has ended.
DeploysHold ==
  /\ awaited \subseteq deploying \union finished
  /\ interrupted # {} => Exited
  /\ mgr["updater"] = "nil" => awaited \cap (deploying \union interrupted) = {}

\* The servers before the current one are closed.
ServersHold ==
  /\ \A s \in Servers : s < server => s \notin listening /\ active[s] = {}
  /\ mgr["api"] = "nil" => listening = {} /\ \A s \in Servers : active[s] = {}

\* Once the audit log has returned no error, what was due and is in no archive was
\* in the file that was synced; a log without a file stays without.
EntriesHold == mgr["audit"] = "nil" /\ file # "nil" => due \ archived \subseteq synced

\* The coordinator's result is that of all managers together.
ResultHolds ==
  /\ coordinator \in {"idle", "flag", "waiting"} => shutdownErr = "none" /\ \A m \in Managers : mgr[m] = "new"
  /\ coordinator = "managers" => shutdownErr = "none"
  /\ shutdownErr = "nil" => \A m \in Managers : mgr[m] = "nil"

CleanInv == DeploysHold /\ ServersHold /\ EntriesHold /\ ResultHolds

LEMMA ManagersFacts ==
  /\ {"updater", "healer", "monitor", "api", "audit"} \subseteq Managers
  /\ \A s \in Servers : s \in Nat /\ 1 <= s /\ s <= NumServers
BY DEF Managers, Servers

\* What the servers' part rests on is disturbed by these steps alone.
LEMMA ServersStep ==
  ASSUME TypeOK, ServersHold, [Next]_vars
  PROVE  ServersHold'
<1> USE DEF TypeOK, ServersHold
<1>1. ASSUME NEW k \in Connections, Open(k) PROVE ServersHold'
  BY <1>1 DEF Open
<1>2. ASSUME NEW k \in Connections, Close(k) PROVE ServersHold'
  BY <1>2 DEF Close
<1>3. CASE StopListening
  BY <1>3, ManagersFacts DEF StopListening
<1>4. CASE ServerClosed
  <2>1. CASE server = NumServers
    <3>1. \A s \in Servers : s = server \/ s < server
      BY <2>1, ManagersFacts
    <3>2. listening' = {} /\ \A s \in Servers : active'[s] = {}
      BY <1>4, <3>1 DEF ServerClosed
    <3> QED
      BY <1>4, <2>1, <3>2 DEF ServerClosed, LastServer
  <2>2. CASE server # NumServers
    <3>1. mgr' = mgr /\ server' = server + 1 /\ UNCHANGED <<listening, active>>
          /\ server \notin listening /\ active[server] = {} /\ mgr["api"] = "running"
      BY <1>4, <2>2 DEF ServerClosed, LastServer
    <3>2. \A s \in Servers : s < server + 1 => s < server \/ s = server
      BY ManagersFacts
    <3> QED
      BY <3>1, <3>2
  <2> QED
    BY <2>1, <2>2
<1>5. CASE ServerTimeout
  BY <1>5, ManagersFacts DEF ServerTimeout, ServerFails, Returns
<1>6. CASE UpdaterShutdown \/ HealerShutdown \/ AuditShutdown \/ AuditSync
  BY <1>6, ManagersFacts DEF UpdaterShutdown, HealerShutdown, AuditShutdown, AuditSync, Returns
<1>7. CASE OperationsOver
  BY <1>7, ManagersFacts DEF OperationsOver
<1>8. CASE UNCHANGED <<mgr, server, listening, active>>
  BY <1>8
<1>9. /\ Signal \/ Cancel \/ Exit \/ SetFlag \/ OpsDone \/ ManagersOver \/ Expire =>
           UNCHANGED <<mgr, server, listening, active>>
      /\ \A c \in Callers : Call(c) \/ Enter(c) \/ Return(c) => UNCHANGED <<mgr, server, listening, active>>
      /\ \A o \in Operations : OperationStarted(o) \/ OperationCompleted(o) =>
           UNCHANGED <<mgr, server, listening, active>>
      /\ \A d \in Deploys : BeginDeploy(d) \/ EndDeploy(d) => UNCHANGED <<mgr, server, listening, active>>
  BY DEF Signal, Cancel, Exit, SetFlag, OpsDone, ManagersOver, Expire, Call, Enter, Return,
         OperationStarted, OperationCompleted, BeginDeploy, EndDeploy
<1> QED
  BY <1>1, <1>2, <1>3, <1>4, <1>5, <1>6, <1>7, <1>8, <1>9
  DEF Next, HandlerStep, CoordinatorStep, ManagersStep

LEMMA DeploysStep ==
  ASSUME TypeOK, DeploysHold, [Next]_vars
  PROVE  DeploysHold'
<1> USE DEF TypeOK, DeploysHold
<1>1. ASSUME NEW d \in Deploys, BeginDeploy(d) PROVE DeploysHold'
  BY <1>1 DEF BeginDeploy, Exited
<1>2. ASSUME NEW d \in Deploys, EndDeploy(d) PROVE DeploysHold'
  BY <1>2 DEF EndDeploy, Exited
<1>3. CASE Exit
  BY <1>3 DEF Exit, Exited
<1>4. ASSUME Signal \/ Cancel \/ \E c \in Callers : Call(c) \/ Enter(c) \/ Return(c)
      PROVE  DeploysHold'
  <2>1. Exited => Exited'
    BY <1>4 DEF Signal, Cancel, Call, Enter, Return, Exited
  <2>2. UNCHANGED <<mgr, deployVars>>
    BY <1>4 DEF Signal, Cancel, Call, Enter, Return
  <2> QED
    BY <2>1, <2>2
<1>5. CASE OperationsOver
  BY <1>5, ManagersFacts DEF OperationsOver, Running, Exited
<1>6. CASE UpdaterShutdown
  <2>1. ~Exited /\ UNCHANGED <<caller, deployVars>>
    BY <1>6 DEF UpdaterShutdown, Returns
  <2>2. mgr'["updater"] = "nil" => deploying = {}
    BY <1>6, ManagersFacts DEF UpdaterShutdown, NoDeploysLeft, Returns
  <2> QED
    BY <2>1, <2>2 DEF Exited
<1>7. ASSUME HealerShutdown \/ AuditShutdown \/ AuditSync \/ StopListening \/ ServerClosed \/ ServerTimeout
      PROVE  DeploysHold'
  <2>1. UNCHANGED <<caller, deployVars>>
    BY <1>7 DEF HealerShutdown, AuditShutdown, AuditSync, StopListening, ServerClosed, ServerTimeout
  <2>2. mgr'["updater"] = mgr["updater"]
    BY <1>7, ManagersFacts
    DEF HealerShutdown, AuditShutdown, AuditSync, StopListening, ServerClosed, ServerTimeout, ServerFails, Returns
  <2> QED
    BY <2>1, <2>2 DEF Exited
<1>8. CASE UNCHANGED <<caller, mgr, deployVars>>
  BY <1>8 DEF Exited
<1>9. /\ SetFlag \/ OpsDone \/ ManagersOver \/ Expire => UNCHANGED <<caller, mgr, deployVars>>
      /\ \A o \in Operations : OperationStarted(o) \/ OperationCompleted(o) =>
           UNCHANGED <<caller, mgr, deployVars>>
      /\ \A k \in Connections : Open(k) \/ Close(k) => UNCHANGED <<caller, mgr, deployVars>>
  BY DEF SetFlag, OpsDone, ManagersOver, Expire, OperationStarted, OperationCompleted, Open, Close
<1> QED
  BY <1>1, <1>2, <1>3, <1>4, <1>5, <1>6, <1>7, <1>8, <1>9
  DEF Next, HandlerStep, CoordinatorStep, ManagersStep

LEMMA ResultStep ==
  ASSUME TypeOK, ResultHolds, EntriesHold, [Next]_vars
  PROVE  ResultHolds' /\ EntriesHold'
<1> USE DEF TypeOK, ResultHolds, EntriesHold
<1>1. CASE SetFlag \/ OpsDone \/ Expire
  BY <1>1 DEF SetFlag, OpsDone, Expire
<1>2. CASE OperationsOver
  BY <1>2, ManagersFacts DEF OperationsOver
<1>3. CASE ManagersOver
  BY <1>3 DEF ManagersOver
<1>4. ASSUME NEW c \in Callers, Enter(c) PROVE ResultHolds' /\ EntriesHold'
  BY <1>4 DEF Enter
<1>5. CASE AuditShutdown \/ AuditSync
  <2>1. mgr["audit"] \in {"running", "syncing"} /\ UNCHANGED <<due, file, archived, coordVars>>
    BY <1>5 DEF AuditShutdown, AuditSync, Returns
  <2>2. mgr'["audit"] = "nil" => file = "nil" \/ written \ archived \subseteq synced'
    BY <1>5, ManagersFacts DEF AuditShutdown, AuditSync, Returns
  <2>3. coordinator \notin {"idle", "flag", "waiting"} /\ shutdownErr # "nil"
    BY <2>1, ManagersFacts
  <2> QED
    BY <2>1, <2>2, <2>3
<1>6. ASSUME UpdaterShutdown \/ HealerShutdown \/ StopListening \/ ServerClosed \/ ServerTimeout
      PROVE  ResultHolds' /\ EntriesHold'
  <2>1. UNCHANGED <<coordVars, auditVars>>
    BY <1>6 DEF UpdaterShutdown, HealerShutdown, StopListening, ServerClosed, ServerTimeout
  <2>2. mgr'["audit"] = mgr["audit"]
    BY <1>6, ManagersFacts
    DEF UpdaterShutdown, HealerShutdown, StopListening, ServerClosed, ServerTimeout, ServerFails, Returns
  <2>3. \/ mgr' = mgr
        \/ coordinator \notin {"idle", "flag", "waiting"} /\ shutdownErr # "nil"
    BY <1>6, ManagersFacts
    DEF UpdaterShutdown, HealerShutdown, StopListening, ServerClosed, ServerTimeout, ServerFails, Returns
  <2> QED
    BY <2>1, <2>2, <2>3
<1>7. CASE UNCHANGED <<coordVars, mgr, auditVars>>
  BY <1>7
<1>8. /\ Cancel \/ Exit => UNCHANGED <<coordVars, mgr, auditVars>>
      /\ \A c \in Callers : Call(c) \/ Return(c) => UNCHANGED <<coordVars, mgr, auditVars>>
      /\ \A o \in Operations : OperationStarted(o) \/ OperationCompleted(o) =>
           UNCHANGED <<coordVars, mgr, auditVars>>
      /\ \A d \in Deploys : BeginDeploy(d) => UNCHANGED <<coordVars, mgr, auditVars>>
      /\ \A k \in Connections : Open(k) \/ Close(k) => UNCHANGED <<coordVars, mgr, auditVars>>
  BY DEF Cancel, Exit, Call, Return, OperationStarted, OperationCompleted, BeginDeploy, Open, Close
<1>9. ASSUME Signal \/ \E d \in Deploys : EndDeploy(d) PROVE ResultHolds' /\ EntriesHold'
  <2>1. UNCHANGED <<coordVars, mgr, synced, due>>
    BY <1>9 DEF Signal, EndDeploy
  <2>2. \E e : AuditWrite(e)
    BY <1>9 DEF Signal, EndDeploy
  <2>3. archived \subseteq archived' /\ (file' # "nil" => file # "nil")
    BY <2>2 DEF AuditWrite
  <2> QED
    BY <2>1, <2>3
<1> QED
  BY <1>1, <1>2, <1>3, <1>4, <1>5, <1>6, <1>7, <1>8, <1>9
  DEF Next, HandlerStep, CoordinatorStep, ManagersStep

\* A shutdown that returns no error has closed every server, interrupts no deploy it
\* found, and has synced what was written before into the file then open, where the
\* log still has one (Shutdown, NilMeansClean).
THEOREM CleanWhenNil == Spec => []NilMeansClean
<1>1. Init => CleanInv
  <2> SUFFICES ASSUME Init PROVE CleanInv
    OBVIOUS
  <2>1. \A m \in Managers : mgr[m] = "new"
    BY DEF Init
  <2>2. DeploysHold
    BY <2>1, ManagersFacts DEF Init, DeploysHold
  <2>3. ServersHold /\ EntriesHold /\ ResultHolds
    BY <2>1, ManagersFacts DEF Init, ServersHold, EntriesHold, ResultHolds
  <2> QED
    BY <2>2, <2>3 DEF CleanInv
<1>2. TypeOK /\ CleanInv /\ [Next]_vars => CleanInv'
  BY ServersStep, DeploysStep, ResultStep DEF CleanInv
<1>3. CleanInv => NilMeansClean
  BY ManagersFacts DEF CleanInv, DeploysHold, ServersHold, EntriesHold, ResultHolds, NilMeansClean
<1> QED
  BY <1>1, <1>2, <1>3, TypeCorrect, PTL DEF Spec
================================================================================
