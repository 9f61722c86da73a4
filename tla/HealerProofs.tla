----------------------------- MODULE HealerProofs -----------------------------
(* Proofs about Healer, for every value of the constants. *)
EXTENDS Healer, SequenceTheorems, TLAPS

USE ConstantsAssumption
USE DEF vars, dockerVars, updaterVars, healVars, processVars, goroutineVars, history, At, Goto

LEMMA ProcsFacts == Events \in Procs /\ \A c \in Checks : c \in Procs /\ c # Events
  BY DEF Procs

\* The sequence operators of the actions, on a stream of events.
LEMMA StreamTyped ==
  ASSUME NEW s \in Seq(Kinds), NEW k \in Kinds
  PROVE  /\ Append(s, k) \in Seq(Kinds)
         /\ s \o <<"start">> \in Seq(Kinds)
         /\ s \o <<"die", "start">> \in Seq(Kinds)
         /\ s # <<>> => Tail(s) \in Seq(Kinds) /\ Head(s) \in Kinds
  BY DEF Kinds

\* What is recorded of an event stays in its range.
LEMMA PassedTyped ==
  ASSUME HistoryOK, NEW k \in {"healthy", "boot"}, Passed(k)
  PROVE  /\ recent' \in BOOLEAN /\ since' \in SUBSET {"healthy", "failed", "boot"}
         /\ ~(recent' /\ since' = {})
<1>1. recent' = recent /\ since' = IF recent THEN since \union {k} ELSE since
  BY DEF Passed
<1> QED
  BY <1>1 DEF HistoryOK

\* Every variable stays in its range (Healer, TypeOK).
THEOREM TypeCorrect == Spec => []TypeOK
<1>1. Init => TypeOK
  <2> SUFFICES ASSUME Init PROVE TypeOK
    OBVIOUS
  <2> USE DEF Init
  <2>1. DockerOK
    BY DEF DockerOK, ContainerStates
  <2>2. UpdaterOK
    <3>1. deploying \in BOOLEAN
      BY Zenon
    <3>2. deploys \in 0 .. MaxDeploys
      OBVIOUS
    <3> QED
      BY <3>1, <3>2 DEF UpdaterOK
  <2>3. MapsOK
    BY DEF MapsOK, Seed
  <2>4. ProcessOK
    BY DEF ProcessOK
  <2>5. GoroutinesOK
    BY ProcsFacts DEF GoroutinesOK, Kinds, EventPCs, CheckPCs
  <2>6. HistoryOK
    BY DEF HistoryOK
  <2> QED
    BY <2>1, <2>2, <2>3, <2>4, <2>5, <2>6 DEF TypeOK
<1>2. TypeOK /\ [Next]_vars => TypeOK'
  <2> SUFFICES ASSUME TypeOK, [Next]_vars PROVE TypeOK'
    OBVIOUS
  <2> USE DEF TypeOK
  <2>1. CASE EventStep
    <3>1. CASE HandleUnhealthy
      BY <2>1, <3>1, ProcsFacts, StreamTyped
      DEF HandleUnhealthy, Receive, DockerOK, UpdaterOK, MapsOK, ProcessOK, GoroutinesOK, HistoryOK, Kinds,
          ContainerStates, EventPCs, CheckPCs
    <3>2. CASE HandleHealthy
      <4>1. recent' \in BOOLEAN /\ since' \in SUBSET {"healthy", "failed", "boot"}
        BY <3>2, PassedTyped DEF HandleHealthy
      <4>2. HistoryOK'
        BY <3>2, <4>1 DEF HandleHealthy, HistoryOK
      <4>3. DockerOK' /\ UpdaterOK' /\ MapsOK' /\ ProcessOK' /\ GoroutinesOK'
        BY <3>2, ProcsFacts, StreamTyped
        DEF HandleHealthy, Receive, DockerOK, UpdaterOK, MapsOK, ProcessOK, GoroutinesOK, Kinds,
            ContainerStates, EventPCs, CheckPCs
      <4> QED
        BY <4>2, <4>3
    <3>3. CASE HandleDied
      BY <2>1, <3>3, ProcsFacts, StreamTyped
      DEF HandleDied, Receive, DockerOK, UpdaterOK, MapsOK, ProcessOK, GoroutinesOK, HistoryOK, Kinds,
          ContainerStates, EventPCs, CheckPCs
    <3>4. CASE HandleStarted
      BY <2>1, <3>4, ProcsFacts, StreamTyped
      DEF HandleStarted, Receive, DockerOK, UpdaterOK, MapsOK, ProcessOK, GoroutinesOK, HistoryOK, Kinds,
          ContainerStates, EventPCs, CheckPCs
    <3>5. CASE ReportBad
      BY <2>1, <3>5, ProcsFacts, StreamTyped
      DEF ReportBad, DockerOK, UpdaterOK, MapsOK, ProcessOK, GoroutinesOK, HistoryOK, Kinds,
          ContainerStates, EventPCs, CheckPCs
    <3>6. CASE Degrade
      BY <2>1, <3>6, ProcsFacts, StreamTyped
      DEF Degrade, DockerOK, UpdaterOK, MapsOK, ProcessOK, GoroutinesOK, HistoryOK, Kinds,
          ContainerStates, EventPCs, CheckPCs
    <3>7. CASE CheckBudget
      BY <2>1, <3>7, ProcsFacts, StreamTyped
      DEF CheckBudget, DockerOK, UpdaterOK, MapsOK, ProcessOK, GoroutinesOK, HistoryOK, Kinds,
          ContainerStates, EventPCs, CheckPCs
    <3>8. CASE Exhaust
      BY <2>1, <3>8, ProcsFacts, StreamTyped
      DEF Exhaust, DockerOK, UpdaterOK, MapsOK, ProcessOK, GoroutinesOK, HistoryOK, Kinds,
          ContainerStates, EventPCs, CheckPCs
    <3>9. CASE Restart
      <4>1. DockerOK'
        BY StreamTyped, <2>1, <3>9 DEF Restart, StartOver, DockerOK, Kinds, ContainerStates
      <4>2. UpdaterOK'
        BY <2>1, <3>9 DEF Restart, StartOver, UpdaterOK
      <4>3. MapsOK'
        BY <2>1, <3>9 DEF Restart, StartOver, MapsOK
      <4>4. ProcessOK'
        BY <2>1, <3>9 DEF Restart, StartOver, ProcessOK
      <4>5. GoroutinesOK'
        BY ProcsFacts, <2>1, <3>9 DEF Restart, StartOver, GoroutinesOK, Kinds, EventPCs, CheckPCs
      <4>6. HistoryOK'
        BY <2>1, <3>9 DEF Restart, StartOver, HistoryOK
      <4> QED
        BY <4>1, <4>2, <4>3, <4>4, <4>5, <4>6 DEF TypeOK
    <3>10. CASE RestartFails
      <4>1. DockerOK'
        BY StreamTyped, <2>1, <3>10 DEF RestartFails, DockerOK, Kinds, ContainerStates
      <4>2. UpdaterOK'
        BY <2>1, <3>10 DEF RestartFails, UpdaterOK
      <4>3. MapsOK'
        BY <2>1, <3>10 DEF RestartFails, MapsOK
      <4>4. ProcessOK'
        BY <2>1, <3>10 DEF RestartFails, ProcessOK
      <4>5. GoroutinesOK'
        BY ProcsFacts, <2>1, <3>10 DEF RestartFails, GoroutinesOK, Kinds, EventPCs, CheckPCs
      <4>6. HistoryOK'
        BY <2>1, <3>10 DEF RestartFails, HistoryOK
      <4> QED
        BY <4>1, <4>2, <4>3, <4>4, <4>5, <4>6 DEF TypeOK
    <3>11. CASE Restarted
      <4>1. DockerOK'
        BY StreamTyped, <2>1, <3>11 DEF Restarted, StartCooldown, DockerOK, Kinds, ContainerStates
      <4>2. UpdaterOK'
        BY <2>1, <3>11 DEF Restarted, StartCooldown, UpdaterOK
      <4>3. MapsOK'
        BY <2>1, <3>11 DEF Restarted, StartCooldown, MapsOK
      <4>4. ProcessOK'
        BY <2>1, <3>11 DEF Restarted, StartCooldown, ProcessOK
      <4>5. GoroutinesOK'
        BY ProcsFacts, <2>1, <3>11 DEF Restarted, StartCooldown, GoroutinesOK, Kinds, EventPCs, CheckPCs
      <4>6. HistoryOK'
        BY <2>1, <3>11 DEF Restarted, StartCooldown, HistoryOK
      <4> QED
        BY <4>1, <4>2, <4>3, <4>4, <4>5, <4>6 DEF TypeOK
    <3>12. CASE StartedPlain
      BY <2>1, <3>12, ProcsFacts, StreamTyped
      DEF StartedPlain, DockerOK, UpdaterOK, MapsOK, ProcessOK, GoroutinesOK, HistoryOK, Kinds,
          ContainerStates, EventPCs, CheckPCs
    <3>13. CASE StartedIgnored
      BY <2>1, <3>13, ProcsFacts, StreamTyped
      DEF StartedIgnored, DockerOK, UpdaterOK, MapsOK, ProcessOK, GoroutinesOK, HistoryOK, Kinds,
          ContainerStates, EventPCs, CheckPCs
    <3>14. CASE Report
      BY <2>1, <3>14, ProcsFacts, StreamTyped
      DEF Report, DockerOK, UpdaterOK, MapsOK, ProcessOK, GoroutinesOK, HistoryOK, Kinds,
          ContainerStates, EventPCs, CheckPCs
    <3> QED
      BY <2>1, <3>1, <3>2, <3>3, <3>4, <3>5, <3>6, <3>7, <3>8, <3>9, <3>10, <3>11, <3>12, <3>13, <3>14 DEF EventStep
  <2>2. ASSUME NEW c \in Checks, CheckStep(c) PROVE TypeOK'
    <3>1. CASE CheckUnhealthy(c)
      BY <2>2, <3>1, ProcsFacts, StreamTyped
      DEF CheckUnhealthy, DockerOK, UpdaterOK, MapsOK, ProcessOK, GoroutinesOK, HistoryOK, Kinds,
          ContainerStates, EventPCs, CheckPCs
    <3>2. CASE CheckPasses(c)
      BY <2>2, <3>2, ProcsFacts, StreamTyped
      DEF CheckPasses, DockerOK, UpdaterOK, MapsOK, ProcessOK, GoroutinesOK, HistoryOK, Kinds,
          ContainerStates, EventPCs, CheckPCs
    <3>3. CASE CheckFails(c)
      BY <2>2, <3>3, ProcsFacts, StreamTyped
      DEF CheckFails, DockerOK, UpdaterOK, MapsOK, ProcessOK, GoroutinesOK, HistoryOK, Kinds,
          ContainerStates, EventPCs, CheckPCs
    <3>4. CASE CountFailure(c)
      BY <2>2, <3>4, ProcsFacts, StreamTyped
      DEF CountFailure, DockerOK, UpdaterOK, MapsOK, ProcessOK, GoroutinesOK, HistoryOK, Kinds,
          ContainerStates, EventPCs, CheckPCs
    <3>5. CASE CheckDegraded(c)
      BY <2>2, <3>5, ProcsFacts, StreamTyped
      DEF CheckDegraded, DockerOK, UpdaterOK, MapsOK, ProcessOK, GoroutinesOK, HistoryOK, Kinds,
          ContainerStates, EventPCs, CheckPCs
    <3>6. CASE ReportRecovered(c)
      BY <2>2, <3>6, ProcsFacts, StreamTyped
      DEF ReportRecovered, DockerOK, UpdaterOK, MapsOK, ProcessOK, GoroutinesOK, HistoryOK, Kinds,
          ContainerStates, EventPCs, CheckPCs
    <3> QED
      BY <2>2, <3>1, <3>2, <3>3, <3>4, <3>5, <3>6 DEF CheckStep
  <2>3. ASSUME NEW p \in Procs, ClearStep(p) PROVE TypeOK'
    <3>1. CASE ClearDegraded(p)
      <4>1. DockerOK'
        BY StreamTyped, <2>3, <3>1 DEF ClearDegraded, DockerOK, Kinds, ContainerStates
      <4>2. UpdaterOK'
        BY <2>3, <3>1 DEF ClearDegraded, UpdaterOK
      <4>3. MapsOK'
        BY <2>3, <3>1 DEF ClearDegraded, MapsOK
      <4>4. ProcessOK'
        BY <2>3, <3>1 DEF ClearDegraded, ProcessOK
      <4>5. GoroutinesOK'
        BY ProcsFacts, <2>3, <3>1 DEF ClearDegraded, GoroutinesOK, Kinds, EventPCs, CheckPCs
      <4>6. HistoryOK'
        BY <2>3, <3>1 DEF ClearDegraded, HistoryOK
      <4> QED
        BY <4>1, <4>2, <4>3, <4>4, <4>5, <4>6 DEF TypeOK
    <3>2. CASE ClearCounts(p)
      BY <2>3, <3>2, ProcsFacts, StreamTyped
      DEF ClearCounts, DockerOK, UpdaterOK, MapsOK, ProcessOK, GoroutinesOK, HistoryOK, Kinds,
          ContainerStates, EventPCs, CheckPCs
    <3>3. CASE ClearExhausted(p)
      <4>1. DockerOK'
        BY StreamTyped, <2>3, <3>3 DEF ClearExhausted, DockerOK, Kinds, ContainerStates
      <4>2. UpdaterOK'
        BY <2>3, <3>3 DEF ClearExhausted, UpdaterOK
      <4>3. MapsOK'
        BY <2>3, <3>3 DEF ClearExhausted, MapsOK
      <4>4. ProcessOK'
        BY <2>3, <3>3 DEF ClearExhausted, ProcessOK
      <4>5. GoroutinesOK'
        BY ProcsFacts, <2>3, <3>3 DEF ClearExhausted, GoroutinesOK, Kinds, EventPCs, CheckPCs
      <4>6. HistoryOK'
        BY <2>3, <3>3 DEF ClearExhausted, HistoryOK
      <4> QED
        BY <4>1, <4>2, <4>3, <4>4, <4>5, <4>6 DEF TypeOK
    <3> QED
      BY <2>3, <3>1, <3>2, <3>3 DEF ClearStep
  <2>4. CASE Environment
    <3>1. CASE Probe
      BY <2>4, <3>1, ProcsFacts, StreamTyped
      DEF Probe, DockerOK, UpdaterOK, MapsOK, ProcessOK, GoroutinesOK, HistoryOK, Kinds,
          ContainerStates, EventPCs, CheckPCs
    <3>2. CASE Exits
      BY <2>4, <3>2, ProcsFacts, StreamTyped
      DEF Exits, DockerOK, UpdaterOK, MapsOK, ProcessOK, GoroutinesOK, HistoryOK, Kinds,
          ContainerStates, EventPCs, CheckPCs
    <3>3. CASE Starts
      BY <2>4, <3>3, ProcsFacts, StreamTyped
      DEF Starts, StartOver, DockerOK, UpdaterOK, MapsOK, ProcessOK, GoroutinesOK, HistoryOK, Kinds,
          ContainerStates, EventPCs, CheckPCs
    <3>4. CASE Cut
      BY <2>4, <3>4, ProcsFacts, StreamTyped
      DEF Cut, DockerOK, UpdaterOK, MapsOK, ProcessOK, GoroutinesOK, HistoryOK, Kinds,
          ContainerStates, EventPCs, CheckPCs
    <3>5. CASE DeployBegins
      BY <2>4, <3>5, ProcsFacts, StreamTyped
      DEF DeployBegins, DockerOK, UpdaterOK, MapsOK, ProcessOK, GoroutinesOK, HistoryOK, Kinds,
          ContainerStates, EventPCs, CheckPCs
    <3>6. CASE DeployRecreates
      <4>1. DockerOK'
        <5>1. healthcheck' \in BOOLEAN
          BY <3>6 DEF DeployRecreates
        <5>2. container' \in ContainerStates
          BY <3>6 DEF DeployRecreates, StartOver, ContainerStates
        <5>3. stream' \in Seq(Kinds)
          BY StreamTyped, <3>6 DEF DeployRecreates, StartOver, DockerOK, Kinds
        <5>4. changes' \in 0 .. MaxChanges
          BY <3>6 DEF DeployRecreates, DockerOK
        <5> QED
          BY <5>1, <5>2, <5>3, <5>4 DEF DockerOK
      <4>2. UpdaterOK'
        BY <2>4, <3>6 DEF DeployRecreates, StartOver, UpdaterOK
      <4>3. MapsOK'
        BY <2>4, <3>6 DEF DeployRecreates, StartOver, MapsOK
      <4>4. ProcessOK'
        BY <2>4, <3>6 DEF DeployRecreates, StartOver, ProcessOK
      <4>5. GoroutinesOK'
        BY ProcsFacts, <2>4, <3>6 DEF DeployRecreates, StartOver, GoroutinesOK, Kinds, EventPCs, CheckPCs
      <4>6. HistoryOK'
        BY <2>4, <3>6 DEF DeployRecreates, StartOver, HistoryOK
      <4> QED
        BY <4>1, <4>2, <4>3, <4>4, <4>5, <4>6 DEF TypeOK
    <3>7. CASE DeployReports
      BY <2>4, <3>7, ProcsFacts, StreamTyped
      DEF DeployReports, DockerOK, UpdaterOK, MapsOK, ProcessOK, GoroutinesOK, HistoryOK, Kinds,
          ContainerStates, EventPCs, CheckPCs
    <3>8. CASE DeployEnds
      <4>1. DockerOK'
        BY StreamTyped, <2>4, <3>8 DEF DeployEnds, DockerOK, Kinds, ContainerStates
      <4>2. UpdaterOK'
        BY <2>4, <3>8 DEF DeployEnds, UpdaterOK
      <4>3. MapsOK'
        BY <2>4, <3>8 DEF DeployEnds, MapsOK
      <4>4. ProcessOK'
        BY <2>4, <3>8 DEF DeployEnds, ProcessOK
      <4>5. GoroutinesOK'
        BY ProcsFacts, <2>4, <3>8 DEF DeployEnds, GoroutinesOK, Kinds, EventPCs, CheckPCs
      <4>6. HistoryOK'
        BY <2>4, <3>8 DEF DeployEnds, HistoryOK
      <4> QED
        BY <4>1, <4>2, <4>3, <4>4, <4>5, <4>6 DEF TypeOK
    <3>9. CASE CooldownEnds
      <4>1. MapsOK'
        BY <3>9 DEF CooldownEnds, MapsOK
      <4>2. HistoryOK'
        BY <3>9 DEF CooldownEnds, HistoryOK
      <4>3. DockerOK' /\ UpdaterOK' /\ ProcessOK' /\ GoroutinesOK'
        BY <3>9 DEF CooldownEnds, DockerOK, UpdaterOK, ProcessOK, GoroutinesOK
      <4> QED
        BY <4>1, <4>2, <4>3
    <3>10. CASE GraceEnds
      <4>1. DockerOK'
        BY StreamTyped, <2>4, <3>10 DEF GraceEnds, DockerOK, Kinds, ContainerStates
      <4>2. UpdaterOK'
        BY <2>4, <3>10 DEF GraceEnds, UpdaterOK
      <4>3. MapsOK'
        BY <2>4, <3>10 DEF GraceEnds, MapsOK
      <4>4. ProcessOK'
        BY <2>4, <3>10 DEF GraceEnds, ProcessOK
      <4>5. GoroutinesOK'
        BY ProcsFacts, <2>4, <3>10 DEF GraceEnds, GoroutinesOK, Kinds, EventPCs, CheckPCs
      <4>6. HistoryOK'
        BY <2>4, <3>10 DEF GraceEnds, HistoryOK
      <4> QED
        BY <4>1, <4>2, <4>3, <4>4, <4>5, <4>6 DEF TypeOK
    <3>11. CASE Boot
      <4>1. DockerOK'
        BY StreamTyped, <2>4, <3>11 DEF Boot, Seed, DockerOK, Kinds, ContainerStates
      <4>2. UpdaterOK'
        BY <2>4, <3>11 DEF Boot, Seed, UpdaterOK
      <4>3. MapsOK'
        BY <2>4, <3>11 DEF Boot, Seed, MapsOK
      <4>4. ProcessOK'
        BY <2>4, <3>11 DEF Boot, Seed, ProcessOK
      <4>5. GoroutinesOK'
        BY ProcsFacts, <2>4, <3>11 DEF Boot, Seed, GoroutinesOK, Kinds, EventPCs, CheckPCs
      <4>6. HistoryOK'
        BY <3>11, PassedTyped DEF Boot, HistoryOK
      <4> QED
        BY <4>1, <4>2, <4>3, <4>4, <4>5, <4>6 DEF TypeOK
    <3> QED
      BY <2>4, <3>1, <3>2, <3>3, <3>4, <3>5, <3>6, <3>7, <3>8, <3>9, <3>10, <3>11 DEF Environment
  <2>5. CASE UNCHANGED vars
    BY <2>5 DEF DockerOK, UpdaterOK, MapsOK, ProcessOK, GoroutinesOK, HistoryOK
  <2> QED
    BY <2>1, <2>2, <2>3, <2>4, <2>5 DEF Next
<1> QED
  BY <1>1, <1>2, PTL DEF Spec

------------------------------------------------------------------------------
(* No restart storm *)

\* While heal_cooldown has not passed, and nothing came that ends it early, the
\* cooldown that keeps the last restart from being followed by another runs.
PacedInv ==
    /\ recent /\ since = {} => cooldown = "running"
    /\ RestartPaced

\* heal_cooldown passes from one restart to the next, unless a healthy event was
\* handled in between, the restart failed, or the process was started
\* again (Healer, RestartPaced).
THEOREM RestartsPaced == Spec => []RestartPaced
<1>1. Init => PacedInv
  BY ProcsFacts DEF Init, PacedInv, RestartPaced
<1>2. TypeOK /\ PacedInv /\ [Next]_vars => PacedInv'
  <2> SUFFICES ASSUME TypeOK, PacedInv, [Next]_vars PROVE PacedInv'
    OBVIOUS
  <2> USE DEF PacedInv, RestartPaced
  <2>0. pc \in [Procs -> EventPCs \union CheckPCs]
    BY DEF TypeOK, GoroutinesOK
  <2>1. CASE EventStep
    <3>1. CASE HandleHealthy
      <4>1. ~(recent' /\ since' = {})
        BY <3>1, PassedTyped DEF HandleHealthy, TypeOK
      <4> QED
        BY <4>1
    <3>2. CASE CheckBudget
      BY <2>0, <3>2, ProcsFacts DEF CheckBudget
    <3>3. CASE Restarted
      BY <2>0, <3>3, ProcsFacts DEF Restarted, StartCooldown
    <3>4. CASE RestartFails
      BY <3>4 DEF RestartFails
    <3>5. CASE HandleUnhealthy \/ HandleDied \/ HandleStarted
      BY <2>0, <3>5, ProcsFacts DEF HandleUnhealthy, HandleDied, HandleStarted, Receive
    <3>6. CASE ReportBad \/ Degrade \/ Exhaust \/ Restart
      BY <2>0, <3>6, ProcsFacts DEF ReportBad, Degrade, Exhaust, Restart
    <3>7. CASE StartedPlain \/ StartedIgnored \/ Report
      BY <2>0, <3>7, ProcsFacts DEF StartedPlain, StartedIgnored, Report
    <3> QED
      BY <2>1, <3>1, <3>2, <3>3, <3>4, <3>5, <3>6, <3>7 DEF EventStep
  <2>2. ASSUME NEW c \in Checks, CheckStep(c) PROVE PacedInv'
    BY <2>0, <2>2, ProcsFacts
    DEF CheckStep, CheckUnhealthy, CheckPasses, CheckFails, CountFailure, CheckDegraded, ReportRecovered
  <2>3. ASSUME NEW p \in Procs, ClearStep(p) PROVE PacedInv'
    BY <2>0, <2>3, ProcsFacts DEF ClearStep, ClearDegraded, ClearCounts, ClearExhausted
  <2>4. CASE Environment
    <3>1. CASE Boot
      <4>1. ~(recent' /\ since' = {})
        BY <3>1, PassedTyped DEF Boot, TypeOK
      <4> QED
        BY <4>1
    <3>2. CASE CooldownEnds
      BY <3>2 DEF CooldownEnds
    <3> QED
      BY <2>4, <3>1, <3>2
      DEF Environment, Probe, Exits, Starts, Cut, DeployBegins, DeployRecreates, DeployReports, DeployEnds,
          GraceEnds
  <2>5. CASE UNCHANGED vars
    BY <2>5
  <2> QED
    BY <2>1, <2>2, <2>3, <2>4, <2>5 DEF Next
<1>3. PacedInv => RestartPaced
  BY DEF PacedInv
<1> QED
  BY <1>1, <1>2, <1>3, TypeCorrect, PTL DEF Spec

------------------------------------------------------------------------------
(* A recovery is noticed *)

\* The last event on its way says what the container is.
LastEventHolds ==
    ~cut /\ container = "healthy" /\ stream # <<>> => stream[Len(stream)] = "healthy"

\* The event that said so was handled, or its handler is about to clear the mark.
RecoveryHandled ==
    ~cut /\ container = "healthy" /\ stream = <<>> =>
        \/ At(Events, "clear")
        \/ /\ pc[Events] \in {"idle", "clearCounts", "clearExhausted", "report"}
           /\ ~degraded

RecoveryInv == LastEventHolds /\ RecoveryHandled

\* The last element of the sequences the actions build.
LEMMA StreamEnds ==
  ASSUME NEW s \in Seq(Kinds), NEW k \in Kinds
  PROVE  /\ Append(s, k) # <<>>
         /\ Append(s, k)[Len(Append(s, k))] = k
         /\ s # <<>> /\ Tail(s) = <<>> => s[Len(s)] = Head(s)
         /\ s # <<>> /\ Tail(s) # <<>> => Tail(s)[Len(Tail(s))] = s[Len(s)]
<1>1. Append(s, k) # <<>> /\ Append(s, k)[Len(Append(s, k))] = k
  BY AppendProperties
<1>2. ASSUME s # <<>>, Tail(s) = <<>> PROVE s[Len(s)] = Head(s)
  <2>1. Len(Tail(s)) = Len(s) - 1 /\ Len(s) \in Nat
    BY <1>2, HeadTailProperties, LenProperties
  <2>2. Len(Tail(s)) = 0
    BY <1>2, EmptySeq
  <2>3. Len(s) = 1
    BY <2>1, <2>2
  <2> QED
    BY <2>3
<1>3. ASSUME s # <<>>, Tail(s) # <<>> PROVE Tail(s)[Len(Tail(s))] = s[Len(s)]
  <2>1. Tail(s) \in Seq(Kinds) /\ Len(Tail(s)) = Len(s) - 1
    BY <1>3
  <2>2. Len(Tail(s)) \in 1 .. Len(Tail(s))
    BY <1>3, <2>1
  <2> QED
    BY <1>3, <2>1, <2>2
<1> QED
  BY <1>1, <1>2, <1>3

\* A recovered container is not left degraded (Healer, Recovered).
THEOREM RecoveryNoticed == Spec => []Recovered
<1>1. Init => RecoveryInv
  BY ProcsFacts DEF Init, RecoveryInv, LastEventHolds, RecoveryHandled
<1>2. TypeOK /\ RecoveryInv /\ [Next]_vars => RecoveryInv'
  <2> SUFFICES ASSUME TypeOK, RecoveryInv, [Next]_vars PROVE RecoveryInv'
    OBVIOUS
  <2> USE DEF RecoveryInv
  <2>0. /\ pc \in [Procs -> EventPCs \union CheckPCs]
        /\ stream \in Seq(Kinds)
        /\ degraded \in BOOLEAN
    BY DEF TypeOK, GoroutinesOK, DockerOK, MapsOK
  <2>1. CASE EventStep
    <3>1. ASSUME NEW k \in Kinds, Receive(k), UNCHANGED <<container, cut>>, k # "healthy"
          PROVE  RecoveryInv'
      <4>1. stream # <<>> /\ stream' = Tail(stream) /\ Head(stream) = k
        BY <3>1 DEF Receive
      <4>2. LastEventHolds'
        BY <2>0, <3>1, <4>1, StreamEnds DEF LastEventHolds
      <4>3. RecoveryHandled'
        <5>1. ~cut /\ container = "healthy" => stream' # <<>>
          BY <2>0, <3>1, <4>1, StreamEnds DEF LastEventHolds
        <5> QED
          BY <3>1, <5>1 DEF RecoveryHandled
      <4> QED
        BY <4>2, <4>3
    <3>2. CASE HandleUnhealthy
      BY <3>1, <3>2 DEF HandleUnhealthy, Kinds
    <3>3. CASE HandleDied
      BY <3>1, <3>3 DEF HandleDied, Kinds
    <3>4. CASE HandleStarted
      BY <3>1, <3>4 DEF HandleStarted, Kinds
    <3>5. CASE HandleHealthy
      <4>1. stream # <<>> /\ stream' = Tail(stream)
        BY <3>5 DEF HandleHealthy, Receive
      <4>2. LastEventHolds'
        BY <2>0, <3>5, <4>1, StreamEnds DEF HandleHealthy, LastEventHolds, Kinds
      <4>3. RecoveryHandled'
        BY <2>0, <3>5, ProcsFacts DEF HandleHealthy, RecoveryHandled
      <4> QED
        BY <4>2, <4>3
    <3>6. CASE Restart \/ RestartFails
      <4>1. container' # "healthy" \/ (UNCHANGED <<container, stream>> /\ ~At(Events, "idle"))
        BY <3>6 DEF Restart, RestartFails, StartOver
      <4>2. LastEventHolds'
        BY <3>6, <4>1 DEF Restart, RestartFails, LastEventHolds
      <4>3. RecoveryHandled'
        BY <2>0, <3>6, <4>1, ProcsFacts DEF Restart, RestartFails, RecoveryHandled
      <4> QED
        BY <4>2, <4>3
    <3>7. ASSUME UNCHANGED <<container, stream, cut>> PROVE LastEventHolds'
      BY <3>7 DEF LastEventHolds
    <3>8. CASE ReportBad \/ Degrade \/ CheckBudget \/ Exhaust \/ StartedPlain \/ StartedIgnored
      BY <2>0, <3>7, <3>8, ProcsFacts
      DEF ReportBad, Degrade, CheckBudget, Exhaust, StartedPlain, StartedIgnored, RecoveryHandled
    <3>9. CASE Restarted
      BY <2>0, <3>7, <3>9, ProcsFacts DEF Restarted, RecoveryHandled
    <3>10. CASE Report
      BY <2>0, <3>7, <3>10, ProcsFacts DEF Report, RecoveryHandled
    <3> QED
      BY <2>1, <3>2, <3>3, <3>4, <3>5, <3>6, <3>8, <3>9, <3>10 DEF EventStep
  <2>2. ASSUME UNCHANGED <<container, stream, cut>>, UNCHANGED pc[Events],
               UNCHANGED degraded \/ ~degraded'
        PROVE  RecoveryInv'
    BY <2>2 DEF LastEventHolds, RecoveryHandled
  <2>3. ASSUME NEW c \in Checks, CheckStep(c) PROVE RecoveryInv'
    BY <2>0, <2>2, <2>3, ProcsFacts
    DEF CheckStep, CheckUnhealthy, CheckPasses, CheckFails, CountFailure, CheckDegraded, ReportRecovered
  <2>4. ASSUME NEW p \in Procs, ClearStep(p) PROVE RecoveryInv'
    <3>1. CASE p = Events
      BY <2>0, <2>4, <3>1, ProcsFacts
      DEF ClearStep, ClearDegraded, ClearCounts, ClearExhausted, LastEventHolds, RecoveryHandled
    <3>2. CASE p # Events
      BY <2>0, <2>2, <2>4, <3>2, ProcsFacts DEF ClearStep, ClearDegraded, ClearCounts, ClearExhausted
    <3> QED
      BY <3>1, <3>2
  <2>5. CASE Environment
    <3>1. CASE Probe
      <4>1. PICK h \in {"healthy", "unhealthy"} : container' = h /\ stream' = Append(stream, h)
        BY <3>1 DEF Probe
      <4> QED
        BY <2>0, <4>1, StreamEnds DEF LastEventHolds, RecoveryHandled, Kinds
    <3>2. CASE Exits \/ Starts \/ DeployRecreates
      <4>1. container' # "healthy"
        BY <3>2 DEF Exits, Starts, DeployRecreates, StartOver
      <4> QED
        BY <4>1 DEF LastEventHolds, RecoveryHandled
    <3>3. CASE Cut
      BY <3>3 DEF Cut, LastEventHolds, RecoveryHandled
    <3>4. CASE Boot
      BY <3>4, ProcsFacts DEF Boot, LastEventHolds, RecoveryHandled
    <3>5. CASE DeployBegins \/ DeployReports \/ DeployEnds \/ CooldownEnds \/ GraceEnds
      BY <2>2, <3>5 DEF DeployBegins, DeployReports, DeployEnds, CooldownEnds, GraceEnds
    <3> QED
      BY <2>5, <3>1, <3>2, <3>3, <3>4, <3>5 DEF Environment
  <2>6. CASE UNCHANGED vars
    BY <2>2, <2>6
  <2> QED
    BY <2>1, <2>3, <2>4, <2>5, <2>6 DEF Next
<1>3. TypeOK /\ RecoveryInv => Recovered
  BY DEF RecoveryInv, RecoveryHandled, Recovered, QuietHealthy
<1> QED
  BY <1>1, <1>2, <1>3, TypeCorrect, PTL DEF Spec
=============================================================================
