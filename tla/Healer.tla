-------------------------------- MODULE Healer --------------------------------
(***************************************************************************)
(* The healer: watcher/healer.go, for one service with one container.      *)
(*                                                                         *)
(* One goroutine (Events) reads the Docker event stream and handles one    *)
(* event at a time; every restart starts a goroutine (Checks) that looks   *)
(* at the container 30 seconds later.  They share maps, each behind its    *)
(* own mutex, so a step is one access to a map or one Docker call.  The    *)
(* updater appears as the deploying flag, the containers it recreates and  *)
(* the health gauge it writes too.                                         *)
(***************************************************************************)
EXTENDS Naturals, Sequences

CONSTANTS
    Events,          \* the goroutine that reads the event stream
    Checks,          \* verifyAfterRestart goroutines that may run at once
    HealMaxRestarts, \* config: heal_max_restarts
    AutoHeal,        \* config: auto_heal
    LongCooldown,    \* whether heal_cooldown outlasts the 30 s before a check
    MaxChanges,      \* changes of the container that are nobody's doing here
    MaxDeploys,      \* deploys in a behaviour
    MaxBoots         \* starts of the process in a behaviour

ASSUME ConstantsAssumption ==
    /\ Events \notin Checks
    /\ HealMaxRestarts \in Nat \ {0}
    /\ {AutoHeal, LongCooldown} \subseteq BOOLEAN
    /\ {MaxChanges, MaxDeploys, MaxBoots} \subseteq Nat

VARIABLES
    \* Docker.
    healthcheck,    \* whether the container has a healthcheck
    container,      \* its state, and health when it runs
    stream,         \* events on their way to the healer
    changes,        \* changes so far
    \* The updater.
    deploying, deploys,
    \* Maps of the healer, at the service's keys, and watcher_service_healthy.
    degraded, restartCounts, exhausted, cooldown, gauge,
    young,          \* whether the 15 s startup grace period still runs
    boots,          \* starts of the process so far
    \* Goroutines.
    pc,
    event,          \* the event being handled
    notify,         \* handleHealthy: wasCooling \/ wasDegraded
    \* History.
    attempts,       \* restarts made since the container was last healthy
    cut,            \* events were lost since the process started
    recent,         \* heal_cooldown has not passed since the last restart was tried
    since           \* and what came since then: "healthy", "failed", "boot"

dockerVars == <<healthcheck, container, stream, changes>>
updaterVars == <<deploying, deploys>>
healVars == <<degraded, restartCounts, exhausted, cooldown, gauge>>
processVars == <<young, boots>>
goroutineVars == <<pc, event, notify>>
history == <<attempts, cut, recent, since>>
vars == <<dockerVars, updaterVars, healVars, processVars, goroutineVars, history>>

Procs == Checks \union {Events}

\* "plain" is running without a healthcheck.
ContainerStates == {"down", "plain", "starting", "healthy", "unhealthy"}
Kinds == {"unhealthy", "healthy", "die", "start"}
EventPCs == {"idle", "inspect", "degrade", "budget", "exhaust", "restart", "restarted",
             "started", "clear", "clearCounts", "clearExhausted", "report"}
CheckPCs == {"idle", "wait", "failed", "passed", "recover", "clear", "clearCounts",
             "clearExhausted"}

DockerOK ==
    /\ healthcheck \in BOOLEAN
    /\ container \in ContainerStates
    /\ stream \in Seq(Kinds)
    /\ changes \in 0 .. MaxChanges

UpdaterOK == deploying \in BOOLEAN /\ deploys \in 0 .. MaxDeploys

MapsOK ==
    /\ degraded \in BOOLEAN
    /\ restartCounts \in Nat
    /\ exhausted \in BOOLEAN
    /\ cooldown \in {"none", "running", "over"}
    /\ gauge \in {"unset", "healthy", "unhealthy"}

ProcessOK == young \in BOOLEAN /\ boots \in 0 .. MaxBoots

GoroutinesOK ==
    /\ pc \in [Procs -> EventPCs \union CheckPCs]
    /\ pc[Events] \in EventPCs
    /\ \A c \in Checks : pc[c] \in CheckPCs
    /\ event \in Kinds
    /\ notify \in BOOLEAN

HistoryOK ==
    /\ attempts \in Nat
    /\ cut \in BOOLEAN
    /\ recent \in BOOLEAN
    /\ since \in SUBSET {"healthy", "failed", "boot"}

\* Every variable stays in its range.
TypeOK == DockerOK /\ UpdaterOK /\ MapsOK /\ ProcessOK /\ GoroutinesOK /\ HistoryOK

------------------------------------------------------------------------------
(* Docker and the updater *)

\* The container starts over, and the events of that.
StartOver ==
    /\ container' = IF healthcheck' THEN "starting" ELSE "plain"
    /\ stream' = stream \o (IF container = "down" THEN <<"start">> ELSE <<"die", "start">>)

\* A change of health is one event, and the same health again is none.
Probe ==
    /\ container \in {"starting", "healthy", "unhealthy"}
    /\ changes < MaxChanges
    /\ changes' = changes + 1
    /\ \E h \in {"healthy", "unhealthy"} \ {container} :
        /\ container' = h
        /\ stream' = Append(stream, h)
        /\ attempts' = IF h = "healthy" THEN 0 ELSE attempts
    /\ UNCHANGED <<healthcheck, updaterVars, healVars, processVars, goroutineVars, cut, recent, since>>

Exits ==
    /\ container # "down"
    /\ changes < MaxChanges
    /\ changes' = changes + 1
    /\ container' = "down"
    /\ stream' = Append(stream, "die")
    /\ UNCHANGED <<healthcheck, updaterVars, healVars, processVars, goroutineVars, history>>

Starts ==
    /\ container = "down"
    /\ UNCHANGED healthcheck
    /\ StartOver
    /\ UNCHANGED <<changes, updaterVars, healVars, processVars, goroutineVars, history>>

\* The stream is cut: the new one starts at the current time, and what was
\* emitted before is lost.
Cut ==
    /\ stream # <<>>
    /\ stream' = <<>>
    /\ cut' = TRUE
    /\ UNCHANGED <<healthcheck, container, changes, updaterVars, healVars, processVars,
                   goroutineVars, attempts, recent, since>>

DeployBegins ==
    /\ ~deploying
    /\ deploys < MaxDeploys
    /\ deploying' = TRUE
    /\ deploys' = deploys + 1
    /\ UNCHANGED <<dockerVars, healVars, processVars, goroutineVars, history>>

\* The new image may have a healthcheck or none.
DeployRecreates ==
    /\ deploying
    /\ changes < MaxChanges
    /\ changes' = changes + 1
    /\ healthcheck' \in BOOLEAN
    /\ StartOver
    /\ UNCHANGED <<updaterVars, healVars, processVars, goroutineVars, history>>

\* A success, or the health found by verifyHealthAfterCompose, is reported; so is
\* a rollback.
DeployReports ==
    /\ deploying
    /\ gauge' \in {"unhealthy"} \union (IF container \in {"healthy", "plain"} THEN {"healthy"} ELSE {})
    /\ UNCHANGED <<dockerVars, updaterVars, degraded, restartCounts, exhausted, cooldown,
                   processVars, goroutineVars, history>>

DeployEnds ==
    /\ deploying
    /\ deploying' = FALSE
    /\ UNCHANGED <<dockerVars, deploys, healVars, processVars, goroutineVars, history>>

------------------------------------------------------------------------------
(* The event goroutine *)

Goto(p, label) == pc' = [pc EXCEPT ![p] = label]

At(p, label) == pc[p] = label

Receive(kind) ==
    /\ At(Events, "idle")
    /\ stream # <<>>
    /\ Head(stream) = kind
    /\ stream' = Tail(stream)
    /\ event' = kind

\* Skipped while the updater deploys the service.
HandleUnhealthy ==
    /\ Receive("unhealthy")
    /\ Goto(Events, IF deploying THEN "idle" ELSE "inspect")
    /\ UNCHANGED <<healthcheck, container, changes, updaterVars, healVars, processVars, notify, history>>

\* What came since the last restart, while that is recent.
Passed(what) ==
    /\ since' = IF recent THEN since \union {what} ELSE since
    /\ UNCHANGED recent

\* Mutant of HandleHealthy: a healthy event is skipped during a deploy.
HandleHealthySkipped ==
    /\ Receive("healthy")
    /\ cooldown' = "none"
    /\ Passed("healthy")
    /\ notify' = (cooldown # "none" \/ degraded)
    /\ Goto(Events, IF deploying THEN "idle" ELSE IF degraded THEN "clear" ELSE "report")
    /\ UNCHANGED <<healthcheck, container, changes, updaterVars, degraded, restartCounts, exhausted, gauge,
                   processVars, attempts, cut>>

\* The cooldown is consumed, and a degraded service is cleared whether or not a
\* deploy runs.
HandleHealthy ==
    /\ Receive("healthy")
    /\ cooldown' = "none"
    /\ Passed("healthy")
    /\ notify' = (cooldown # "none" \/ degraded)
    /\ Goto(Events, IF degraded THEN "clear" ELSE "report")
    /\ UNCHANGED <<healthcheck, container, changes, updaterVars, degraded, restartCounts, exhausted, gauge,
                   processVars, attempts, cut>>

HandleDied ==
    /\ Receive("die")
    /\ Goto(Events, IF young \/ deploying \/ degraded THEN "idle" ELSE "inspect")
    /\ UNCHANGED <<healthcheck, container, changes, updaterVars, healVars, processVars, notify, history>>

HandleStarted ==
    /\ Receive("start")
    /\ Goto(Events, IF degraded THEN "started" ELSE "idle")
    /\ UNCHANGED <<healthcheck, container, changes, updaterVars, healVars, processVars, notify, history>>

\* An unhealthy container was inspected for its reason, a dead one is not: the
\* gauge is written first.
ReportBad ==
    /\ At(Events, "inspect")
    /\ gauge' = "unhealthy"
    /\ Goto(Events, "degrade")
    /\ UNCHANGED <<dockerVars, updaterVars, degraded, restartCounts, exhausted, cooldown,
                   processVars, event, notify, history>>

\* A death is only recorded; so is an unhealthy container without auto_heal.
Degrade ==
    /\ At(Events, "degrade")
    /\ degraded' = TRUE
    /\ Goto(Events, IF event = "unhealthy" /\ AutoHeal THEN "budget" ELSE "idle")
    /\ UNCHANGED <<dockerVars, updaterVars, restartCounts, exhausted, cooldown, gauge,
                   processVars, event, notify, history>>

CheckBudget ==
    /\ At(Events, "budget")
    /\ Goto(Events, IF restartCounts >= HealMaxRestarts THEN "exhaust"
                    ELSE IF cooldown = "running" THEN "idle"
                    ELSE "restart")
    /\ UNCHANGED <<dockerVars, updaterVars, healVars, processVars, event, notify, history>>

Exhaust ==
    /\ At(Events, "exhaust")
    /\ exhausted' = TRUE
    /\ Goto(Events, "idle")
    /\ UNCHANGED <<dockerVars, updaterVars, degraded, restartCounts, cooldown, gauge,
                   processVars, event, notify, history>>

Restart ==
    /\ At(Events, "restart")
    /\ UNCHANGED healthcheck
    /\ StartOver
    /\ attempts' = attempts + 1
    /\ Goto(Events, "restarted")
    /\ UNCHANGED <<changes, updaterVars, healVars, processVars, event, notify, cut, recent, since>>

\* The call fails, with the container where it was or stopped: no cooldown is
\* set and nothing is counted.
RestartFails ==
    /\ At(Events, "restart")
    /\ \/ UNCHANGED <<container, stream>>
       \/ /\ container # "down"
          /\ container' = "down"
          /\ stream' = Append(stream, "die")
    /\ recent' = TRUE /\ since' = {"failed"}
    /\ Goto(Events, "idle")
    /\ UNCHANGED <<healthcheck, changes, updaterVars, healVars, processVars, event, notify, attempts, cut>>

\* Mutant of StartCooldown: the map is left alone.
StartCooldownNot == UNCHANGED cooldown

StartCooldown == cooldown' = "running"

\* The call has returned: the cooldown starts, and go verifyAfterRestart.
Restarted ==
    /\ At(Events, "restarted")
    /\ StartCooldown
    /\ recent' = TRUE /\ since' = {}
    /\ \E c \in Checks :
        /\ At(c, "idle")
        /\ pc' = [pc EXCEPT ![Events] = "idle", ![c] = "wait"]
    /\ UNCHANGED <<dockerVars, updaterVars, degraded, restartCounts, exhausted, gauge, processVars,
                   event, notify, attempts, cut>>

\* handleStarted: without a healthcheck a container that started has recovered.
StartedPlain ==
    /\ At(Events, "started")
    /\ ~healthcheck
    /\ gauge' = "healthy"
    /\ Goto(Events, "clear")
    /\ UNCHANGED <<dockerVars, updaterVars, degraded, restartCounts, exhausted, cooldown,
                   processVars, event, notify, history>>

\* With one, or when it cannot be inspected, nothing changes.
StartedIgnored ==
    /\ At(Events, "started")
    /\ Goto(Events, "idle")
    /\ UNCHANGED <<dockerVars, updaterVars, healVars, processVars, event, notify, history>>

\* The end of handleHealthy: a deploy reports for itself.
Report ==
    /\ At(Events, "report")
    /\ gauge' = IF ~deploying /\ notify THEN "healthy" ELSE gauge
    /\ Goto(Events, "idle")
    /\ UNCHANGED <<dockerVars, updaterVars, degraded, restartCounts, exhausted, cooldown,
                   processVars, event, notify, history>>

------------------------------------------------------------------------------
(* verifyAfterRestart *)

CheckUnhealthy(c) ==
    /\ At(c, "wait")
    /\ container = "unhealthy"
    /\ Goto(c, "failed")
    /\ UNCHANGED <<dockerVars, updaterVars, healVars, processVars, event, notify, history>>

\* Whatever is not unhealthy passes, a container that is still starting or has
\* stopped included.
CheckPasses(c) ==
    /\ At(c, "wait")
    /\ container # "unhealthy"
    /\ Goto(c, "passed")
    /\ UNCHANGED <<dockerVars, updaterVars, healVars, processVars, event, notify, history>>

\* The container cannot be inspected: it was replaced, or the call failed.
CheckFails(c) ==
    /\ At(c, "wait")
    /\ Goto(c, "idle")
    /\ UNCHANGED <<dockerVars, updaterVars, healVars, processVars, event, notify, history>>

CountFailure(c) ==
    /\ At(c, "failed")
    /\ restartCounts' = restartCounts + 1
    /\ Goto(c, "idle")
    /\ UNCHANGED <<dockerVars, updaterVars, degraded, exhausted, cooldown, gauge, processVars,
                   event, notify, history>>

\* A healthy event may have cleared the service already.
CheckDegraded(c) ==
    /\ At(c, "passed")
    /\ Goto(c, IF degraded THEN "recover" ELSE "idle")
    /\ UNCHANGED <<dockerVars, updaterVars, healVars, processVars, event, notify, history>>

ReportRecovered(c) ==
    /\ At(c, "recover")
    /\ gauge' = "healthy"
    /\ Goto(c, "clear")
    /\ UNCHANGED <<dockerVars, updaterVars, degraded, restartCounts, exhausted, cooldown,
                   processVars, event, notify, history>>

------------------------------------------------------------------------------
(* What both do to forget a bad state: one map after the other *)

ClearDegraded(p) ==
    /\ At(p, "clear")
    /\ degraded' = FALSE
    /\ Goto(p, "clearCounts")
    /\ UNCHANGED <<dockerVars, updaterVars, restartCounts, exhausted, cooldown, gauge, processVars,
                   event, notify, history>>

ClearCounts(p) ==
    /\ At(p, "clearCounts")
    /\ restartCounts' = 0
    /\ Goto(p, "clearExhausted")
    /\ UNCHANGED <<dockerVars, updaterVars, degraded, exhausted, cooldown, gauge, processVars,
                   event, notify, history>>

\* Mutant of ClearExhausted: a check goes on as handleHealthy does.
ClearExhaustedReports(p) ==
    /\ At(p, "clearExhausted")
    /\ exhausted' = FALSE
    /\ Goto(p, "report")
    /\ UNCHANGED <<dockerVars, updaterVars, degraded, restartCounts, cooldown, gauge, processVars,
                   event, notify, history>>

ClearExhausted(p) ==
    /\ At(p, "clearExhausted")
    /\ exhausted' = FALSE
    /\ Goto(p, IF p = Events /\ event = "healthy" THEN "report" ELSE "idle")
    /\ UNCHANGED <<dockerVars, updaterVars, degraded, restartCounts, cooldown, gauge, processVars,
                   event, notify, history>>

------------------------------------------------------------------------------
(* Time and the process *)

\* heal_cooldown has passed since the last restart: a cooldown that runs was set
\* with it.
CooldownEnds ==
    /\ recent
    /\ LongCooldown => \A c \in Checks : ~At(c, "wait")
    /\ cooldown' = IF cooldown = "running" THEN "over" ELSE cooldown
    /\ recent' = FALSE /\ since' = {}
    /\ UNCHANGED <<dockerVars, updaterVars, degraded, restartCounts, exhausted, gauge, processVars,
                   goroutineVars, attempts, cut>>

GraceEnds ==
    /\ young
    /\ young' = FALSE
    /\ UNCHANGED <<dockerVars, updaterVars, healVars, boots, goroutineVars, history>>

\* seedHealthFromInspect: the gauge of a container with a healthcheck.
Seed == IF container \in {"down", "plain"} THEN "unset"
        ELSE IF container = "healthy" THEN "healthy" ELSE "unhealthy"

\* The process exits, at any point, and is started again: no map is saved, and
\* the stream starts at the current time.
Boot ==
    /\ boots < MaxBoots
    /\ boots' = boots + 1
    /\ young' = TRUE
    /\ stream' = <<>>
    /\ deploying' = FALSE
    /\ degraded' = FALSE
    /\ restartCounts' = 0
    /\ exhausted' = FALSE
    /\ cooldown' = "none"
    /\ gauge' = Seed
    /\ pc' = [p \in Procs |-> "idle"]
    /\ event' = "start"
    /\ notify' = FALSE
    /\ cut' = FALSE
    /\ Passed("boot")
    /\ UNCHANGED <<healthcheck, container, changes, deploys, attempts>>

Init ==
    /\ healthcheck \in BOOLEAN
    /\ container \in IF healthcheck THEN ContainerStates \ {"plain"} ELSE {"down", "plain"}
    /\ stream = <<>>
    /\ changes = 0
    /\ deploying = FALSE
    /\ deploys = 0
    /\ degraded = FALSE
    /\ restartCounts = 0
    /\ exhausted = FALSE
    /\ cooldown = "none"
    /\ gauge = Seed
    /\ young = TRUE
    /\ boots = 0
    /\ pc = [p \in Procs |-> "idle"]
    /\ event = "start"
    /\ notify = FALSE
    /\ attempts = 0
    /\ cut = FALSE
    /\ recent = FALSE
    /\ since = {}

EventStep ==
    \/ HandleUnhealthy \/ HandleHealthy \/ HandleDied \/ HandleStarted
    \/ ReportBad \/ Degrade \/ CheckBudget \/ Exhaust
    \/ Restart \/ RestartFails \/ Restarted
    \/ StartedPlain \/ StartedIgnored \/ Report

CheckStep(c) ==
    \/ CheckUnhealthy(c) \/ CheckPasses(c) \/ CheckFails(c)
    \/ CountFailure(c) \/ CheckDegraded(c) \/ ReportRecovered(c)

ClearStep(p) == ClearDegraded(p) \/ ClearCounts(p) \/ ClearExhausted(p)

Environment ==
    \/ Probe \/ Exits \/ Starts \/ Cut
    \/ DeployBegins \/ DeployRecreates \/ DeployReports \/ DeployEnds
    \/ CooldownEnds \/ GraceEnds \/ Boot

Next ==
    \/ EventStep
    \/ \E c \in Checks : CheckStep(c)
    \/ \E p \in Procs : ClearStep(p)
    \/ Environment

Spec == Init /\ [][Next]_vars

------------------------------------------------------------------------------
(* Properties *)

\* The healer has nothing left to handle and the container is healthy.
QuietHealthy == At(Events, "idle") /\ stream = <<>> /\ container = "healthy"

\* A container that recovered is not left degraded: once its events are handled,
\* none of them lost, no deploy, restart, late check or death before the recovery
\* keeps the mark (healer.go, handleHealthy: "This ensures the flag doesn't get stuck
\* when IsDeploying races with a die->recover cycle").
Recovered == QuietHealthy /\ ~cut => ~degraded

\* heal_cooldown passes from one restart to the next, whatever unhealthy events,
\* deaths, checks and deploys come in between (healer.go, inCooldown): unless a
\* healthy event was handled in between, the restart failed, or the process
\* was started again.  The documents make no such exceptions.
RestartPaced == At(Events, "restart") /\ recent => since # {}

\* A container is restarted at most heal_max_restarts times before it is healthy
\* again (docs/03-guides/02-heal-only-mode.md, "consecutive failed restart
\* ceiling").
RestartCeiling == ~cut => attempts <= HealMaxRestarts
=============================================================================
