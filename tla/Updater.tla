------------------------------- MODULE Updater -------------------------------
(***************************************************************************)
(* The deploy cycle of one service: watcher/updater.go and the HTTP        *)
(* handlers of watcher/api.go that start goroutines on it.                 *)
(*                                                                         *)
(* A "caller" is a goroutine that checks the service: the poll loop        *)
(* (Poller) or one started by an HTTP request (Triggers).  A caller steps  *)
(* from one blocking call (registry, Docker, compose) to the next; the map *)
(* operations between two blocking calls are one step.  A "verifier" is a  *)
(* goroutine started by `go verifyAfterDeploy` or                          *)
(* `go verifyHealthAfterCompose`.  The registry, the Docker host and the   *)
(* compose files are the environment.                                      *)
(*                                                                         *)
(* Services touch disjoint keys of the maps, so one service is modelled.   *)
(* What they share is the local image store: the :rollback tag has the     *)
(* name of a repository, with no service and no tag in it (OtherService).  *)
(* The service has auto_update set and images 1 .. NumImages, in the order *)
(* of config.Service.Images; a compose project runs one container per      *)
(* image, listed in that order.                                            *)
(***************************************************************************)
EXTENDS Integers

CONSTANTS
    NumImages,      \* images of the service
    Repo,           \* number of each image's repository: its name without the tag
    Aliased,        \* images that the compose files name by another reference
                    \* than <registry host>/<name>:<tag>
    Digests,        \* manifest digests the registry may serve
    NoDigest,       \* the empty string of the digest maps
    Poller,         \* the goroutine of Updater.Run
    Triggers,       \* goroutines the HTTP handlers may have running
    Verifiers,      \* verification goroutines that may run at once
    AutoStart,      \* config: auto_start
    ComposeWatch,   \* config: compose_watch
    ForceRedeploy,  \* whether POST /redeploy/<service> is used
    Faults,         \* what the environment may do, a subset of AllFaults
    MaxPushes,      \* pushes to the registry in a behaviour
    MaxEdits,       \* edits of the compose files in a behaviour
    MaxRestarts     \* exits of the process in a behaviour

AllFaults == {"registry", "pull", "up", "tag", "docker", "stop", "down", "unblock", "cancel", "shared"}

ASSUME ConstantsAssumption ==
    /\ NumImages \in Nat \ {0}
    /\ Repo \in [1 .. NumImages -> 1 .. NumImages]
    /\ Aliased \subseteq 1 .. NumImages
    /\ NoDigest \notin Digests
    /\ Poller \notin Triggers
    /\ {AutoStart, ComposeWatch, ForceRedeploy} \subseteq BOOLEAN
    /\ Faults \subseteq AllFaults
    /\ {MaxPushes, MaxEdits, MaxRestarts} \subseteq Nat

Images == 1 .. NumImages
Callers == Triggers \union {Poller}
MaybeDigest == Digests \union {NoDigest}
NoDigests == [i \in Images |-> NoDigest]

VARIABLES
    \* The registry.
    remote,         \* digest each image's tag resolves to
    pushes,         \* pushes so far
    \* The Docker host and the compose files.
    tag,            \* digest of the local image behind each compose reference
    rbTag,          \* digest of each repository's local :rollback tag
    container,      \* the container of each image
    spec,           \* version of the compose files
    \* Maps and gauge of the process, at the service's keys.
    deploying, blocked, notFound, startAttempted, errored,
    composeHash,    \* version whose hash is stored, 0 when none is
    blockedGauge,   \* watcher_service_blocked
    cancelled,      \* the context made in main is done
    restarts,       \* exits of the process so far
    \* Goroutines.
    pc, job,        \* callers: where they are, and their locals
    vpc, vjob       \* verifiers

registryVars == <<remote, pushes>>
hostVars == <<tag, rbTag, container>>
pollVars == <<blocked, notFound, startAttempted, errored, blockedGauge>>
driftVars == <<spec, composeHash>>
processVars == <<cancelled, restarts>>
callerVars == <<pc, job>>
verifierVars == <<vpc, vjob>>
vars == <<registryVars, hostVars, deploying, pollVars, driftVars, processVars,
          callerVars, verifierVars>>

------------------------------------------------------------------------------
(* Types *)

\* A stuck container is created or restarting.
ContainerStates == {"none", "stuck", "running", "exited"}
Container == [digest : MaybeDigest, state : ContainerStates]
NoContainer == [digest |-> NoDigest, state |-> "none"]

\* What errored holds: the message of a failed poll, by the call that failed.
Errors == {"registry", "start", "cancelled", "pull", "up"}

CallerPCs == {"idle", "fetch", "check", "resolve", "status", "guard", "tag", "pull", "up",
              "start", "drift", "driftUp", "forceUp"}
\* img: the image being checked; seen: its remote digest; new: the digests of
\* `changed` (NoDigest for an unchanged image); rep: representativeDigest;
\* stuck: the container status the auto-start branch acts on; ref: the image
\* whose compose reference deploy recorded as OldRef, 0 for none.
\* old is history: the digest that ran in the image's container when deploy
\* tagged that very container :rollback, until another service or a failed retag
\* of the compose reference spoils it.
Refs == [Images -> 0 .. NumImages]
NoRefs == [i \in Images |-> 0]
Job == [kind : {"none", "poll", "manual"}, img : Images, seen : MaybeDigest,
        new : [Images -> MaybeDigest], rep : MaybeDigest, stuck : BOOLEAN,
        ref : Refs, old : [Images -> MaybeDigest]]
NoJob == [kind |-> "none", img |-> 1, seen |-> NoDigest, new |-> NoDigests,
          rep |-> NoDigest, stuck |-> FALSE, ref |-> NoRefs, old |-> NoDigests]

\* "poll" is the health polling of both verifiers; the others are rollback's
\* retag and compose up, and cleanupRollbacks after a success or a rollback.
VerifierPCs == {"idle", "poll", "retag", "rollbackUp", "restored", "accepted"}
VJob == [kind : {"none", "deploy", "compose"}, main : BOOLEAN,
         new : [Images -> MaybeDigest], ref : Refs, old : [Images -> MaybeDigest]]
NoVJob == [kind |-> "none", main |-> FALSE, new |-> NoDigests, ref |-> NoRefs, old |-> NoDigests]

RegistryOK == remote \in [Images -> Digests] /\ pushes \in 0 .. MaxPushes

HostOK ==
    /\ tag \in [Images -> MaybeDigest]
    /\ rbTag \in [Images -> MaybeDigest]
    /\ container \in [Images -> Container]

PollOK ==
    /\ blocked \in [Images -> MaybeDigest]
    /\ notFound \in [Images -> MaybeDigest]
    /\ startAttempted \in MaybeDigest
    /\ errored \in Errors \union {"none"}
    /\ blockedGauge \in BOOLEAN

DriftOK == spec \in 1 .. MaxEdits + 1 /\ composeHash \in 0 .. MaxEdits + 1

ProcessOK == deploying \in BOOLEAN /\ cancelled \in BOOLEAN /\ restarts \in 0 .. MaxRestarts

CallerOK == pc \in [Callers -> CallerPCs] /\ job \in [Callers -> Job]

VerifierOK == vpc \in [Verifiers -> VerifierPCs] /\ vjob \in [Verifiers -> VJob]

\* Every variable stays in its range.
TypeOK == RegistryOK /\ HostOK /\ PollOK /\ DriftOK /\ ProcessOK /\ CallerOK /\ VerifierOK

------------------------------------------------------------------------------
(* The environment *)

\* A push moves an image's tag to another digest, an earlier one included.
Push(i) ==
    /\ pushes < MaxPushes
    /\ pushes' = pushes + 1
    /\ \E d \in Digests \ {remote[i]} : remote' = [remote EXCEPT ![i] = d]
    /\ UNCHANGED <<hostVars, deploying, pollVars, driftVars, processVars, callerVars, verifierVars>>

EditSpec ==
    /\ ComposeWatch
    /\ spec <= MaxEdits
    /\ spec' = spec + 1
    /\ UNCHANGED <<registryVars, hostVars, deploying, pollVars, composeHash, processVars,
                   callerVars, verifierVars>>

\* A running container exits, or is caught in a restart loop.
ContainerStops(i) ==
    /\ "stop" \in Faults
    /\ container[i].state = "running"
    /\ \E s \in {"exited", "stuck"} : container' = [container EXCEPT ![i].state = s]
    /\ UNCHANGED <<registryVars, tag, rbTag, deploying, pollVars, driftVars, processVars,
                   callerVars, verifierVars>>

\* The operator runs `docker compose down`.
ProjectDown ==
    /\ "down" \in Faults
    /\ \E i \in Images : container[i] # NoContainer
    /\ container' = [i \in Images |-> NoContainer]
    /\ UNCHANGED <<registryVars, tag, rbTag, deploying, pollVars, driftVars, processVars,
                   callerVars, verifierVars>>

\* The history of a deploy after something spoilt what it saved of repository r.
Unsaved(old, r) == [i \in Images |-> IF Repo[i] = r THEN NoDigest ELSE old[i]]

\* The deploy cycle of another service, or of another process, that uses an
\* image of repository r: it overwrites or removes r:rollback, or pulls or
\* retags an image this service also runs.
OtherService(r) ==
    /\ "shared" \in Faults
    /\ \/ /\ \E d \in MaybeDigest \ {rbTag[r]} : rbTag' = [rbTag EXCEPT ![r] = d]
          /\ UNCHANGED tag
       \/ /\ \E i \in Images : \E d \in {remote[i], rbTag[r]} \ {tag[i], NoDigest} :
                Repo[i] = r /\ tag' = [tag EXCEPT ![i] = d]
          /\ UNCHANGED rbTag
    /\ job' = [c \in Callers |-> [job[c] EXCEPT !.old = Unsaved(@, r)]]
    /\ vjob' = [v \in Verifiers |-> [vjob[v] EXCEPT !.old = Unsaved(@, r)]]
    /\ UNCHANGED <<registryVars, container, deploying, pollVars, driftVars, processVars, pc, vpc>>

\* What is local for image i: compose pulls an image that is missing.
ImageFor(i) == IF tag[i] = NoDigest THEN remote[i] ELSE tag[i]

\* `compose up -d` that got as far as the containers of S, the rest being `rest`.
ComposeUp(S, rest) ==
    /\ tag' = [i \in Images |-> IF i \in S THEN ImageFor(i) ELSE tag[i]]
    /\ container' = [i \in Images |->
                        IF i \in S THEN [digest |-> ImageFor(i), state |-> "running"] ELSE rest[i]]
    /\ UNCHANGED rbTag

\* `compose pull` that got as far as the images of S.  It names no service, so
\* it pulls every image of the project, changed or not.
ComposePull(S) ==
    /\ tag' = [i \in Images |-> IF i \in S THEN remote[i] ELSE tag[i]]
    /\ UNCHANGED <<rbTag, container>>

\* Whether findContainerByProject returns the container of image i: the first
\* that is running or exited.
Alive(i) == container[i].state \in {"running", "exited"}
IsFirst(i) == Alive(i) /\ \A j \in 1 .. i - 1 : ~Alive(j)

\* The containerStatus findContainerByProject returns.
ProjectStatus ==
    IF \E i \in Images : Alive(i) THEN "running"
    ELSE IF \E i \in Images : container[i].state = "stuck" THEN "stuck"
    ELSE "none"

------------------------------------------------------------------------------
(* The deploy guard *)

\* A call of caller c may fail: the fault is allowed, or its context is done.
CanFail(c, fault) == fault \in Faults \/ (c = Poller /\ cancelled)

ClearDeploying == deploying' = FALSE

\* tryStartDeploy where its result is not looked at.
MarkDeploying == deploying' = TRUE

\* Mutant of TryStartDeploy: the flag is set without being looked at.
TryStartUnchecked == deploying' = TRUE

\* tryStartDeploy in deploy.
TryStartDeploy == ~deploying /\ deploying' = TRUE

------------------------------------------------------------------------------
(* Callers *)

Goto(c, label, j) ==
    /\ pc' = [pc EXCEPT ![c] = label]
    /\ job' = [job EXCEPT ![c] = j]

\* checkAndUpdate returns; pollAll goes on to checkComposeDrift.
Return(c) ==
    Goto(c, IF job[c].kind = "poll" /\ ComposeWatch THEN "drift" ELSE "idle", NoJob)

\* checkAndUpdate returns an error: handlePollError stores it for a poll,
\* handlePollErrorAlways stores nothing for a manual trigger.
ReturnError(c, e) ==
    /\ errored' = IF job[c].kind = "poll" THEN e ELSE errored
    /\ Return(c)

StartPoll ==
    /\ pc[Poller] = "idle"
    /\ ~cancelled
    /\ Goto(Poller, "fetch", [NoJob EXCEPT !.kind = "poll"])
    /\ UNCHANGED <<registryVars, hostVars, deploying, pollVars, driftVars, processVars, verifierVars>>

\* POST /trigger runs pollAll, POST /trigger/<service> checkAndUpdate; both are
\* refused while the service deploys.
StartTrigger(c) ==
    /\ pc[c] = "idle"
    /\ ~deploying
    /\ \E k \in {"poll", "manual"} : Goto(c, "fetch", [NoJob EXCEPT !.kind = k])
    /\ UNCHANGED <<registryVars, hostVars, deploying, pollVars, driftVars, processVars, verifierVars>>

StartForce(c) ==
    /\ ForceRedeploy
    /\ pc[c] = "idle"
    /\ Goto(c, "forceUp", NoJob)
    /\ MarkDeploying
    /\ UNCHANGED <<registryVars, hostVars, pollVars, driftVars, processVars, verifierVars>>

\* Mutant of NextImage: the loop does not stop at the last image.
NextImagePastEnd(c, j) ==
    /\ j.img <= NumImages
    /\ Goto(c, "fetch", [j EXCEPT !.img = @ + 1])
    /\ UNCHANGED errored

\* The end of an iteration of the loop over the images.
NextImage(c, j) ==
    \/ /\ j.img < NumImages
       /\ Goto(c, "fetch", [j EXCEPT !.img = @ + 1])
       /\ UNCHANGED errored
    \/ /\ j.img = NumImages
       /\ j.new = NoDigests
       /\ Goto(c, "status", j)
       /\ UNCHANGED errored
    \/ /\ j.img = NumImages
       /\ j.new # NoDigests
       /\ Goto(c, "guard", j)
       /\ errored' = "none"

FetchFails(c) ==
    /\ pc[c] = "fetch"
    /\ CanFail(c, "registry")
    /\ ReturnError(c, "registry")
    /\ UNCHANGED <<registryVars, hostVars, deploying, blocked, notFound, startAttempted,
                   blockedGauge, driftVars, processVars, verifierVars>>

FetchAnswers(c) ==
    /\ pc[c] = "fetch"
    /\ Goto(c, "check", [job[c] EXCEPT !.seen = remote[job[c].img]])
    /\ UNCHANGED <<registryVars, hostVars, deploying, pollVars, driftVars, processVars, verifierVars>>

\* Mutant of IsBlocked: any digest is skipped while one is blocked.
IsBlockedAny(j) == blocked[j.img] # NoDigest

\* The digest caused a rollback and is skipped.
IsBlocked(j) == blocked[j.img] = j.seen

CheckBlocked(c) ==
    /\ pc[c] = "check"
    /\ IsBlocked(job[c])
    /\ NextImage(c, [job[c] EXCEPT !.seen = NoDigest])
    /\ UNCHANGED <<registryVars, hostVars, deploying, blocked, notFound, startAttempted,
                   blockedGauge, driftVars, processVars, verifierVars>>

\* The registry answered another digest than the blocked one: the block ends.
ClearBlock(i) ==
    /\ blocked' = [blocked EXCEPT ![i] = NoDigest]
    /\ blockedGauge' = IF blocked[i] = NoDigest THEN blockedGauge ELSE FALSE

\* No local image was found at this digest and it is skipped.
CheckNotFound(c) ==
    /\ pc[c] = "check"
    /\ ~IsBlocked(job[c])
    /\ notFound[job[c].img] = job[c].seen
    /\ ClearBlock(job[c].img)
    /\ NextImage(c, [job[c] EXCEPT !.seen = NoDigest])
    /\ UNCHANGED <<registryVars, hostVars, deploying, notFound, startAttempted, driftVars,
                   processVars, verifierVars>>

CheckCandidate(c) ==
    LET i == job[c].img IN
    /\ pc[c] = "check"
    /\ ~IsBlocked(job[c])
    /\ notFound[i] # job[c].seen
    /\ ClearBlock(i)
    /\ notFound' = [notFound EXCEPT ![i] = NoDigest]
    /\ Goto(c, "resolve", job[c])
    /\ UNCHANGED <<registryVars, hostVars, deploying, startAttempted, errored, driftVars,
                   processVars, verifierVars>>

\* What resolveLocalDigestForImage may return: the digest of the first container
\* when it is of this image's repository, else that of the local tag.  It asks for
\* an aliased image by a name compose does not keep up to date.
LocalDigests(c, i) ==
    LET first == {k \in Images : IsFirst(k) /\ Repo[k] = Repo[i]} IN
    IF i \in Aliased THEN MaybeDigest
    ELSE (IF first # {} THEN {container[k].digest : k \in first} ELSE {tag[i]})
            \union (IF CanFail(c, "docker") THEN {tag[i], NoDigest} ELSE {})

ResolveMissing(c) ==
    LET i == job[c].img IN
    /\ pc[c] = "resolve"
    /\ NoDigest \in LocalDigests(c, i)
    /\ notFound' = [notFound EXCEPT ![i] = job[c].seen]
    /\ NextImage(c, [job[c] EXCEPT !.seen = NoDigest])
    /\ UNCHANGED <<registryVars, hostVars, deploying, blocked, startAttempted, blockedGauge,
                   driftVars, processVars, verifierVars>>

ResolveSame(c) ==
    LET j == job[c] IN
    /\ pc[c] = "resolve"
    /\ j.seen \in LocalDigests(c, j.img)
    /\ NextImage(c, [j EXCEPT !.seen = NoDigest, !.rep = IF @ = NoDigest THEN j.seen ELSE @])
    /\ UNCHANGED <<registryVars, hostVars, deploying, blocked, notFound, startAttempted,
                   blockedGauge, driftVars, processVars, verifierVars>>

ResolveChanged(c) ==
    LET j == job[c] IN
    /\ pc[c] = "resolve"
    /\ LocalDigests(c, j.img) \ {j.seen, NoDigest} # {}
    /\ NextImage(c, [j EXCEPT !.seen = NoDigest, !.new[j.img] = j.seen])
    /\ UNCHANGED <<registryVars, hostVars, deploying, blocked, notFound, startAttempted,
                   blockedGauge, driftVars, processVars, verifierVars>>

\* No image changed: the project's containers are looked at.
Statuses(c) == {ProjectStatus} \union (IF CanFail(c, "docker") THEN {"none"} ELSE {})

StatusRunning(c) ==
    /\ pc[c] = "status"
    /\ "running" \in Statuses(c)
    /\ startAttempted' = NoDigest
    /\ errored' = "none"
    /\ Return(c)
    /\ UNCHANGED <<registryVars, hostVars, deploying, blocked, notFound, blockedGauge, driftVars,
                   processVars, verifierVars>>

\* Nothing runs and auto_start is off.
StatusDown(c) ==
    /\ pc[c] = "status"
    /\ ~AutoStart
    /\ Statuses(c) # {"running"}
    /\ errored' = "none"
    /\ Return(c)
    /\ UNCHANGED <<registryVars, hostVars, deploying, blocked, notFound, startAttempted,
                   blockedGauge, driftVars, processVars, verifierVars>>

\* A start was already attempted at this digest.
StartSuppressed(c) ==
    /\ pc[c] = "status"
    /\ AutoStart
    /\ Statuses(c) # {"running"}
    /\ startAttempted # NoDigest
    /\ startAttempted = job[c].rep
    /\ Return(c)
    /\ UNCHANGED <<registryVars, hostVars, deploying, pollVars, driftVars, processVars, verifierVars>>

AutoStarts(c) ==
    /\ pc[c] = "status"
    /\ AutoStart
    /\ startAttempted = NoDigest \/ startAttempted # job[c].rep
    /\ startAttempted' = job[c].rep
    /\ MarkDeploying
    /\ \E s \in Statuses(c) \ {"running"} : Goto(c, "start", [job[c] EXCEPT !.stuck = (s = "stuck")])
    /\ UNCHANGED <<registryVars, hostVars, blocked, notFound, errored, blockedGauge, driftVars,
                   processVars, verifierVars>>

\* deploy: the context is done.
DeployCancelled(c) ==
    /\ pc[c] = "guard"
    /\ c = Poller /\ cancelled
    /\ ReturnError(c, "cancelled")
    /\ UNCHANGED <<registryVars, hostVars, deploying, blocked, notFound, startAttempted,
                   blockedGauge, driftVars, processVars, verifierVars>>

\* deploy: another deploy of the service is in progress.
DeploySkipped(c) ==
    /\ pc[c] = "guard"
    /\ ~(c = Poller /\ cancelled)
    /\ deploying
    /\ Return(c)
    /\ UNCHANGED <<registryVars, hostVars, deploying, pollVars, driftVars, processVars, verifierVars>>

DeployBegins(c) ==
    /\ pc[c] = "guard"
    /\ ~(c = Poller /\ cancelled)
    /\ TryStartDeploy
    /\ Goto(c, "tag", job[c])
    /\ UNCHANGED <<registryVars, hostVars, pollVars, driftVars, processVars, verifierVars>>

Changed(j) == {i \in Images : j.new[i] # NoDigest}

\* The container deploy takes for repository r: the first running one.
IsSource(k, r) ==
    /\ Repo[k] = r /\ container[k].state = "running"
    /\ \A l \in 1 .. k - 1 : ~(Repo[l] = r /\ container[l].state = "running")

Source(r) == CHOOSE k \in Images : IsSource(k, r)

\* The sources of the images of S become <repository>:rollback; the compose
\* references of those of N are recorded.
TagImages(c, N, S) ==
    /\ rbTag' = [r \in Images |->
                    IF \E i \in S : Repo[i] = r THEN container[Source(r)].digest ELSE rbTag[r]]
    /\ Goto(c, "pull", [job[c] EXCEPT
            !.ref = [i \in Images |-> IF i \in N THEN Source(Repo[i]) ELSE 0],
            !.old = [i \in Images |-> IF i \in S /\ Source(Repo[i]) = i
                                      THEN container[i].digest ELSE NoDigest]])

\* Of the changed images with a running container N could be inspected and S
\* tagged; a failure is logged and the deploy goes on.
TagRollback(c) ==
    LET found == {i \in Changed(job[c]) : \E k \in Images : IsSource(k, Repo[i])} IN
    /\ pc[c] = "tag"
    /\ \E N \in SUBSET found : \E S \in SUBSET N :
        /\ S = found \/ CanFail(c, "tag")
        /\ TagImages(c, N, S)
    /\ UNCHANGED <<registryVars, tag, container, deploying, pollVars, driftVars, processVars,
                   verifierVars>>

\* Mutant of AbortDeploy: the error path keeps the guard.
AbortDeployLeaks(c, e) == UNCHANGED deploying /\ ReturnError(c, e)

\* deploy returns with an error.
AbortDeploy(c, e) == ClearDeploying /\ ReturnError(c, e)

Pull(c) ==
    /\ pc[c] = "pull"
    /\ ComposePull(Images)
    /\ Goto(c, "up", job[c])
    /\ UNCHANGED <<registryVars, deploying, pollVars, driftVars, processVars, verifierVars>>

PullFails(c) ==
    /\ pc[c] = "pull"
    /\ CanFail(c, "pull")
    /\ \E S \in SUBSET Images : ComposePull(S)
    /\ AbortDeploy(c, "pull")
    /\ UNCHANGED <<registryVars, blocked, notFound, startAttempted, blockedGauge, driftVars,
                   processVars, verifierVars>>

\* go verifyAfterDeploy / go verifyHealthAfterCompose, with the caller's context.
Verify(c, kind) ==
    \E v \in Verifiers :
        /\ vpc[v] = "idle"
        /\ vpc' = [vpc EXCEPT ![v] = "poll"]
        /\ vjob' = [vjob EXCEPT ![v] = [kind |-> kind, main |-> (c = Poller),
                                        new |-> job[c].new, ref |-> job[c].ref,
                                        old |-> job[c].old]]

Up(c) ==
    /\ pc[c] = "up"
    /\ ComposeUp(Images, container)
    /\ Verify(c, "deploy")
    /\ Return(c)
    /\ UNCHANGED <<registryVars, deploying, pollVars, driftVars, processVars>>

UpFails(c) ==
    /\ pc[c] = "up"
    /\ CanFail(c, "up")
    /\ \E S \in SUBSET Images : ComposeUp(S, container)
    /\ AbortDeploy(c, "up")
    /\ UNCHANGED <<registryVars, blocked, notFound, startAttempted, blockedGauge, driftVars,
                   processVars, verifierVars>>

\* checkComposeDrift stores the hash before it acts on it.
DriftNone(c) ==
    /\ pc[c] = "drift"
    /\ composeHash \in {0, spec}
    /\ composeHash' = spec
    /\ Goto(c, "idle", NoJob)
    /\ UNCHANGED <<registryVars, hostVars, deploying, pollVars, spec, processVars, verifierVars>>

DriftFound(c) ==
    /\ pc[c] = "drift"
    /\ composeHash \notin {0, spec}
    /\ composeHash' = spec
    /\ MarkDeploying
    /\ Goto(c, "driftUp", NoJob)
    /\ UNCHANGED <<registryVars, hostVars, pollVars, spec, processVars, verifierVars>>

\* The compose up of a drift or a forced redeploy, and the compose up or
\* restart (down, then up) of an auto start.
Recomposing(c) == pc[c] \in {"start", "driftUp", "forceUp"}

Recompose(c) ==
    /\ Recomposing(c)
    /\ ComposeUp(Images, container)
    /\ Verify(c, "compose")
    /\ errored' = IF pc[c] = "start" THEN "none" ELSE errored
    /\ IF pc[c] = "start" THEN Return(c) ELSE Goto(c, "idle", NoJob)
    /\ UNCHANGED <<registryVars, deploying, blocked, notFound, startAttempted, blockedGauge,
                   driftVars, processVars>>

\* The down of a restart got as far as the images of D, the up to those of S.
RecomposeFails(c) ==
    /\ Recomposing(c)
    /\ CanFail(c, "up")
    /\ \E S, D \in SUBSET Images :
        /\ job[c].stuck \/ D = {}
        /\ job[c].stuck => (S = {} \/ D = Images)
        /\ ComposeUp(S, [i \in Images |-> IF i \in D THEN NoContainer ELSE container[i]])
    /\ ClearDeploying
    /\ IF pc[c] = "start" THEN ReturnError(c, "start") ELSE Goto(c, "idle", NoJob) /\ UNCHANGED errored
    /\ UNCHANGED <<registryVars, blocked, notFound, startAttempted, blockedGauge, driftVars,
                   processVars, verifierVars>>

------------------------------------------------------------------------------
(* Verifiers *)

VGoto(v, label) == vpc' = [vpc EXCEPT ![v] = label] /\ UNCHANGED vjob

\* Mutant of VReturn: clearDeploying is not deferred.
VReturnLeaks(v) ==
    /\ vpc' = [vpc EXCEPT ![v] = "idle"]
    /\ vjob' = [vjob EXCEPT ![v] = NoVJob]
    /\ UNCHANGED deploying

\* The goroutine returns: the deferred clearDeploying runs.
VReturn(v) ==
    /\ vpc' = [vpc EXCEPT ![v] = "idle"]
    /\ vjob' = [vjob EXCEPT ![v] = NoVJob]
    /\ ClearDeploying

\* The first container is seen running and not unhealthy: onDeploySuccess, or
\* just the health gauge.  Docker also reports a restarting container as running.
VerifyHealthy(v) ==
    /\ vpc[v] = "poll"
    /\ \/ \E i \in Images : IsFirst(i) /\ container[i].state = "running"
       \/ ProjectStatus = "stuck"
    /\ \/ vjob[v].kind = "deploy" /\ VGoto(v, "accepted") /\ UNCHANGED deploying
       \/ vjob[v].kind = "compose" /\ VReturn(v)
    /\ UNCHANGED <<registryVars, hostVars, pollVars, driftVars, processVars, callerVars>>

\* Mutant of BlockDigests: a rollback leaves the digests deployable.
BlockNothing(j) == UNCHANGED blocked

\* rollback blocks the digest of every changed image.
BlockDigests(j) ==
    blocked' = [i \in Images |-> IF i \in Changed(j) THEN j.new[i] ELSE blocked[i]]

\* The container is unhealthy, or not there, not running, still starting or not
\* inspectable when the grace period ends.  A deploy rolls back: it blocks every
\* changed digest before it touches Docker.
VerifyGivesUp(v) ==
    /\ vpc[v] = "poll"
    /\ \/ /\ vjob[v].kind = "deploy"
          /\ BlockDigests(vjob[v])
          /\ blockedGauge' = TRUE
          /\ VGoto(v, "retag")
          /\ UNCHANGED deploying
       \/ /\ vjob[v].kind = "compose"
          /\ VReturn(v)
          /\ UNCHANGED <<blocked, blockedGauge>>
    /\ UNCHANGED <<registryVars, hostVars, notFound, startAttempted, errored, driftVars,
                   processVars, callerVars>>

\* The context is done: the goroutine returns with nothing verified.
VerifyCancelled(v) ==
    /\ vpc[v] = "poll"
    /\ vjob[v].main /\ cancelled
    /\ VReturn(v)
    /\ UNCHANGED <<registryVars, hostVars, pollVars, driftVars, processVars, callerVars>>

VCanFail(v, fault) == fault \in Faults \/ (vjob[v].main /\ cancelled)

\* Compose up follows; of the history the images of T are left.
GoOn(v, T) ==
    /\ vpc' = [vpc EXCEPT ![v] = "rollbackUp"]
    /\ vjob' = [vjob EXCEPT ![v].old = [i \in Images |-> IF i \in T THEN @[i] ELSE NoDigest]]
    /\ UNCHANGED deploying

\* Mutant of AfterRetag: tagFailed is not looked at, and what was not retagged
\* is counted as saved.
AfterRetagAnyway(v, all, T) == GoOn(v, Images)

\* A versioned tag that could not be written ends the rollback, without a compose up.
AfterRetag(v, all, T) ==
    \/ all /\ GoOn(v, T)
    \/ ~all /\ VReturn(v)

RetagImages(T) == tag' = [i \in Images |-> IF i \in T THEN rbTag[Repo[i]] ELSE tag[i]]

\* rollback: each :rollback becomes the versioned tag again (S), which compose
\* uses unless the image is aliased, and the recorded compose reference where
\* that is another one (R).  A failure of the second kind is only logged.
Retag(v) ==
    LET j == vjob[v]
        changed == Changed(j)
        tagged == {i \in changed : rbTag[Repo[i]] # NoDigest}
        referred == {i \in tagged : j.ref[i] # 0 /\ (j.ref[i] # i \/ i \in Aliased)}
    IN
    /\ vpc[v] = "retag"
    /\ \E S \in SUBSET tagged, R \in SUBSET referred :
        LET T == (S \ Aliased) \union {j.ref[i] : i \in R} IN
        /\ (S = tagged /\ R = referred) \/ VCanFail(v, "tag")
        /\ RetagImages(T)
        /\ AfterRetag(v, S = changed, T)
    /\ UNCHANGED <<registryVars, rbTag, container, pollVars, driftVars, processVars, callerVars>>

RollbackUp(v) ==
    /\ vpc[v] = "rollbackUp"
    /\ ComposeUp(Images, container)
    /\ VGoto(v, "restored")
    /\ UNCHANGED <<registryVars, deploying, pollVars, driftVars, processVars, callerVars>>

RollbackUpFails(v) ==
    /\ vpc[v] = "rollbackUp"
    /\ VCanFail(v, "up")
    /\ \E S \in SUBSET Images : ComposeUp(S, container)
    /\ VReturn(v)
    /\ UNCHANGED <<registryVars, pollVars, driftVars, processVars, callerVars>>

\* cleanupRollbacks removes the :rollback tags of the repositories, whoever wrote
\* them; a removal that fails is logged.
CleanupRollbacks(v) ==
    /\ vpc[v] \in {"restored", "accepted"}
    /\ \E S \in SUBSET Changed(vjob[v]) :
        /\ S = Changed(vjob[v]) \/ VCanFail(v, "tag")
        /\ rbTag' = [r \in Images |-> IF \E i \in S : Repo[i] = r THEN NoDigest ELSE rbTag[r]]
    /\ VReturn(v)
    /\ UNCHANGED <<registryVars, tag, container, pollVars, driftVars, processVars, callerVars>>

------------------------------------------------------------------------------
(* The API and the process *)

\* UnblockService.
UnblockService ==
    /\ "unblock" \in Faults
    /\ blocked # NoDigests
    /\ blocked' = NoDigests
    /\ blockedGauge' = FALSE
    /\ UNCHANGED <<registryVars, hostVars, deploying, notFound, startAttempted, errored, driftVars,
                   processVars, callerVars, verifierVars>>

\* main cancels its context once the shutdown coordinator returns.
Cancel ==
    /\ "cancel" \in Faults
    /\ ~cancelled
    /\ restarts < MaxRestarts
    /\ cancelled' = TRUE
    /\ UNCHANGED <<registryVars, hostVars, deploying, pollVars, driftVars, restarts, callerVars,
                   verifierVars>>

\* The state NewUpdater and NewMetrics give the process.
FreshProcess ==
    /\ deploying = FALSE
    /\ blocked = NoDigests
    /\ notFound = NoDigests
    /\ startAttempted = NoDigest
    /\ errored = "none"
    /\ composeHash = 0
    /\ blockedGauge = FALSE
    /\ cancelled = FALSE
    /\ pc = [c \in Callers |-> "idle"]
    /\ job = [c \in Callers |-> NoJob]
    /\ vpc = [v \in Verifiers |-> "idle"]
    /\ vjob = [v \in Verifiers |-> NoVJob]

\* The process exits, at any point, and is started again: no map is saved.
Restart ==
    /\ restarts < MaxRestarts
    /\ restarts' = restarts + 1
    /\ deploying' = FALSE
    /\ blocked' = NoDigests
    /\ notFound' = NoDigests
    /\ startAttempted' = NoDigest
    /\ errored' = "none"
    /\ composeHash' = 0
    /\ blockedGauge' = FALSE
    /\ cancelled' = FALSE
    /\ pc' = [c \in Callers |-> "idle"]
    /\ job' = [c \in Callers |-> NoJob]
    /\ vpc' = [v \in Verifiers |-> "idle"]
    /\ vjob' = [v \in Verifiers |-> NoVJob]
    /\ UNCHANGED <<registryVars, hostVars, spec>>

\* The project runs the registry's digests, was taken down, or was never started.
Init ==
    /\ remote \in [Images -> Digests]
    /\ tag \in {remote, NoDigests}
    /\ \/ /\ tag = remote
          /\ container = [i \in Images |-> [digest |-> remote[i], state |-> "running"]]
       \/ container = [i \in Images |-> NoContainer]
    /\ rbTag = NoDigests
    /\ pushes = 0
    /\ spec = 1
    /\ restarts = 0
    /\ FreshProcess

Check(c) ==
    \/ FetchFails(c) \/ FetchAnswers(c)
    \/ CheckBlocked(c) \/ CheckNotFound(c) \/ CheckCandidate(c)
    \/ ResolveMissing(c) \/ ResolveSame(c) \/ ResolveChanged(c)
    \/ StatusRunning(c) \/ StatusDown(c) \/ StartSuppressed(c) \/ AutoStarts(c)

Deploy(c) ==
    \/ DeployCancelled(c) \/ DeploySkipped(c) \/ DeployBegins(c)
    \/ TagRollback(c) \/ Pull(c) \/ PullFails(c) \/ Up(c) \/ UpFails(c)

Compose(c) == DriftNone(c) \/ DriftFound(c) \/ Recompose(c) \/ RecomposeFails(c)

CallerStep(c) == Check(c) \/ Deploy(c) \/ Compose(c)

VerifierStep(v) ==
    \/ VerifyHealthy(v) \/ VerifyGivesUp(v) \/ VerifyCancelled(v)
    \/ Retag(v) \/ RollbackUp(v) \/ RollbackUpFails(v) \/ CleanupRollbacks(v)

Environment ==
    \/ \E i \in Images : Push(i) \/ ContainerStops(i) \/ OtherService(i)
    \/ EditSpec \/ ProjectDown \/ UnblockService \/ Cancel \/ Restart

Next ==
    \/ StartPoll
    \/ \E c \in Triggers : StartTrigger(c) \/ StartForce(c)
    \/ \E c \in Callers : CallerStep(c)
    \/ \E v \in Verifiers : VerifierStep(v)
    \/ Environment

Spec == Init /\ [][Next]_vars

------------------------------------------------------------------------------
(* Properties *)

\* A caller between its tryStartDeploy and the clearDeploying, or the start of
\* the verifier, that ends its part of the operation.
Operating(c) == pc[c] \in {"tag", "pull", "up", "start", "driftUp", "forceUp"}
Verifying(v) == vpc[v] # "idle"

\* The flag never leaks: while `deploying` is set some goroutine is in an
\* operation whose every way out clears it, so the healer is not held off and
\* deploys are not skipped for ever (updater.go, clearDeploying on each error
\* path and deferred in both verifiers).
NoLeakedGuard ==
    deploying => (\E c \in Callers : Operating(c)) \/ (\E v \in Verifiers : Verifying(v))

\* At most one goroutine operates on the service (docs/03-guides/01-full-mode.md,
\* "Only one deploy per service runs at a time").
OneOperation ==
    /\ \A c, d \in Callers : Operating(c) /\ Operating(d) => c = d
    /\ \A v, w \in Verifiers : Verifying(v) /\ Verifying(w) => v = w
    /\ \A c \in Callers, v \in Verifiers : ~(Operating(c) /\ Verifying(v))

\* An operation is never under way with the flag clear, which the healer would
\* take for a service it may restart (updater.go, IsDeploying).
OperationHasGuard ==
    (\E c \in Callers : Operating(c)) \/ (\E v \in Verifiers : Verifying(v)) => deploying

GuardInv == OneOperation /\ OperationHasGuard /\ NoLeakedGuard

\* From the tag step to the end of the cycle the :rollback tag is the digest this
\* deploy saved of the container it was to replace: other callers, pushes, the
\* deploy of another image and containers that stop leave it alone.  Only another
\* service of the repository spoils it, which OtherService records in `old`
\* (updater.go, deploy and rollback).
RollbackTagIntact ==
    /\ \A c \in Callers : pc[c] \in {"pull", "up"} =>
        \A i \in Images : job[c].old[i] # NoDigest => rbTag[Repo[i]] = job[c].old[i]
    /\ \A v \in Verifiers : Verifying(v) =>
        \A i \in Images : vjob[v].old[i] # NoDigest => rbTag[Repo[i]] = vjob[v].old[i]

\* A rollback that ends well has put back the digest that ran when the deploy
\* began, or the project was taken down since: of every image whose own container
\* was saved, whose compose reference was retagged, and that no other service
\* touched.  The code reports the other images as rolled back too
\* (docs/03-guides/03-rollback.md; updater.go, rollback).
RollbackRestores ==
    \A v \in Verifiers : vpc[v] = "restored" =>
        \A i \in Images : vjob[v].old[i] # NoDigest =>
            container[i].digest \in {vjob[v].old[i], NoDigest}

\* The goroutine the service's operation is in, seen as DeployCycle sees it.
CyclePhase ==
    IF \E c \in Callers : Operating(c) THEN "composing"
    ELSE IF \E v \in Verifiers : vpc[v] = "poll" THEN "verifying"
    ELSE IF \E v \in Verifiers : vpc[v] \in {"retag", "rollbackUp"} THEN "restoring"
    ELSE IF \E v \in Verifiers : Verifying(v) THEN "done"
    ELSE "free"

CycleSaved == [i \in Images |->
    ({job[c].old[i] : c \in {d \in Callers : pc[d] \in {"pull", "up"}}}
        \union {vjob[v].old[i] : v \in {w \in Verifiers : Verifying(w)}}) \ {NoDigest}]

Running == [i \in Images |-> container[i].digest]

Cycle == INSTANCE DeployCycle
            WITH None <- NoDigest, guard <- deploying, phase <- CyclePhase,
                 running <- Running, saved <- CycleSaved

\* With polls and manual triggers only, the goroutines together behave as one
\* operation after another: nobody but the holder of the guard replaces a
\* container, and a rollback puts back what its own deploy saved.
CycleSpec == Cycle!Spec

------------------------------------------------------------------------------
(* Liveness *)

\* Goroutines are scheduled, registry, Docker and compose calls return, the
\* ticker of Run fires, and a verifier's grace period ends.  A call that is
\* retried on every poll does not fail every time.
Fairness ==
    /\ WF_vars(StartPoll)
    /\ \A c \in Callers : WF_vars(CallerStep(c))
    /\ \A v \in Verifiers : WF_vars(VerifierStep(v))
    /\ SF_vars(FetchAnswers(Poller))
    /\ SF_vars(\E c \in Callers : Pull(c))
    /\ SF_vars(\E c \in Callers : Up(c))

FairSpec == Spec /\ Fairness

\* Every operation ends, by whichever of its paths: the guard is given back.
GuardReleased == deploying ~> ~deploying

\* A failing digest is not rolled back for ever (updater.go, blocked: "Prevents
\* infinite rollback loops by skipping known-bad digests").
NoRollbackLoop == <>[][\A v \in Verifiers : vpc'[v] = "retag" => vpc[v] = "retag"]_vars

\* Once pushes stop, what the service runs is the registry's digest, or that
\* digest is blocked or was not found: a failed call is retried, and no
\* interleaving of polls, triggers and rollbacks loses an update for ever.
Settled(i) == \/ remote[i] \in {blocked[i], notFound[i]}
              \/ remote[i] = IF IsFirst(i) THEN container[i].digest ELSE tag[i]
UpdateSettles == <>[](\A i \in Images : Settled(i))
=============================================================================
