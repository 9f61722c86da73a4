# Verification of dockward

dockward watches Docker Compose projects on a host. It polls a registry for new
image digests, redeploys a project when one changes, verifies the health of what
it started and rolls back when it is bad (the *updater*); it restarts containers
that turn unhealthy (the *healer*); it keeps an audit log and serves an HTTP API,
and may push its audit entries to a *warden* that watches several hosts.

This directory holds TLA+ modules of that program, TLC configurations that check
them on small instances, and theorems about them with proofs for TLAPS.
`PROJECT.json` lists components, runs, mutants, hazards, findings and theorems, and
maps every definition that models code to its lines.

    tlc -workers 2 -config UpdaterGuarded.cfg MCUpdater.tla    # a run
    tlapm UpdaterProofs.tla                                    # a proof

## The system

| Component | State it keeps | Operations | Talks to |
|---|---|---|---|
| Updater (`watcher/updater.go`) | maps by service or image behind one mutex each: `deploying`, `blocked`, `notFound`, `startAttempted`, `errored`, `composeHashes`, `deployed`, `lastChecked`, `checkStatus` | poll loop, check of a service, drift check, deploy, verification, rollback, unblock, hourly cleanup | registry, Docker, compose, metrics, audit, notifications |
| Healer (`watcher/healer.go`) | `cooldowns`, `degraded`, `restartCounts`, `exhausted`, each with a mutex; start time | four event handlers, a check 30 s after a restart, seeding of the gauges | Docker events and calls, `Updater.IsDeploying`, metrics |
| HTTP API (`watcher/api.go`, `api_sse.go`, `api_config.go`) | status subscribers | trigger, unblock, force redeploy, status, event streams, configuration | all of the above |
| Metrics (`watcher/metrics.go`) | gauges and counters under one mutex | set, increment, render | written by updater, healer, monitor |
| Audit log (`audit/`) | open file, event count | write with rotation, read the last entries, close | a goroutine per entry to the push client and to the hub |
| Hub and limiter (`hub/`) | client channels (64 messages each); connections per address and in total | subscribe, unsubscribe, broadcast (drops when full) | SSE handlers of API and warden |
| Warden (`warden/`) | ring of 200 entries, agent states, `online` of the heartbeat | ingest, heartbeat transition, replay and stream, load, save | agents over HTTP, hub |
| Push (`push/`) | none | one POST per entry | warden |
| Shutdown coordinator (`shutdown/`) | `isShuttingDown`, active operations | operation start and end, shutdown | managers: updater, healer, monitor, API, audit |
| Configuration (`config/`) | services and settings under a lock | load, snapshot, change, save by rename | everyone |
| Monitor (`watcher/monitor.go`), Docker health checker (`docker/health.go`) | last samples, alert times; last result | periodic check | Docker, metrics, notifications |
| Notifications, logger, panic recovery, wizard, web pages | none that outlives a call | output | |

What is hard in this code:

* **Many goroutines, one flag.** `deploying[service]` is taken in one goroutine and
  given back in another (`go verifyAfterDeploy`), and every error path between
  has to give it back. Three callers set it without testing it.
* **Long operations made of blocking calls.** Between the registry's answer, the
  Docker inspection, the tags, `compose pull`, `compose up` and a minute of health
  polling, everything else may change: other callers, pushes, containers, the
  operator, the process itself.
* **Check then act on four maps.** The healer's event goroutine and its late checks
  read and clear the same marks under different locks.
* **Events that are lost or late**: the event stream reconnects from the current
  time, a process restarts with empty maps.

For each component, what makes it correct: the guard excludes and is always
given back; a rollback restores what its own deploy replaced; a service ends at
the registry's digest or at a recorded reason not to; restarts are paced and
bounded; a recovery is noticed; the audit log loses no acknowledged entry; the
hub's counts agree with its clients; the warden's ring is the last 200 entries;
configuration in memory and on disk agree when a call succeeded.

## Modules

| Module | What it is |
|---|---|
| `DeployCycle` | abstract: what the deploy guard promises of one service, with no goroutine in sight |
| `Updater` | the deploy cycle of one service: poll loop, HTTP triggers, verifiers, environment |
| `MCUpdater` | constants' symmetry for TLC |
| `UpdaterProofs` | type correctness and the safety invariants of `Updater`; `Updater` implements `DeployCycle` |
| `Healer` | the healer for one service with one container, map access by map access |
| `MCHealer` | symmetry for TLC |
| `HealerProofs` | type correctness, pacing of restarts, recoveries |
| `Hub` | the SSE hub and its connection limiter, extended by whoever serves streams |
| `HubProofs` | what subscribing and leaving do to the limits, for the proofs of both servers |
| `EventLog` | abstract: the last events in order, and the file they are saved to |
| `Warden` | ingest, heartbeat, event streams and the process of the warden, over `Hub` |
| `MCWarden` | addresses of the clients and symmetry for TLC |
| `WardenProofs` | type correctness, the limits, complete streams, the agents' story and its order, `Warden` implements `EventLog` |
| `AuditLog` | the audit log: writers, rotation, archives, readers, faults, exits |
| `MCAudit` | the audit log for TLC |
| `AuditProofs` | type correctness, the bound of the file, nothing announced that was not written, what is read back, no acknowledged entry lost |
| `ApiStreams` | the agent's event streams: `AuditLog` and `Hub` joined, with the status signals |
| `MCStreams` | addresses of the clients for TLC |
| `StreamsProofs` | type correctness, no gap, few repetitions, fresh dashboards, and the log's promises kept among the streams |
| `Shutdown` | signal handler, coordinator, and the Shutdown of the five managers |
| `MCShutdown` | the shutdown for TLC |
| `ShutdownProofs` | type correctness, operations awaited, one run of the body, what no error means |
| `ConfigStore` | the configuration file, the memory, the API handlers, the wizard, the updater's entries by name |
| `MCConfig` | service names for TLC, one a prefix of the other |
| `ConfigProofs` | type correctness, the file stays whole, acknowledged changes stay stored |

### Updater

The state is the registry (`remote`), the Docker host (`tag`, `rbTag`, `container`),
the compose files (`spec`), the updater's maps at the one service's keys, and
for every goroutine where it is (`pc`, `vpc`) and its locals (`job`, `vjob`).

*Callers* are the poll loop and the goroutines HTTP requests start. A caller
goes from one blocking call to the next, and the map operations between two blocking
calls are one step. That is an abstraction: each map has its own mutex, so another
goroutine could run between two of these operations, which take microseconds
between calls that take seconds; the block and not-found maps, which decide together
whether an image is a candidate, are read in one step, `check`. `fetch` is waiting for
the registry, `check` is before the block and not-found tests, `resolve` before the
local digest is looked up, `status` before `findContainerByProject`, `guard` before
`tryStartDeploy`, `tag`, `pull` and `up` are deploy's steps, `start` auto start's
compose call, `drift` the hash of the compose files, `driftUp` and `forceUp` the compose
calls of drift and of a forced redeploy. *Verifiers* are the goroutines behind
`go verifyAfterDeploy` (kind `deploy`) and `go verifyHealthAfterCompose` (kind `compose`).

Each failing call has an action of its own (`FetchFails`, `PullFails`, `UpFails`,
`RecomposeFails`, `RollbackUpFails`, ...). A failing compose call may have recreated
containers or not. The constant `Faults` says what the environment may do, so that
a run can concentrate on some of it. `Cancel` is the end of main's context,
`Restart` an exit of the process at any point with a fresh start after it.

Another service of the same host shares nothing with this one but the `:rollback` tag: the
code names it after registry host and image name alone, so `rbTag` belongs to a repository
(`Repo[i]`, the same for two tags of one), and `OtherService` lets another service tag it, whose
deploy then also removes it, and which may pull what one of this service's tags names
(fault `"shared"`). A job's `old` holds the digests its deploy
saved, as far as they are still its own to restore; what another service spoils, or what
a failed retag of a compose reference leaves (`Aliased` images, whose containers are
created from a reference other than the configured tag, `OldRef` in the code), is taken out of it, so the
properties speak of the rest.

Left out: what else other services do (their other keys are disjoint), `auto_update: false`,
`deployed`, `lastChecked` and `checkStatus` (nothing but status pages reads them),
counters, audit entries and notifications (synchronous output that touches no state
here), the hourly cleanup. The health of a container is what the verifier finds:
any running container may be found healthy or not, and the polls of one verifier are
one step, its last one.

### Healer

Here two goroutines share maps and decide on several of them, so a step is a single
access to a map or a Docker call. The event goroutine (`Events`) handles one event
to the end before it takes the next; a restart starts a check (`Checks`).
Each of the paths that forget a bad state clears `degraded`, `restartCounts` and
`exhausted` one after the other (`ClearDegraded`, `ClearCounts`, `ClearExhausted`).
Two reads of maps that commute with all steps between them are one step (the cooldown
and the degraded mark in `HandleHealthy`, the conditions of `HandleDied`).

The container belongs to Docker: its healthcheck may change its verdict (`Probe`), it may
exit and start, a deploy may recreate it with or without a healthcheck. Each change
puts its events on `stream`; `Cut` is the loss of a stream and `Boot` an exit and start
of the process. Time is nondeterministic: a cooldown, the startup grace and the 30
seconds before a check end whenever they like, except that with `LongCooldown` the
cooldown does not end while a check still waits. `recent` is the clock: heal_cooldown has not
passed since the last restart was tried, whether or not the map still has an entry, and it
outlives the process. `CooldownEnds` is the moment at which it has.

Variables `attempts`, `cut`, `recent` and `since` (what was handled or failed while `recent`) are for the
properties; the code has no such state. Left out: `silent` services, notifications and audit entries, the end of the
context.

### Hub and warden

`Hub` has the registered channels (`clients`, `channel`) and the limiter's counts
(`perIP`, `total`). `hub.Subscribe` looks at the limits before it takes the hub's lock
and again under it, so these are two operators: `CanConnect` and `Subscribe`. It has no
next-state relation; a component that serves streams extends it and calls its operators.

`Warden` runs three kinds of goroutines over it, and a step is one call of the store or the
hub, each of which has its own mutex:

* a `POST /ingest` request (`Requests`): `IngestReceives`, `IngestStores`, `IngestBroadcasts`;
* the heartbeat: `PollAnswers` ends one agent's poll with `transition`, which keeps the state
  in two places and makes an entry if it changed; `HeartbeatStores`, `HeartbeatBroadcasts`;
  `HeartbeatTicks` and `HeartbeatEnds` are the two branches of its `select`;
* a `GET /events` stream (`Clients`): `StreamReplays` reads the ring and writes the last events,
  `StreamChecks` and `StreamSubscribes` are `hub.Subscribe`, `StreamWrites` takes a message
  from the channel, `StreamRefused` and `StreamLeaves` end it.

Main goes from `running` to `cancelled` (`Signal`), copies the ring (`SaveReads`), truncates the
file (`SaveOpens`), writes it (`SaveWrites`; either of the last two may fail, `SaveFails`), waits
for what is being handled (`draining`) and exits. `http.Server.Shutdown` waits five seconds and
streams do not end by themselves, so the process may exit with a goroutine anywhere. `Kill`
is an end without all that. While the process is `down` the ring keeps its last value, which
nobody reads.

An entry is its kind, its agent where that matters and a `number` for its time and text. `log` (all
entries this process stored), `joined` (where in it a stream subscribed) and `dropped` (what a
full channel lost) are history for the properties. `state_path` is set, as without it
nothing is saved. Left out: requests refused before they reach the store, `LastSeen`,
the dashboard, statistics of the limiter.

### Audit log

`AuditLog` has the file (`log`, whether it is `present`, whether its last line is `torn`), the
`archives` by the second of their names, `l.file` (`file`: open, closed after a rotation that
stopped half way, or nil), `eventCount` and the mutex (`lock`). A write goes through `new`, `writing`,
`renamed`, `rotated` to `acked`, `failed` or `ignored`; the look at `l.file` before the lock
(`WriteStart`, `RecentStart`) is a step of its own, because it is one in the code. `Rename` and
`OpenNew` are the halves of `rotate`, `WriteLine` is the rest of `Write` with its `Fprintf`, count
and unlock, `Announce` the goroutines it leaves behind. Between the two halves the process may
exit; `New` opens the file and counts its lines, or cannot open it a second time and counts none
(fault `"count"`). A reader that meets `l.file == nil` under the lock panics with it (`RecentOpen`):
the recovery of net/http does not unlock. Otherwise it has the file open and reads it after the
unlock (`RecentRead`): the lines written since are read too, and those of a file that was
renamed meanwhile (`Detach`, `held`).

A line is its entry, or `Torn`. The limit of 100 MB is abstracted by entries (`Big`) of which
one fills the file. Lines of 64 KB and more (`Long`), as the output of compose can make them, stop the
scanner: `CountedLines` is what comes before the first, and `Recent` of a file with one is an error, after which the
streams go on without a replay. `acked` and `faulted` record history for the properties.

### Event streams of the agent

`ApiStreams` extends `AuditLog` and `Hub`: messages of the hub are entries, and a client is a reader
of the log. An operation changes the state (`Begin`), writes its entry (`WriteEntry`) and changes
the state again (`End`), as a deploy does whose flag is cleared after its last entry. The
goroutine of an entry broadcasts (`BroadcastEntry`) and then signals the dashboards (`NotifyStatus`).
A handler goes from `asked` (`Connect`) through `joined` (`Join`), for a dashboard also `watching` and
`stated`, to `live` (`Replay`); there it forwards messages, takes signals and ticks, each of which
makes it send the status (`refresh`, `SendStatus`), or ends (`Disconnect`). `state` is the set of changes
made, `seen` the set a dashboard was sent last, `shown` the entries a client was sent.

### Shutdown

`Shutdown` follows a signal: the handler in `main.go` (`Signal`, `Enter`, `Return`, `Cancel`, `Exit`), the body
of the coordinator's `Shutdown` (`SetFlag`, `OpsDone`, `OperationsOver`, `ManagersOver`) and the managers, which
run side by side (`UpdaterShutdown`, `HealerShutdown`, `AuditShutdown`, and for the API's servers, one
after the other, `StopListening`, `ServerClosed`, `ServerTimeout`). Meanwhile deploys begin and end and
connections open and close, until the process has exited. The audit log is its handle (`file`) and which
entries are `written`, `archived` and `synced`: each write may rotate it first, and a rotation may leave
it closed or nil (`AuditWrite`); `AuditShutdown` returns nil at once for a nil file, and `AuditSync` syncs
the open file and no archive. Time is a step: `Expire` ends
the 30 seconds, and a shorter timeout may come at any moment after what it limits began.
`mgr` is what each manager has returned, `shutdownErr` what the coordinator returns.

The program makes one call of Shutdown and registers no operation; the tests of the package do
both more often, and `Callers` and `Operations` are as large as they make them. The handler writes an
audit entry before it calls Shutdown (`main.go:163`), which is part of `Signal`: the module starts after that
write, which a lock of the log that is never released (finding 11) would hold up for ever.

### Configuration

`ConfigStore` has the file (`disk`), the agent's memory (`mem`), the step of the handler that holds the
lock (`handler`), the wizard's copy, and the updater's maps by service name: `checked` stands for those
that the hourly cleanup compares by name, `deployed` for the one it compares by prefix. A
handler changes the memory (`Change`), writes a temporary file (`WriteTemp`) and renames it (`Rename`),
or a step fails (`SaveFails`) and the memory stays changed. `Start` is `Load` with defaults, fatal checks and
services that are dropped; `Kill` ends the agent between any two steps. The wizard is another
process: it loads, edits and truncates and writes the file in place, with no lock against the
agent. `PollCheck` and `TriggeredCheck` run with a service that was read earlier and may be gone.

Three settings stand for all: the poll interval (a default and fatal bounds), the statistics
interval (its default is another setting) and the notifications: a `"reference"` to an environment
variable, which a load replaces in memory by the `"secret"` (`Expanded`), so that a later save or a wizard session
writes the secret, or a `"literal"`. What is owed to a client that sent a reference is the reference until
the next start, and the reference or its value after it (`Outlives`, `Keeps`). Names are a
set, so two services of one name are left out.

## Runs

| Run | Configuration | What it shows |
|---|---|---|
| `guarded` | one image with a compose reference of its own, two digests, poll loop and one trigger, two verifiers, failing compose calls and tags, a project taken down, another service on the repository | `GuardInv`, `RollbackTagIntact`, `RollbackRestores`, and `CycleSpec`: the guarded callers implement `DeployCycle` |
| `images` | two tags of one repository, poll loop alone, failing tags and retags, stopping containers and one restart of the process | the same for deploys of several images, and across a crash at any step |
| `live` | one image, poll loop and trigger, failing registry and compose up, fairness | `GuardReleased`, `NoRollbackLoop`, `UpdateSettles` |
| `overlap` | auto start, compose drift and forced redeploys on, poll loop and one trigger, one verifier at a time, unblocks, cancellation, an exit | `NoLeakedGuard` although operations overlap |
| `healer` | two checks, one restart allowed, three changes, one deploy, one restart of the process | `RestartPaced` with the three exceptions it names, `Recovered` |
| `streams` | three clients at two addresses, one stream per address and two in all, channels of one message, a ring of three, one push, one agent, two rounds of polls | `LimitsKept`, `StreamComplete`, `AgentEventsInOrder` while streams open, are refused, lag and close |
| `warden` | two agents, one push, two rounds, two ends of the process by exit or kill, saves that fail | `AgentStory`, and `EventsKept`: ring, save and load implement `EventLog` |
| `audit` | four entries, one of them large and one too long for the scanner, a reader, files of two entries, one archive, file operations failing (a whole write only when the file is closed), a count that falls short, one exit | `JournalKept`, `FileBounded`, `OnlyAcknowledged`, `WriteReturns`: what was acknowledged stays in order, the file keeps its limit, and a write returns |
| `api_streams` | two operations, one with a large and long entry, one client with a channel of one message, another reader, a rotation, one exit, no failing file operation | `NoGap`, `RepeatsOnlyOverlap`, `StatusFresh`, `StatusCatchesUp` while replay, broadcasts and signals interleave |
| `shutdown` | two servers, one connection, one deploy, one operation, two callers, an audit log that rotates or loses its file | `OperationsAwaited`, `NilMeansClean`, `OneShutdown`, `SignalEnds` wherever a timeout comes |
| `config` | two names, one a prefix of the other, two changes, two starts, one wizard session | `FileWhole`, `AcknowledgedStored`, `EntriesLeave` across failed saves, kills and restarts |
| `restart_ceiling` | the smallest instance that shows it | expected to fail: what the guide says of `heal_max_restarts` and the code does not do (see Findings) |

Every property of a passing run has a mutant: a plausible bug in one definition
(a guard that is not tested, an error path that does not clear the flag, a tag failure
that is ignored, a block that is not set, ...) that makes TLC report the property violated.

**Bounds.** Two or three digests let a fix follow a bad push, and a push return to
an earlier digest. Two images are the least with a deploy that changes one of several
and a rollback half of which fails. Two pushes give a deploy, its rollback
and a second deploy; one push, in `guarded` and `images`, still gives both, as a rollback needs only that
the verifier finds the container bad. Two callers, and two verifiers in `guarded`, give every pairwise overlap of a
cycle with the next, and a third would add only more of the same pairs; in `overlap`, `live` and `images` a
second verifier is left to the proofs (`NoLeakedGuard` has no such bound). `live` has failing
calls and no operator, so that settling is not prevented by one. `MaxPushes`, `MaxEdits`,
`MaxRestarts`, `MaxChanges`, `MaxDeploys` and `MaxBoots` bound the environment in the
guards of its actions; nothing the program counts is cut off. In `healer`, three changes are
enough for unhealthy, healthy and unhealthy again around a restart, and two checks for
a late one to meet the next restart. In `streams`, two clients of one address compete for
its only place while the third takes the last one in all (three addresses would be needed to see the total
refuse alone: that case is left to the proof); a channel of one message is full after one
broadcast; the push and the agent's two transitions fill the ring of three, of which a
stream is shown two. In `warden`, the push and the first transitions of two agents fill the ring, and
the second round wraps it; two ends give a load of a full ring and a load after a save that failed. The
proofs have no such bounds.

In `audit`, four entries fill a file, rotate it, fill the next and rotate once more, or pass an exit
between any two of these; with one archive the second rotation already removes the first. What is written
in one second does not fill a file (guards of `WriteStart`: at most `MaxEvents` entries, and a large one is
the last of its second): the real limits are 10000 entries and 100 MB, and archives are named after the
second, so that a second rotation within one would overwrite the archive of the first. A write that fails
without leaving a piece of its line is tried with a closed file only; with an open one it has the same
effect, and the proofs have both. Reading of an archive after the unlock, a count cut short and an entry that a
stream is not replayed because of a long line each need one entry. In `api_streams`, two entries give one
that is replayed while the other is broadcast,
and a channel of one message is full in between; the archive and push parts are left to `audit`.
In `shutdown`, two servers are the least with one left behind by the error of another, and one
deploy is in progress, ends or begins at every step; its end and the signal each write an entry, so that one may be
archived by the other. In `config`, two changes let a save fail and a later
save of another key write both, and the second start reads what the first left; the interval 7 is
one that handlers and wizard accept and a start refuses.

**Initial states.** A project runs the registry's digests, was taken down, or was never
started (no image pulled).

**Deadlock.** The updater's poll loop can always start over, and its runs check for deadlock.
The others do not: they only wait for events, requests and ticks, so once the bounded
environment is quiet there is nothing to do, and after `shutdown`'s exit nothing is meant to happen.

**Fairness** (`FairSpec`). Weak fairness of the poll loop's start (its ticker
fires), of each goroutine (the scheduler runs it, and its HTTP and compose calls have
timeouts or end) and of each verifier (its grace period ends). Strong
fairness of the poll loop's registry call and of compose pull and up: a call that is
retried at every poll does not fail every time. Without it nothing would have to
be deployed.

`AuditLog`: weak fairness of each write under way; file calls return. `ApiStreams`: weak fairness of the
writers, broadcasters and handlers with their ticker; none of a client that connects or leaves, so a
dashboard catches up or stays away by itself. `Shutdown`: weak fairness of time, of the coordinator, the
managers and main; none of a deploy that ends, an operation that completes or a connection that
closes, which is the point of `SignalEnds`. `ConfigStore`: weak fairness of the handlers and checks, and
strong fairness of the cleanup: it competes with the poll ticker in one `select`, which Go resolves
at random, so polls that last longer than their interval do not keep it out for ever.

## Proofs

All theorems hold for every value of the constants that satisfies the named assumption of
the module (`ConstantsAssumption`, `AuditAssumption`, `StreamsAssumption`, ...). `StreamsAssumption` says that the
hub is attached to the log (`BroadcastEnabled`), which `NewAPI` does before anything is written.
Every safety invariant that a run checks is the subject of a theorem.

* `UpdaterProofs!TypeCorrect`, `HealerProofs!TypeCorrect`: `[]TypeOK`. The other
  proofs use them for the functions `pc`, `job`, `container`, ...
* `UpdaterProofs!GuardNeverLeaked`: `[]NoLeakedGuard`, in every configuration. The formula is
  inductive with `TypeOK`: whoever clears no flag hands the operation over.
* `UpdaterProofs!GuardCorrect`, `RollbackTagSafe`, `RollbackCorrect`: `GuardInv`,
  `RollbackTagIntact`, `RollbackRestores`, under `GuardedConfig` (no auto start, no drift, no forced
  redeploy: with them `OneOperation` is false, see finding 4). None of them is
  inductive alone. The inductive invariant `CycleInv` adds that no goroutine is ever
  where only the unguarded callers go (`NeverUnguarded`) and that at `compose up` of a rollback the
  local tags are those the retag set (`RetagHolds`), which ties the containers that
  come up to the digests the deploy saved. What they say of an image ends when another service of
  its repository writes the `:rollback` tag or, for `RollbackCorrect`, when the retag of
  its compose reference fails: the code notices neither (findings 2 and 3).
* `UpdaterProofs!UpdaterImplementsCycle`: `Spec => CycleSpec` under `GuardedConfig`. The mapping
  takes the phase from the goroutine that operates, `saved` from its locals and
  `running` from the containers; `Lose` is what another service or a failed retag does to `saved`: it may take
  away what a rollback puts back, and never replaces it. `CycleInv` makes that goroutine unique, so each
  action is a step of `DeployCycle` or a stutter.
* `HealerProofs!RestartsPaced`: `[]RestartPaced`, from `PacedInv`: while heal_cooldown has not passed and
  none of the three exceptions came, the cooldown runs. That is what the second restart is refused for.
* `HealerProofs!RecoveryNoticed`: `[]Recovered`, from `RecoveryInv`: with nothing
  lost, the last event on the stream says `healthy` whenever the container is, and
  when the stream is empty its handler has cleared the mark or is about to. The
  late checks can only clear the mark, so they cannot break it.
* `WardenProofs!LimitsAlwaysKept`: `[]LimitsKept`, from `HubInv`, which adds that a registered client
  is one whose handler streams: a client registered twice would be counted twice. The second
  look at the limits is what admission needs.
* `WardenProofs!WardenKeepsEvents`: `Spec => EventsKept`. `StoreInv` adds to `TypeOK` that the slots the
  ring counts hold entries (`Filled`), that a handler on its way to the store carries one (`Carried`),
  and that copy and file fit the ring (`Fits`). From it, `Store` on the ring is `Latest(Append(...))` on the
  sequence, wrapping included, and `LoadState` rebuilds the sequence that was saved.
* `WardenProofs!StreamsMissNothing`: `[]StreamComplete`, inductive with `StoreInv` and `HubInv`: each entry
  stored after a stream subscribed was written, is in its channel, was lost to a full channel, or is
  held by a goroutine between its store and its broadcast. Only requests and the heartbeat
  store, and neither forgets its entry before the broadcast.

* `ShutdownProofs!OperationsAlwaysAwaited`: `[]OperationsAwaited`, from `WaitHolds`: the channel of the wait is
  closed only under the flag, and the flag refuses whoever asks after it.
* `ShutdownProofs!BodyRunsOnce`: `[]OneShutdown`, from `OnceHolds`: nobody is past the call before the body
  begins, and the managers' results stand once they are there.
* `ShutdownProofs!CleanWhenNil`: `[]NilMeansClean`, which leaves out entries in archives and a log whose file was lost,
  as the code does (finding 14), from `CleanInv`: the servers before the current one are closed
  (`ServersHold`), the deploys that were awaited were known then and not begun again
  (`DeploysHold`), the result is that of all managers together (`ResultHolds`), and after a sync
  without error what was due and is still in the file is on the disk (`EntriesHold`).
* `AuditProofs!FileAlwaysBounded`: `[]FileBounded`. `LockHolds` says that the goroutine in a rotation has the lock and
  that there are no lines without a file; `CountHolds` that `eventCount` is never less than the whole
  lines, whatever failed but a count, and that a rotation leaves an empty file unless a rename failed.
* `AuditProofs!AnnouncedIsAcknowledged`: `[]OnlyAcknowledged`, inductive with `AuditTypeOK`.
* `ParserExists`, `ParsedIs`, `ParsedFaithful` are lemmas about the recursive function `Parsed`, which reads lines back: it
  is total, obeys its recursion, and returns the lines in order without the torn ones. The library's induction
  theorems are about operators, which the installed provers cannot instantiate, so they rest on `Induct` over
  a set, from the least element of a set of numbers (`Least`, from `WellFoundedInduction`).
* `AuditProofs!JournalAlwaysKept`: `[]JournalKept`. `WrittenOnce` and `Newest` say that the file holds the last
  entries that were acknowledged, each once. `Journal` is about those that left it: each archive's entries come
  before those of the next, none is missing behind one that is there, and one is missing at all only when
  the archives are a full set, which `CleanLeavesNewest` shows of the cleanup. A rotation would break that if it
  overwrote an archive, so `Crowd` (what is being written in a second fits into one file, together with what
  was) and `Paced` (the file begun by a rotation of this second holds no more than was written in it) show that
  no rotation finds an archive of its second (`OneRotation`). Both need the exceptions that `JournalKept` makes.
* `AuditProofs!LockIsReleased`: `[]HolderActs`, what `WriteReturns` needs besides fairness: whoever holds the lock of the log is
  a write whose next step waits for nobody, or a reader that panicked.
* `StreamsProofs!StreamsKeepTheLog`: the lemmas behind the theorems about the log are stated for `AuditStep`, a step of the
  log or the end of a broadcast, and every step of `ApiStreams` is one (`StreamAuditStep`), so the log keeps its promises
  among readers, broadcasts and signals.
* `StreamsProofs!StreamsHaveNoGap`: `[]NoGap`, from `NothingMissed`: what was acknowledged since the position of
  a registered client, replayed or not, is shown to it, in its channel, was dropped in front of it, or is with
  a goroutine that has to broadcast it. The crucial step is the replay: it shows a tail of the file, the file is a tail
  of what was acknowledged (`Newest`), and the lines of a file without torn ones are read back one by one
  (`RecentFaithful`). `Readings` carries that over the time between the opening under the lock and the reading: a
  reader's file holds what was acknowledged up to some entry, though it may have been renamed meanwhile.
* `StreamsProofs!StreamsRepeatOnlyOverlap`: `[]RepeatsOnlyOverlap`, from `ShownAtMost`: an entry that is not acknowledged is
  shown nowhere; after that it comes at most once by a replay, because the file has no entry twice, and at most
  once by the channel, because one goroutine broadcasts it.
* `StreamsProofs!DashboardsStayFresh`: `[]StatusFresh`, inductive with `StreamsInv`: the channel of one signal keeps the
  signal or holds an older one that was not taken yet, and both are answered with the state of a later moment.
* `WardenProofs!AgentsTellTheirStory`: `[]AgentStory`, from `StoryInv`: the last entry stored about an agent tells the state
  the store has, except while its next one is on its way to the log, when it tells the opposite. `CarryInv` says
  that heartbeat and store agree, and that only the heartbeat makes entries about agents.
* `WardenProofs!AgentsInOrder`: `[]AgentEventsInOrder`, from `OrderInv`: what a client is shown, the ring, the copy for the file
  and the file are in order and hold no number above `Top`, that of the entry the heartbeat has in hand or
  will make next.
* `ConfigProofs!AgentKeepsFileWhole`: `Spec => FileWhole`, from `TypeOK`: what a rename puts in place is a whole
  configuration.
* `ConfigProofs!AcknowledgedStaysStored`: `[]AcknowledgedStored`, from `OwedHolds`: what is owed is in the
  memory of a running agent and in the file, and no interval that is owed is zero, so that a
  start does not replace it by a default (`LoadKeeps`). A reference that is owed becomes its value in memory, and
  what is owed changes with it (`Outlives`).

Model-checked only: the liveness properties (`GuardReleased`, `NoRollbackLoop`, `UpdateSettles`, `WriteReturns`,
`StatusCatchesUp`, `SignalEnds`, `EntriesLeave`), which need fairness and `ENABLED`, and the expected violation.
The theorems rest on the model as the runs do: the bounds named in guards are part of `Spec`, those on the
environment can be any number, and the one on what is written in a second is what `JournalKept` needs.

## Findings

With a run that TLC finds violated:

1. `restart_ceiling`: 30 seconds after a restart a container that is still starting passes for
   recovered (`watcher/healer.go:260`) and the count of failed restarts is deleted, so
   `heal_max_restarts` is no ceiling for a container with a long start period.

Met while modelling, with the documents they contradict in `PROJECT.json`:

2. A rollback goes on when the retag of an image's compose reference fails (`watcher/updater.go:967`): it is
   logged, `compose up` runs the bad image, and the service is reported as rolled back. `RollbackRestores` is
   about the images whose reference was retagged.
3. The `:rollback` tag names a registry host and an image name, not a service or a tag (`watcher/updater.go:733`):
   services of one repository overwrite and remove each other's, and so do two tags in one deploy.
   `RollbackTagIntact` holds until another service does.
4. A forced redeploy ignores the result of `tryStartDeploy` (`watcher/api.go:1839`), so two operations
   run on a service. `overlap` shows that the flag is at least never left set.
5. A deploy of one image pulls and starts the whole project, with it the
   blocked digest of another image (`watcher/updater.go:749`).
6. `findContainerByProject` counts an exited container as running (`watcher/updater.go:1217`), and
   auto start never starts a service all of whose containers have exited.
7. A healthy event deletes the cooldown (`watcher/healer.go:354`), a restart that fails sets none, and a new process
   has none: two restarts can come within `heal_cooldown` of each other, which two documents exclude.
   `RestartPaced` names these three cases and holds in all others.
8. A container that was starting when dockward came up leaves the gauge at 0 after it turned
   healthy (`watcher/healer.go:377`).
9. The warden's `handleSSE` replays and then subscribes (`warden/sse.go:39`): an event in between
   reaches the client neither way. `StreamComplete` says what does hold.
10. The warden's ring is saved while the listener still accepts (`warden/server.go:68`), so an event
    that was answered with 204 after the save is gone after the restart.
11. `Recent` tests `l.file` before the lock and uses it under the lock (`audit/audit.go:258`): after a rotation
    that leaves nil it panics with the mutex held. `WriteReturns` names that case.
12. A rotation that cannot open the new file keeps its count (`audit/audit.go:156`), and one that is repeated
    within the second overwrites the archive. `JournalKept` names that fault.
13. The scanner of `New` stops at a line of 64 KB and its error is not asked for (`audit/audit.go:100`), so a start
    counts too few and the file outgrows its limit; `FileBounded` names that fault. In `Recent` the same line
    is an error (`audit/audit.go:273`), and no entry is returned until the next rotation.
14. The audit log's Shutdown reports success without a sync when a failed rotation left no file, and never syncs
    an archive (`audit/shutdown.go:16`). `NilMeansClean` names both.
15. The audit log does rotate (`audit/audit.go:132`), a replay after a rotation is empty
    (`watcher/api_sse.go:83`), and `GET /audit` answers oldest first (`watcher/api.go:768`), each against a document.
16. The end of an operation signals no dashboard (`watcher/api.go:133`); `StatusCatchesUp` shows that the ticker does.
17. Deploys begin during a shutdown and are cut off by the exit (`cmd/dockward/main.go:173`); the exit code is 0 when
    the coordinator failed; event streams are not disconnected (`watcher/api_shutdown.go:16`).
18. `Load` puts the values of environment variables into the configuration in memory and `Save` writes it
    (`config/save.go:18`): a reference in a webhook's headers or URL, or in the push settings, becomes the secret in
    the file. `AcknowledgedStored` tells the two apart.
19. The API and the wizard save a poll interval that the next start refuses (`watcher/api_config.go:61`); a new interval
    takes effect at the next start only (`watcher/updater.go:141`); the cleanup leaves entries of two maps,
    and those whose key begins with another service's name (`watcher/updater.go:167`).

## Not modelled

* The warden's configuration is read once at start: a pure function whose reference definition would be itself.
* The resource monitor is one goroutine with floating-point arithmetic on samples; beyond the cooldown of an alert
  there is no rule that a sequence of steps could break. The Docker health checker
  writes one record under a lock after each ping.
* Notifications, logging, the web pages, metrics counters and HTTP itself are output or keep no state
  another part reads. Handlers that only read are left out everywhere.
* Healer and updater act on one container, and the healer's restart may hit one that a deploy
  just created (`watcher/healer.go:142`). `Healer` has the deploys as environment and shows the
  interleaving; no document or comment forbids it, so there is no property to state over a
  composed model, whose state would be the product of the two largest modules.

## Plan

Done: the updater with its abstract cycle and refinement; the healer; hub and warden with the event log as
abstract specification; audit log, event streams, shutdown and configuration.

Every safety invariant the runs check is proved. Left for proofs: what the other
liveness properties need besides fairness, as `LockIsReleased` says it for `WriteReturns`.
