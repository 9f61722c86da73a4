------------------------------ MODULE ConfigStore ------------------------------
(***************************************************************************)
(* The agent's configuration: config/config.go and save.go, the handlers   *)
(* that change it (api_config.go), the wizard, another process that edits  *)
(* the same file, and what the updater keeps by service name               *)
(* (updater.go, Run and cleanupOldEntries).                                *)
(*                                                                         *)
(* A handler holds the lock of the configuration while it changes the      *)
(* memory, writes a temporary file and renames it.  It validates nothing:  *)
(* only Load does, at a start and in the wizard, and it drops the services *)
(* whose compose file is not there at that moment.  The wizard writes over *)
(* the file.  Either process may be killed at any step.                    *)
(*                                                                         *)
(* Of the settings, the poll interval, the statistics interval and the     *)
(* notifications are kept, and of a service whether its definition is      *)
(* valid.  Notifications hold a reference to an environment variable, the  *)
(* secret that a start puts in its place in memory, or neither.            *)
(***************************************************************************)
EXTENDS Naturals, FiniteSets

CONSTANTS
    Names,           \* service names
    Prefixes,        \* <<m, n>>: name m is a prefix of name n
    Torn,            \* a file that is not whole
    NoConfig,        \* the memory of a process that is not running
    PollIntervals,   \* poll intervals that are asked for
    StatsIntervals,  \* and statistics intervals
    MinPoll, MaxPoll, MinStats, DefaultPoll,
    Movable,         \* services whose compose file may go and come
    Definitions,     \* service definitions: "valid", "invalid", "silent"
    MaxChanges, MaxStarts, MaxSessions

Notifications == {"reference", "secret", "literal"}

\* A map of the services, and a configuration.
Services == UNION {[S -> Definitions] : S \in SUBSET Names}
Configs == [poll : Nat, stats : Nat, notifications : Notifications, services : Services]

ASSUME ConfigAssumption ==
    /\ Prefixes \subseteq Names \X Names
    /\ \A n \in Names : <<n, n>> \in Prefixes
    /\ PollIntervals \union StatsIntervals \union {MinPoll, MaxPoll, MinStats, DefaultPoll} \subseteq Nat
    /\ 0 < MinStats /\ MinStats <= MinPoll /\ MinPoll <= DefaultPoll /\ DefaultPoll <= MaxPoll
    /\ Movable \subseteq Names
    /\ Definitions \subseteq {"valid", "invalid", "silent"}
    /\ {MaxChanges, MaxStarts, MaxSessions} \subseteq Nat
    /\ {"poll", "stats", "notifications"} \cap Names = {}
    /\ Torn \notin Configs

VARIABLES
    disk,        \* the file: a configuration, or Torn
    mem,         \* the agent's configuration, or NoConfig
    agent,       \* "up", "down", or "failed": it did not start
    handler,     \* the step of the handler that holds the lock, and the key it changes
    wizard,      \* "idle", "editing" or "writing"
    copy,        \* the wizard's configuration
    missing,     \* services whose compose file is not there
    polling,     \* services of the poll's snapshot that are still to be checked
    triggered,   \* services whose triggered check is still to run
    checked,     \* keys of the updater's maps that are cleaned by name
    deployed,    \* and of the one that is cleaned by prefix
    changes, starts, sessions,
    owed         \* history: keys and the values acknowledged last to an API client;
                 \* "expanded" is a reference since a start

fileVars == <<disk, missing>>
agentVars == <<mem, agent, handler>>
wizardVars == <<wizard, copy>>
updaterVars == <<polling, triggered, checked, deployed>>
boundVars == <<changes, starts, sessions>>
vars == <<fileVars, agentVars, wizardVars, updaterVars, boundVars, owed>>

Idle == [step |-> "idle", key |-> "none"]

--------------------------------------------------------------------------------
(* Load *)

WithDefaults(c) ==
    LET poll == IF c.poll = 0 THEN DefaultPoll ELSE c.poll
    IN  [c EXCEPT !.poll = poll, !.stats = IF @ = 0 THEN poll ELSE @]

\* The checks of a service; a silent one passes none.
Valid(n, d) == d = "silent" \/ (d = "valid" /\ n \notin missing)

ValidServices(c) ==
    [n \in {m \in DOMAIN c.services : Valid(m, c.services[m])} |-> c.services[n]]

Dropped(c) == DOMAIN c.services \ DOMAIN ValidServices(c)

\* References to environment variables are replaced in memory.
Expanded(v) == IF v = "reference" THEN "secret" ELSE v

Loaded(c) ==
    [WithDefaults(c) EXCEPT !.services = ValidServices(c), !.notifications = Expanded(@)]

\* Global settings, an error in which is fatal.
Loads(c) ==
    /\ c # Torn
    /\ WithDefaults(c).poll \in MinPoll..MaxPoll
    /\ WithDefaults(c).stats >= MinStats

--------------------------------------------------------------------------------

Init ==
    /\ disk = [poll |-> DefaultPoll, stats |-> 0, notifications |-> "reference",
               services |-> [n \in {} |-> "valid"]]
    /\ missing = {}
    /\ mem = NoConfig /\ agent = "down" /\ handler = Idle
    /\ wizard = "idle" /\ copy = NoConfig
    /\ polling = {} /\ triggered = {} /\ checked = {} /\ deployed = {}
    /\ changes = 0 /\ starts = 0 /\ sessions = 0
    /\ owed = [k \in {} |-> 0]

\* A compose file appears or disappears.
ComposeFile(n) ==
    /\ n \in Movable
    /\ missing' = IF n \in missing THEN missing \ {n} ELSE missing \union {n}
    /\ UNCHANGED <<disk, agentVars, wizardVars, updaterVars, boundVars, owed>>

Forget(keys) == owed' = [k \in DOMAIN owed \ keys |-> owed[k]]

\* What a start leaves owed: a service that it drops is owed to nobody, for the next
\* save forgets it, and the next save writes what a reference stood for.
Outlives(keys) ==
    owed' = [k \in DOMAIN owed \ keys |->
                IF k = "notifications" /\ owed[k] = "reference" THEN "expanded" ELSE owed[k]]

Start ==
    /\ agent # "up" /\ starts < MaxStarts
    /\ starts' = starts + 1
    /\ IF Loads(disk)
       THEN /\ agent' = "up" /\ mem' = Loaded(disk)
            /\ polling' = DOMAIN mem'.services
            /\ Outlives(Dropped(disk))
       ELSE agent' = "failed" /\ UNCHANGED <<mem, polling, owed>>
    /\ UNCHANGED <<fileVars, handler, wizardVars, triggered, checked, deployed, changes, sessions>>

\* The process ends at any step: only the file remains.
Kill ==
    /\ agent = "up"
    /\ agent' = "down" /\ mem' = NoConfig /\ handler' = Idle
    /\ polling' = {} /\ triggered' = {} /\ checked' = {} /\ deployed' = {}
    /\ UNCHANGED <<fileVars, wizardVars, boundVars, owed>>

--------------------------------------------------------------------------------
(* The handlers *)

LockFree == agent = "up" /\ handler.step = "idle"

\* The lock is taken and the memory changed.
Change(key, config) ==
    /\ LockFree /\ changes < MaxChanges
    /\ changes' = changes + 1
    /\ mem' = config
    /\ handler' = [step |-> "changed", key |-> key]
    /\ Forget({key})
    /\ UNCHANGED <<fileVars, agent, wizardVars, updaterVars, starts, sessions>>

handlePutRegistry ==
    \E v \in PollIntervals : Change("poll", WithDefaults([mem EXCEPT !.poll = v]))

\* Mutant: the defaults are not applied.
handlePutMonitorPlain ==
    \E v \in StatsIntervals : Change("stats", [mem EXCEPT !.stats = v])

handlePutMonitor ==
    \E v \in StatsIntervals : Change("stats", WithDefaults([mem EXCEPT !.stats = v]))

handlePutNotifications ==
    \E v \in {"reference", "literal"} :
        Change("notifications", [mem EXCEPT !.notifications = v])

handleUpsertService(n) ==
    \E d \in Definitions :
        Change(n, WithDefaults([mem EXCEPT !.services =
                    [m \in DOMAIN mem.services \union {n} |->
                        IF m = n THEN d ELSE mem.services[m]]]))

handleDeleteService(n) ==
    /\ LockFree /\ n \in DOMAIN mem.services
    /\ Change(n, [mem EXCEPT !.services =
                    [m \in DOMAIN mem.services \ {n} |-> mem.services[m]]])

\* Mutant: the data goes to the file itself.
TempFileDirect == disk' = Torn

TempFile == UNCHANGED disk

\* Save: the temporary file is created, written and closed.
WriteTemp ==
    /\ handler.step = "changed"
    /\ handler' = [handler EXCEPT !.step = "written"]
    /\ TempFile
    /\ UNCHANGED <<missing, mem, agent, wizardVars, updaterVars, boundVars, owed>>

Value(c, key) ==
    CASE key = "poll" -> c.poll
      [] key = "stats" -> c.stats
      [] key = "notifications" -> c.notifications
      [] OTHER -> IF key \in DOMAIN c.services THEN c.services[key] ELSE "absent"

\* Mutant: the setting is saved beside the services that the file holds.
RenamedKeepsOld == IF disk = Torn THEN mem ELSE [mem EXCEPT !.services = disk.services]

Renamed == mem

\* The temporary file takes the name of the file: the change is acknowledged.
Rename ==
    /\ handler.step = "written"
    /\ disk' = Renamed
    /\ owed' = [k \in DOMAIN owed \union {handler.key} |->
                    IF k = handler.key THEN Value(mem, k) ELSE owed[k]]
    /\ handler' = Idle
    /\ UNCHANGED <<missing, mem, agent, wizardVars, updaterVars, boundVars>>

\* A step of Save failed: the answer is 500, and the memory stays changed.
SaveFails ==
    /\ handler.step \in {"changed", "written"}
    /\ handler' = Idle
    /\ UNCHANGED <<fileVars, mem, agent, wizardVars, updaterVars, boundVars, owed>>

--------------------------------------------------------------------------------
(* The wizard *)

\* A session starts with what Load makes of the file.
WizardLoad ==
    /\ wizard = "idle" /\ sessions < MaxSessions
    /\ Loads(disk)
    /\ sessions' = sessions + 1
    /\ wizard' = "editing" /\ copy' = Loaded(disk)
    /\ UNCHANGED <<fileVars, agentVars, updaterVars, changes, starts, owed>>

\* Any positive interval is taken, and services are added, replaced and removed.
Edits(c) ==
    {[c EXCEPT !.poll = v] : v \in PollIntervals \ {0}} \union
    {[c EXCEPT !.services = [m \in DOMAIN c.services \union {n} |->
                                IF m = n THEN d ELSE c.services[m]]] :
        n \in Names, d \in Definitions \ {"silent"}} \union
    {[c EXCEPT !.services = [m \in DOMAIN c.services \ {n} |-> c.services[m]]] :
        n \in DOMAIN c.services}

\* The choice "s": the file is truncated, and then written.
WizardTruncate ==
    /\ wizard = "editing"
    /\ copy' \in Edits(copy) \union {copy}
    /\ wizard' = "writing"
    /\ disk' = Torn
    /\ owed' = [k \in {} |-> 0]
    /\ UNCHANGED <<missing, agentVars, updaterVars, boundVars>>

WizardWrite ==
    /\ wizard = "writing"
    /\ disk' = copy
    /\ wizard' = "idle" /\ copy' = NoConfig
    /\ owed' = [k \in {} |-> 0]
    /\ UNCHANGED <<missing, agentVars, updaterVars, boundVars>>

\* The choice "q", or the wizard is killed.
WizardQuit ==
    /\ wizard # "idle"
    /\ wizard' = "idle" /\ copy' = NoConfig
    /\ UNCHANGED <<fileVars, agentVars, updaterVars, boundVars, owed>>

--------------------------------------------------------------------------------
(* The updater *)

\* A tick: the snapshot of the services, under the read lock.
Poll ==
    /\ LockFree /\ polling = {}
    /\ polling' = DOMAIN mem.services
    /\ UNCHANGED <<fileVars, agentVars, wizardVars, triggered, checked, deployed, boundVars, owed>>

\* A handler finds the service under the read lock; its check runs later.
Trigger(n) ==
    /\ LockFree /\ n \in DOMAIN mem.services
    /\ triggered' = triggered \union {n}
    /\ UNCHANGED <<fileVars, agentVars, wizardVars, polling, checked, deployed, boundVars, owed>>

\* A check, with the service as it was in the snapshot; it may deploy.
Recorded(n) ==
    /\ agent = "up"
    /\ checked' = checked \union {n}
    /\ deployed' \in {deployed, deployed \union {n}}
    /\ UNCHANGED <<fileVars, agentVars, wizardVars, boundVars, owed>>

PollCheck(n) == n \in polling /\ polling' = polling \ {n} /\ UNCHANGED triggered /\ Recorded(n)

TriggeredCheck(n) ==
    n \in triggered /\ triggered' = triggered \ {n} /\ UNCHANGED polling /\ Recorded(n)

\* Mutant: the keys are compared with those of the last poll.
CurrentServicesPolled == checked

CurrentServices == DOMAIN mem.services

\* Once an hour, in the goroutine of the poll.
cleanupOldEntries ==
    /\ LockFree /\ polling = {}
    /\ checked' = checked \cap CurrentServices
    /\ deployed' = {n \in deployed : \E m \in CurrentServices : <<m, n>> \in Prefixes}
    /\ UNCHANGED <<fileVars, agentVars, wizardVars, polling, triggered, boundVars, owed>>

--------------------------------------------------------------------------------

Handlers ==
    \/ handlePutRegistry \/ handlePutMonitor \/ handlePutNotifications
    \/ \E n \in Names : handleUpsertService(n) \/ handleDeleteService(n)
    \/ WriteTemp \/ Rename \/ SaveFails

WizardSteps == WizardLoad \/ WizardTruncate \/ WizardWrite \/ WizardQuit

Next ==
    \/ \E n \in Names : ComposeFile(n) \/ Trigger(n) \/ PollCheck(n) \/ TriggeredCheck(n)
    \/ Start \/ Kill \/ Handlers \/ WizardSteps \/ Poll \/ cleanupOldEntries

\* The goroutines of the updater run, and a handler ends.  The loop of Run takes
\* one of the tickers that are ready at random: polls that last longer than their
\* interval do not keep the cleanup out for ever.
Spec ==
    /\ Init /\ [][Next]_vars
    /\ SF_vars(cleanupOldEntries)
    /\ WF_vars(WriteTemp \/ Rename \/ SaveFails)
    /\ \A n \in Names : WF_vars(PollCheck(n)) /\ WF_vars(TriggeredCheck(n))

--------------------------------------------------------------------------------
(* Properties *)

Keys == {"poll", "stats", "notifications"} \union Names

TypeOK ==
    /\ disk \in Configs \union {Torn}
    /\ agent \in {"up", "down", "failed"}
    /\ IF agent = "up" THEN mem \in Configs /\ mem.poll > 0 /\ mem.stats > 0 ELSE mem = NoConfig
    /\ handler \in [step : {"idle", "changed", "written"}, key : Keys \union {"none"}]
    /\ handler.step # "idle" => agent = "up" /\ handler.key \in Keys
    /\ wizard \in {"idle", "editing", "writing"}
    /\ IF wizard = "idle" THEN copy = NoConfig ELSE copy \in Configs
    /\ DOMAIN owed \subseteq Keys
    /\ missing \union polling \union triggered \union checked \union deployed \subseteq Names

\* The agent never leaves the file torn, at whatever step it is killed: only the
\* wizard's writing does.
FileWhole == [][disk' = Torn => wizard' = "writing" \/ disk = Torn]_vars

Keeps(c, k) ==
    IF k = "notifications" /\ owed[k] = "expanded"
    THEN c.notifications \in {"reference", Expanded("reference")}
    ELSE Value(c, k) = owed[k]

\* A change that was acknowledged is in the file, whatever is killed, and whatever
\* saves of other changes fail or succeed later, until it is changed again, the
\* wizard writes the file, or a start drops the service as invalid.  A reference to
\* an environment variable is there as it was sent until the next start; a save
\* after that may write its value over it, and nothing else.
AcknowledgedStored ==
    disk # Torn => \A k \in DOMAIN owed : Keeps(disk, k)

\* The updater forgets a service that was removed, although checks that began
\* before run after a cleanup: its entry leaves, or a service whose name it
\* begins with keeps it.
EntriesLeave ==
    \A n \in Names :
        /\ n \in checked ~> (agent # "up" \/ n \notin checked \/ n \in DOMAIN mem.services)
        /\ n \in deployed ~> (\/ agent # "up" \/ n \notin deployed
                              \/ \E m \in DOMAIN mem.services : <<m, n>> \in Prefixes)
================================================================================
