----------------------------- MODULE ConfigProofs -----------------------------
(* Proofs about ConfigStore, for every value of the constants. *)
EXTENDS ConfigStore, TLAPS

USE ConfigAssumption
USE DEF vars, fileVars, agentVars, wizardVars, updaterVars, boundVars

--------------------------------------------------------------------------------
(* Configurations *)

LEMMA ServicesFacts ==
  ASSUME NEW s \in Services
  PROVE  /\ DOMAIN s \subseteq Names /\ \A n \in DOMAIN s : s[n] \in Definitions
         /\ \A S \in SUBSET DOMAIN s : [n \in S |-> s[n]] \in Services
         /\ \A n \in Names, d \in Definitions :
              [m \in DOMAIN s \union {n} |-> IF m = n THEN d ELSE s[m]] \in Services
<1>1. PICK D \in SUBSET Names : s \in [D -> Definitions]
  BY DEF Services
<1>2. DOMAIN s = D
  BY <1>1
<1>3. ASSUME NEW S \in SUBSET DOMAIN s PROVE [n \in S |-> s[n]] \in Services
  <2>1. [n \in S |-> s[n]] \in [S -> Definitions]
    BY <1>1, <1>2
  <2>2. S \in SUBSET Names
    BY <1>2
  <2> QED
    BY <2>1, <2>2 DEF Services
<1>4. ASSUME NEW n \in Names, NEW d \in Definitions
      PROVE  [m \in DOMAIN s \union {n} |-> IF m = n THEN d ELSE s[m]] \in Services
  <2>1. [m \in DOMAIN s \union {n} |-> IF m = n THEN d ELSE s[m]] \in [DOMAIN s \union {n} -> Definitions]
    BY <1>1, <1>2
  <2>2. DOMAIN s \union {n} \in SUBSET Names
    BY <1>2
  <2> QED
    BY <2>1, <2>2 DEF Services
<1> QED
  BY <1>1, <1>2, <1>3, <1>4

\* The defaults fill in what is zero and leave the rest as it is.
LEMMA DefaultsFilled ==
  ASSUME NEW c \in Configs
  PROVE  /\ WithDefaults(c) \in Configs
         /\ WithDefaults(c).poll > 0 /\ WithDefaults(c).stats > 0
         /\ c.poll # 0 => WithDefaults(c).poll = c.poll
         /\ c.stats # 0 => WithDefaults(c).stats = c.stats
         /\ WithDefaults(c).services = c.services
         /\ WithDefaults(c).notifications = c.notifications
<1>1. DefaultPoll \in Nat /\ DefaultPoll > 0
  OBVIOUS
<1>2. /\ c.poll \in Nat /\ c.stats \in Nat /\ c.notifications \in Notifications
      /\ c.services \in Services
  BY DEF Configs
<1> DEFINE poll == IF c.poll = 0 THEN DefaultPoll ELSE c.poll
           stats == IF c.stats = 0 THEN poll ELSE c.stats
<1>3. WithDefaults(c) = [poll |-> poll, stats |-> stats, notifications |-> c.notifications, services |-> c.services]
  <2>1. WithDefaults(c) = [[c EXCEPT !.poll = poll] EXCEPT !.stats = stats]
    BY DEF WithDefaults
  <2>2. c = [poll |-> c.poll, stats |-> c.stats, notifications |-> c.notifications, services |-> c.services]
    BY DEF Configs
  <2> QED
    BY <2>1, <2>2
<1>4. poll \in Nat /\ poll > 0 /\ stats \in Nat /\ stats > 0
  BY <1>1, <1>2
<1>5. (c.poll # 0 => poll = c.poll) /\ (c.stats # 0 => stats = c.stats)
  OBVIOUS
<1> HIDE DEF poll, stats
<1> QED
  BY <1>2, <1>3, <1>4, <1>5 DEF Configs

LEMMA ConfigChanges ==
  ASSUME NEW c \in Configs
  PROVE  /\ c.poll \in Nat /\ c.stats \in Nat /\ c.services \in Services
         /\ c.notifications \in Notifications
         /\ \A v \in Nat : [c EXCEPT !.poll = v] \in Configs /\ [c EXCEPT !.stats = v] \in Configs
         /\ \A v \in Notifications : [c EXCEPT !.notifications = v] \in Configs
         /\ \A s \in Services : [c EXCEPT !.services = s] \in Configs
BY DEF Configs

LEMMA LoadedTyped ==
  ASSUME NEW c \in Configs
  PROVE  /\ Loaded(c) \in Configs /\ Loaded(c).poll > 0 /\ Loaded(c).stats > 0
         /\ Loaded(c).poll = WithDefaults(c).poll /\ Loaded(c).stats = WithDefaults(c).stats
         /\ Loaded(c).services = ValidServices(c)
         /\ Loaded(c).notifications = Expanded(c.notifications)
<1>1. ValidServices(c) \in Services
  <2>1. {m \in DOMAIN c.services : Valid(m, c.services[m])} \in SUBSET DOMAIN c.services
    OBVIOUS
  <2> QED
    BY <2>1, ConfigChanges, ServicesFacts DEF ValidServices
<1>2. Expanded(c.notifications) \in Notifications
  BY ConfigChanges DEF Expanded, Notifications
<1> QED
  BY <1>1, <1>2, DefaultsFilled DEF Loaded, Configs

\* The two configurations agree on a key.
Agree(c, d, k) ==
  /\ k = "poll" => c.poll = d.poll
  /\ k = "stats" => c.stats = d.stats
  /\ k = "notifications" => c.notifications = d.notifications
  /\ k \in Names => /\ k \in DOMAIN c.services <=> k \in DOMAIN d.services
                    /\ k \in DOMAIN c.services => c.services[k] = d.services[k]

LEMMA AgreeValue ==
  ASSUME NEW c, NEW d, NEW k \in Keys, Agree(c, d, k)
  PROVE  Value(c, k) = Value(d, k)
BY DEF Agree, Keys, Value

\* What a handler leaves in the memory.
Changed(key, config) ==
  /\ config \in Configs /\ config.poll > 0 /\ config.stats > 0
  /\ key \in Keys
  /\ \A k \in Keys \ {key} : Value(config, k) = Value(mem, k)

LEMMA ChangedIf ==
  ASSUME NEW key \in Keys, NEW c \in Configs, c.poll > 0, c.stats > 0,
         key # "poll" => c.poll = mem.poll,
         key # "stats" => c.stats = mem.stats,
         key # "notifications" => c.notifications = mem.notifications,
         \A k \in Names \ {key} : /\ k \in DOMAIN c.services <=> k \in DOMAIN mem.services
                                  /\ k \in DOMAIN c.services => c.services[k] = mem.services[k]
  PROVE  Changed(key, c)
<1>1. ASSUME NEW k \in Keys \ {key} PROVE Value(c, k) = Value(mem, k)
  <2>1. Agree(c, mem, k)
    BY DEF Agree
  <2> QED
    BY <2>1, AgreeValue
<1> QED
  BY <1>1 DEF Changed

LEMMA SettingsChange ==
  ASSUME TypeOK, agent = "up"
  PROVE  /\ \A v \in PollIntervals : Changed("poll", WithDefaults([mem EXCEPT !.poll = v]))
         /\ \A v \in StatsIntervals : Changed("stats", WithDefaults([mem EXCEPT !.stats = v]))
         /\ \A v \in {"reference", "literal"} :
              Changed("notifications", [mem EXCEPT !.notifications = v])
<1>1. mem \in Configs /\ mem.poll > 0 /\ mem.stats > 0 /\ mem.poll \in Nat /\ mem.stats \in Nat
  BY ConfigChanges DEF TypeOK
<1>2. ASSUME NEW v \in PollIntervals PROVE Changed("poll", WithDefaults([mem EXCEPT !.poll = v]))
  <2> DEFINE c == [mem EXCEPT !.poll = v]
  <2>1. c \in Configs /\ c.stats = mem.stats /\ c.services = mem.services /\ c.notifications = mem.notifications
    BY <1>1, ConfigChanges DEF Configs
  <2> HIDE DEF c
  <2>2. Changed("poll", WithDefaults(c))
    BY <1>1, <2>1, DefaultsFilled, ChangedIf DEF Keys
  <2> QED
    BY <2>2 DEF c
<1>3. ASSUME NEW v \in StatsIntervals PROVE Changed("stats", WithDefaults([mem EXCEPT !.stats = v]))
  <2> DEFINE c == [mem EXCEPT !.stats = v]
  <2>1. c \in Configs /\ c.poll = mem.poll /\ c.services = mem.services /\ c.notifications = mem.notifications
    BY <1>1, ConfigChanges DEF Configs
  <2> HIDE DEF c
  <2>2. Changed("stats", WithDefaults(c))
    BY <1>1, <2>1, DefaultsFilled, ChangedIf DEF Keys
  <2> QED
    BY <2>2 DEF c
<1>4. ASSUME NEW v \in {"reference", "literal"} PROVE Changed("notifications", [mem EXCEPT !.notifications = v])
  <2> DEFINE c == [mem EXCEPT !.notifications = v]
  <2>1. c \in Configs /\ c.poll = mem.poll /\ c.stats = mem.stats /\ c.services = mem.services
    <3>1. v \in Notifications
      BY DEF Notifications
    <3> QED
      BY <1>1, <3>1, ConfigChanges DEF Configs
  <2> HIDE DEF c
  <2>2. Changed("notifications", c)
    BY <1>1, <2>1, DefaultsFilled, ChangedIf DEF Keys
  <2> QED
    BY <2>2 DEF c
<1> QED
  BY <1>2, <1>3, <1>4

LEMMA ServicesChange ==
  ASSUME TypeOK, agent = "up", NEW n \in Names
  PROVE  /\ \A d \in Definitions :
              Changed(n, WithDefaults([mem EXCEPT !.services =
                [m \in DOMAIN mem.services \union {n} |-> IF m = n THEN d ELSE mem.services[m]]]))
         /\ Changed(n, [mem EXCEPT !.services = [m \in DOMAIN mem.services \ {n} |-> mem.services[m]]])
<1>1. mem \in Configs /\ mem.poll > 0 /\ mem.stats > 0 /\ mem.poll \in Nat /\ mem.stats \in Nat
      /\ mem.services \in Services
  BY ConfigChanges DEF TypeOK
<1>2. ASSUME NEW d \in Definitions
      PROVE  Changed(n, WithDefaults([mem EXCEPT !.services = [m \in DOMAIN mem.services \union {n} |-> IF m = n THEN d ELSE mem.services[m]]]))
  <2> DEFINE s == [m \in DOMAIN mem.services \union {n} |-> IF m = n THEN d ELSE mem.services[m]]
             c == [mem EXCEPT !.services = s]
  <2>1. s \in Services
    BY <1>1, ServicesFacts
  <2>2. \A k \in Names \ {n} : /\ k \in DOMAIN s <=> k \in DOMAIN mem.services
                               /\ k \in DOMAIN s => s[k] = mem.services[k]
    OBVIOUS
  <2> HIDE DEF s
  <2>3. c \in Configs /\ c.poll = mem.poll /\ c.stats = mem.stats /\ c.notifications = mem.notifications /\ c.services = s
    BY <1>1, <2>1, ConfigChanges DEF Configs
  <2> HIDE DEF c
  <2> DEFINE e == WithDefaults(c)
  <2>5. /\ e \in Configs /\ e.poll = mem.poll /\ e.stats = mem.stats
        /\ e.notifications = mem.notifications /\ e.services = s
    BY <1>1, <2>3, DefaultsFilled
  <2> HIDE DEF e
  <2>6. Changed(n, e)
    BY <1>1, <2>2, <2>5, ChangedIf DEF Keys
  <2>4. Changed(n, WithDefaults(c))
    BY <2>6 DEF e
  <2> QED
    BY <2>4 DEF c, s
<1>3. Changed(n, [mem EXCEPT !.services = [m \in DOMAIN mem.services \ {n} |-> mem.services[m]]])
  <2> DEFINE s == [m \in DOMAIN mem.services \ {n} |-> mem.services[m]]
             c == [mem EXCEPT !.services = s]
  <2>1. s \in Services
    BY <1>1, ServicesFacts
  <2>2. \A k \in Names \ {n} : /\ k \in DOMAIN s <=> k \in DOMAIN mem.services
                               /\ k \in DOMAIN s => s[k] = mem.services[k]
    OBVIOUS
  <2> HIDE DEF s
  <2>3. c \in Configs /\ c.poll = mem.poll /\ c.stats = mem.stats /\ c.notifications = mem.notifications /\ c.services = s
    BY <1>1, <2>1, ConfigChanges DEF Configs
  <2> HIDE DEF c
  <2>4. Changed(n, c)
    BY <1>1, <2>2, <2>3, DefaultsFilled, ChangedIf DEF Keys
  <2> QED
    BY <2>4 DEF c, s
<1> QED
  BY <1>2, <1>3

\* The steps of the handlers that change the memory, in one form.
ChangeOf(key) == Change(key, mem') /\ Changed(key, mem')

LEMMA ChangeStep ==
  ASSUME TypeOK,
         \/ handlePutRegistry \/ handlePutMonitor \/ handlePutNotifications
         \/ \E n \in Names : handleUpsertService(n) \/ handleDeleteService(n)
  PROVE  \E key \in Keys : ChangeOf(key)
<1>1. agent = "up"
  BY DEF handlePutRegistry, handlePutMonitor, handlePutNotifications, handleUpsertService,
         handleDeleteService, Change, LockFree
<1>2. ASSUME NEW key, NEW c, Changed(key, c), Change(key, c)
      PROVE  \E k \in Keys : ChangeOf(k)
  <2>1. mem' = c /\ key \in Keys
    BY <1>2 DEF Change, Changed
  <2> QED
    BY <1>2, <2>1 DEF ChangeOf
<1>3. CASE handlePutRegistry
  BY <1>1, <1>2, <1>3, SettingsChange, Zenon DEF handlePutRegistry
<1>4. CASE handlePutMonitor
  BY <1>1, <1>2, <1>4, SettingsChange, Zenon DEF handlePutMonitor
<1>5. CASE handlePutNotifications
  BY <1>1, <1>2, <1>5, SettingsChange, Zenon DEF handlePutNotifications
<1>6. ASSUME NEW n \in Names, handleUpsertService(n) PROVE \E key \in Keys : ChangeOf(key)
  BY <1>1, <1>2, <1>6, ServicesChange, Zenon DEF handleUpsertService
<1>7. ASSUME NEW n \in Names, handleDeleteService(n) PROVE \E key \in Keys : ChangeOf(key)
  BY <1>1, <1>2, <1>7, ServicesChange, Zenon DEF handleDeleteService
<1> QED
  BY <1>3, <1>4, <1>5, <1>6, <1>7

LEMMA EditsTyped ==
  ASSUME NEW c \in Configs
  PROVE  Edits(c) \subseteq Configs
<1>1. c.services \in Services
  BY ConfigChanges
<1>2. ASSUME NEW v \in PollIntervals PROVE [c EXCEPT !.poll = v] \in Configs
  BY ConfigChanges
<1>3. ASSUME NEW n \in Names, NEW d \in Definitions
      PROVE  [c EXCEPT !.services = [m \in DOMAIN c.services \union {n} |->
                                       IF m = n THEN d ELSE c.services[m]]] \in Configs
  <2> DEFINE s == [m \in DOMAIN c.services \union {n} |-> IF m = n THEN d ELSE c.services[m]]
  <2>1. s \in Services
    BY <1>1, ServicesFacts
  <2> HIDE DEF s
  <2>2. [c EXCEPT !.services = s] \in Configs
    BY <2>1, ConfigChanges
  <2> QED
    BY <2>2 DEF s
<1>4. ASSUME NEW n \in DOMAIN c.services
      PROVE  [c EXCEPT !.services = [m \in DOMAIN c.services \ {n} |-> c.services[m]]] \in Configs
  <2>1. DOMAIN c.services \ {n} \in SUBSET DOMAIN c.services
    OBVIOUS
  <2> QED
    BY <1>1, <2>1, ServicesFacts, ConfigChanges
<1> DEFINE Interval(v) == [c EXCEPT !.poll = v]
           Put(n, d) == [c EXCEPT !.services = [m \in DOMAIN c.services \union {n} |->
                                                  IF m = n THEN d ELSE c.services[m]]]
           Delete(n) == [c EXCEPT !.services = [m \in DOMAIN c.services \ {n} |-> c.services[m]]]
<1>5. Edits(c) = {Interval(v) : v \in PollIntervals \ {0}} \union
                 {Put(n, d) : n \in Names, d \in Definitions \ {"silent"}} \union
                 {Delete(n) : n \in DOMAIN c.services}
  BY DEF Edits
<1>6. /\ \A v \in PollIntervals : Interval(v) \in Configs
      /\ \A n \in Names, d \in Definitions : Put(n, d) \in Configs
      /\ \A n \in DOMAIN c.services : Delete(n) \in Configs
  BY <1>2, <1>3, <1>4
<1> HIDE DEF Interval, Put, Delete
<1> QED
  BY <1>5, <1>6

--------------------------------------------------------------------------------
(* Types *)

LEMMA TypeStep ==
  ASSUME TypeOK, [Next]_vars
  PROVE  TypeOK'
<1>1. ASSUME NEW n \in Names, ComposeFile(n) PROVE TypeOK'
  BY <1>1 DEF ComposeFile, TypeOK
<1>2. ASSUME NEW n \in Names, Trigger(n) PROVE TypeOK'
  BY <1>2 DEF Trigger, TypeOK
<1>3. ASSUME NEW n \in Names, PollCheck(n) \/ TriggeredCheck(n) PROVE TypeOK'
  BY <1>3 DEF PollCheck, TriggeredCheck, Recorded, TypeOK
<1>4. CASE Start
  <2>1. CASE Loads(disk)
    <3>1. disk \in Configs
      BY <2>1 DEF Loads, TypeOK
    <3>2. agent' = "up" /\ mem' = Loaded(disk) /\ polling' = DOMAIN mem'.services
      BY <1>4, <2>1 DEF Start
    <3>3. mem' \in Configs /\ mem'.poll > 0 /\ mem'.stats > 0
      BY <3>1, <3>2, LoadedTyped
    <3>4. polling' \subseteq Names
      BY <3>2, <3>3, ConfigChanges, ServicesFacts
    <3>5. DOMAIN owed' \subseteq DOMAIN owed
      BY <1>4, <2>1 DEF Start, Outlives
    <3>6. UNCHANGED <<fileVars, handler, wizardVars, triggered, checked, deployed>>
      BY <1>4 DEF Start
    <3> QED
      BY <3>2, <3>3, <3>4, <3>5, <3>6 DEF TypeOK
  <2>2. CASE ~Loads(disk)
    BY <1>4, <2>2 DEF Start, TypeOK
  <2> QED
    BY <2>1, <2>2
<1>5. CASE Kill
  BY <1>5 DEF Kill, TypeOK, Idle
<1>6. CASE \/ handlePutRegistry \/ handlePutMonitor \/ handlePutNotifications
           \/ \E n \in Names : handleUpsertService(n) \/ handleDeleteService(n)
  <2>1. PICK key \in Keys : Change(key, mem') /\ Changed(key, mem')
    BY <1>6, ChangeStep DEF ChangeOf
  <2>2. /\ agent = "up" /\ handler' = [step |-> "changed", key |-> key]
        /\ UNCHANGED <<fileVars, agent, wizardVars, updaterVars>>
    BY <2>1 DEF Change, LockFree
  <2>3. DOMAIN owed' \subseteq DOMAIN owed
    BY <2>1 DEF Change, Forget
  <2>4. mem' \in Configs /\ mem'.poll > 0 /\ mem'.stats > 0
    BY <2>1 DEF Changed
  <2> QED
    BY <2>2, <2>3, <2>4 DEF TypeOK
<1>7. CASE WriteTemp
  BY <1>7 DEF WriteTemp, TempFile, TypeOK
<1>8. CASE Rename
  <2>1. agent = "up" /\ handler.key \in Keys
    BY <1>8 DEF Rename, TypeOK
  <2>2. disk' = mem /\ mem \in Configs
    BY <1>8, <2>1 DEF Rename, Renamed, TypeOK
  <2>3. DOMAIN owed' = DOMAIN owed \union {handler.key}
    BY <1>8 DEF Rename
  <2>4. DOMAIN owed' \subseteq Keys
    BY <2>1, <2>3 DEF TypeOK
  <2>5. handler' = Idle /\ UNCHANGED <<missing, mem, agent, wizardVars, updaterVars>>
    BY <1>8 DEF Rename
  <2> QED
    BY <2>2, <2>4, <2>5 DEF TypeOK, Idle
<1>9. CASE SaveFails
  BY <1>9 DEF SaveFails, TypeOK, Idle
<1>10. CASE WizardLoad
  <2>3. wizard' = "editing" /\ UNCHANGED <<fileVars, agentVars, updaterVars, owed>>
    BY <1>10 DEF WizardLoad
  <2>1. disk \in Configs
    BY <1>10 DEF WizardLoad, Loads, TypeOK
  <2>2. copy' \in Configs
    BY <1>10, <2>1, LoadedTyped DEF WizardLoad
  <2> QED
    BY <2>2, <2>3 DEF TypeOK
<1>11. CASE WizardTruncate
  <2>1. copy' \in Configs
    BY <1>11, EditsTyped DEF WizardTruncate, TypeOK
  <2>2. DOMAIN owed' = {}
    BY <1>11 DEF WizardTruncate
  <2> QED
    BY <1>11, <2>1, <2>2 DEF WizardTruncate, TypeOK
<1>12. CASE WizardWrite
  <2>1. DOMAIN owed' = {}
    BY <1>12 DEF WizardWrite
  <2> QED
    BY <1>12, <2>1 DEF WizardWrite, TypeOK
<1>13. CASE WizardQuit
  BY <1>13 DEF WizardQuit, TypeOK
<1>14. CASE Poll
  <2>1. DOMAIN mem.services \subseteq Names
    BY <1>14, ConfigChanges, ServicesFacts DEF Poll, LockFree, TypeOK
  <2> QED
    BY <1>14, <2>1 DEF Poll, TypeOK
<1>15. CASE cleanupOldEntries
  BY <1>15 DEF cleanupOldEntries, TypeOK
<1>16. CASE UNCHANGED vars
  BY <1>16 DEF TypeOK
<1> QED
  BY <1>1, <1>2, <1>3, <1>4, <1>5, <1>6, <1>7, <1>8, <1>9, <1>10, <1>11, <1>12, <1>13, <1>14, <1>15, <1>16
  DEF Next, Handlers, WizardSteps

\* Every variable stays in its range, and the intervals of a running agent are
\* never zero (ConfigStore, TypeOK).
THEOREM TypeCorrect == Spec => []TypeOK
<1>1. Init => TypeOK
  <2> SUFFICES ASSUME Init PROVE TypeOK
    OBVIOUS
  <2>1. [n \in {} |-> "valid"] \in Services
    <3>1. [n \in {} |-> "valid"] \in [{} -> Definitions]
      OBVIOUS
    <3> QED
      BY <3>1 DEF Services
  <2>2. disk \in Configs
    BY <2>1 DEF Init, Configs, Notifications
  <2>3. DOMAIN owed = {}
    BY DEF Init
  <2> QED
    BY <2>2, <2>3 DEF Init, TypeOK, Idle
<1> QED
  BY <1>1, TypeStep, PTL DEF Spec

--------------------------------------------------------------------------------
(* The file *)

\* The agent replaces the file by a whole one, never by a part of it
\* (ConfigStore, FileWhole).
THEOREM AgentKeepsFileWhole == Spec => FileWhole
<1>1. TypeOK /\ [Next]_vars => [disk' = Torn => wizard' = "writing" \/ disk = Torn]_vars
  <2> SUFFICES ASSUME TypeOK, Next, disk' = Torn, disk # Torn PROVE wizard' = "writing"
    OBVIOUS
  <2>1. CASE Rename
    BY <2>1 DEF Rename, Renamed, TypeOK
  <2>2. CASE WizardTruncate
    BY <2>2 DEF WizardTruncate
  <2>3. CASE WizardWrite
    BY <2>3 DEF WizardWrite, TypeOK
  <2>4. CASE Start \/ Kill \/ Poll \/ cleanupOldEntries \/ WizardLoad \/ WizardQuit \/ WriteTemp \/ SaveFails
    BY <2>4 DEF Start, Kill, Poll, cleanupOldEntries, WizardLoad, WizardQuit, WriteTemp, TempFile, SaveFails
  <2>5. ASSUME NEW n \in Names, ComposeFile(n) \/ Trigger(n) \/ PollCheck(n) \/ TriggeredCheck(n)
        PROVE  wizard' = "writing"
    BY <2>5 DEF ComposeFile, Trigger, PollCheck, TriggeredCheck, Recorded
  <2>6. CASE \/ handlePutRegistry \/ handlePutMonitor \/ handlePutNotifications
             \/ \E n \in Names : handleUpsertService(n) \/ handleDeleteService(n)
    BY <2>6, ChangeStep DEF ChangeOf, Change
  <2> QED
    BY <2>1, <2>2, <2>3, <2>4, <2>5, <2>6 DEF Next, Handlers, WizardSteps
<1> QED
  BY <1>1, TypeCorrect, PTL DEF Spec, FileWhole

--------------------------------------------------------------------------------
(* Acknowledged changes *)

\* What is owed is in the memory of a running agent, and in a file that is
\* whole; an interval that is owed is not zero, so that a start keeps it.
OwedHolds ==
  /\ disk # Torn => \A k \in DOMAIN owed : Keeps(disk, k)
  /\ agent = "up" => \A k \in DOMAIN owed : Keeps(mem, k)
  /\ \A k \in DOMAIN owed : k \in {"poll", "stats"} => owed[k] # 0

\* A start keeps every value, except of what it drops and what it expands.
LEMMA LoadKeeps ==
  ASSUME NEW c \in Configs, NEW k \in Keys, k \notin Dropped(c),
         k \in {"poll", "stats"} => Value(c, k) # 0
  PROVE  Value(Loaded(c), k) = IF k = "notifications" THEN Expanded(Value(c, k)) ELSE Value(c, k)
<1>1. /\ Loaded(c).poll = WithDefaults(c).poll /\ Loaded(c).stats = WithDefaults(c).stats
      /\ Loaded(c).services = ValidServices(c)
      /\ Loaded(c).notifications = Expanded(c.notifications)
  BY LoadedTyped
<1>2. CASE k = "poll"
  BY <1>1, <1>2, DefaultsFilled DEF Value
<1>3. CASE k = "stats"
  BY <1>1, <1>3, DefaultsFilled DEF Value
<1>4. CASE k = "notifications"
  BY <1>1, <1>4 DEF Value
<1>5. CASE k \in Names
  <2>1. k \notin {"poll", "stats", "notifications"}
    BY <1>5
  <2>2. k \in DOMAIN ValidServices(c) <=> k \in DOMAIN c.services
    BY DEF Dropped, ValidServices
  <2>3. k \in DOMAIN ValidServices(c) => ValidServices(c)[k] = c.services[k]
    BY DEF ValidServices
  <2> QED
    BY <1>1, <2>1, <2>2, <2>3 DEF Value
<1> QED
  BY <1>2, <1>3, <1>4, <1>5 DEF Keys

\* What a step leaves owed is kept by a configuration with the same value.
LEMMA KeepsFrame ==
  ASSUME NEW c, NEW d, NEW k, Value(d, k) = Value(c, k), owed'[k] = owed[k], Keeps(c, k)
  PROVE  IF k = "notifications" /\ owed'[k] = "expanded"
         THEN d.notifications \in {"reference", Expanded("reference")}
         ELSE Value(d, k) = owed'[k]
<1>1. k = "notifications" => Value(d, k) = d.notifications /\ Value(c, k) = c.notifications
  BY DEF Value
<1> QED
  BY <1>1 DEF Keeps

\* A step that leaves the file and what is owed, and the memory of an agent that runs.
LEMMA OwedFrame ==
  ASSUME OwedHolds, UNCHANGED <<disk, owed>>, agent' = "up" => agent = "up" /\ mem' = mem
  PROVE  OwedHolds'
<1>1. \A k \in DOMAIN owed' : Keeps(disk, k) => Keeps(disk, k)'
  BY DEF Keeps
<1>2. agent' = "up" => \A k \in DOMAIN owed' : Keeps(mem, k) => Keeps(mem, k)'
  BY DEF Keeps
<1>3. \A k \in DOMAIN owed' : k \in DOMAIN owed /\ owed'[k] = owed[k]
  OBVIOUS
<1> QED
  BY <1>1, <1>2, <1>3 DEF OwedHolds

LEMMA OwedStep ==
  ASSUME TypeOK, OwedHolds, [Next]_vars
  PROVE  OwedHolds'
<1>1. CASE Start
  <2>1. CASE Loads(disk)
    <3>1. disk \in Configs /\ disk # Torn
      BY <2>1 DEF Loads, TypeOK
    <3>2. /\ mem' = Loaded(disk) /\ disk' = disk
          /\ owed' = [k \in DOMAIN owed \ Dropped(disk) |->
                        IF k = "notifications" /\ owed[k] = "reference" THEN "expanded" ELSE owed[k]]
      BY <1>1, <2>1 DEF Start, Outlives
    <3>3. ASSUME NEW k \in DOMAIN owed'
          PROVE  /\ Keeps(disk, k)' /\ Keeps(mem, k)'
                 /\ k \in {"poll", "stats"} => owed'[k] # 0
      <4>1. k \in DOMAIN owed /\ k \in Keys /\ k \notin Dropped(disk) /\ Keeps(disk, k)
        BY <3>1, <3>2 DEF TypeOK, OwedHolds
      <4>2. CASE k = "notifications"
        <5>1. /\ Value(disk, k) = disk.notifications
              /\ Loaded(disk).notifications = Expanded(disk.notifications)
          BY <3>1, <4>2, LoadedTyped DEF Value
        <5>2. owed'[k] = IF owed[k] = "reference" THEN "expanded" ELSE owed[k]
          BY <3>2, <4>2
        <5>3. disk.notifications \in Notifications
          BY <3>1, ConfigChanges
        <5>4. Keeps(disk, k) <=> IF owed[k] = "expanded" THEN disk.notifications \in {"reference", "secret"}
                                 ELSE disk.notifications = owed[k]
          BY <4>2, <5>1 DEF Keeps, Expanded
        <5>5. /\ Keeps(disk, k)' <=> IF owed'[k] = "expanded" THEN disk.notifications \in {"reference", "secret"}
                                     ELSE disk.notifications = owed'[k]
              /\ Keeps(mem, k)' <=> IF owed'[k] = "expanded" THEN Expanded(disk.notifications) \in {"reference", "secret"}
                                    ELSE Expanded(disk.notifications) = owed'[k]
          BY <3>2, <4>2, <5>1 DEF Keeps, Value, Expanded
        <5> QED
          BY <4>1, <4>2, <5>2, <5>3, <5>4, <5>5 DEF Expanded, Notifications
      <4>3. CASE k # "notifications"
        <5>1. owed'[k] = owed[k]
          BY <3>2, <4>3
        <5>2. Value(disk, k) = owed[k] /\ (k \in {"poll", "stats"} => owed[k] # 0)
          BY <4>1, <4>3 DEF Keeps, OwedHolds
        <5>3. Value(Loaded(disk), k) = owed[k]
          BY <3>1, <4>1, <4>3, <5>2, LoadKeeps
        <5> QED
          BY <3>2, <4>3, <5>1, <5>2, <5>3 DEF Keeps
      <4> QED
        BY <4>2, <4>3
    <3>4. /\ disk' # Torn => \A k \in DOMAIN owed' : Keeps(disk, k)'
          /\ agent' = "up" => \A k \in DOMAIN owed' : Keeps(mem, k)'
          /\ \A k \in DOMAIN owed' : k \in {"poll", "stats"} => owed'[k] # 0
      BY <3>3
    <3> QED
      BY <3>4 DEF OwedHolds
  <2>2. CASE ~Loads(disk)
    <3>1. disk' = disk /\ owed' = owed /\ agent' = "failed"
      BY <1>1, <2>2 DEF Start, fileVars
    <3> QED
      BY <3>1, OwedFrame
  <2> QED
    BY <2>1, <2>2
<1>2. CASE \/ handlePutRegistry \/ handlePutMonitor \/ handlePutNotifications
           \/ \E n \in Names : handleUpsertService(n) \/ handleDeleteService(n)
  <2>1. PICK key \in Keys : Change(key, mem') /\ Changed(key, mem')
    BY <1>2, ChangeStep DEF ChangeOf
  <2>2. agent = "up" /\ disk' = disk /\ owed' = [k \in DOMAIN owed \ {key} |-> owed[k]]
    BY <2>1 DEF Change, LockFree, Forget
  <2>3. \A k \in DOMAIN owed' : k \in DOMAIN owed /\ k \in Keys \ {key} /\ owed'[k] = owed[k]
    BY <2>2 DEF TypeOK
  <2>4. ASSUME NEW k \in DOMAIN owed' PROVE (disk' # Torn => Keeps(disk, k)') /\ Keeps(mem, k)'
    <3>1. Keeps(mem, k) /\ (disk # Torn => Keeps(disk, k)) /\ Value(mem', k) = Value(mem, k)
      BY <2>1, <2>2, <2>3 DEF Changed, OwedHolds
    <3>2. disk' # Torn => Keeps(disk, k)'
      BY <2>2, <2>3, <3>1, KeepsFrame DEF Keeps
    <3>3. Keeps(mem, k)'
      BY <2>3, <3>1, KeepsFrame DEF Keeps
    <3> QED
      BY <3>2, <3>3
  <2> QED
    BY <2>2, <2>3, <2>4 DEF OwedHolds
<1>3. CASE Rename
  <2>1. /\ disk' = mem /\ mem' = mem /\ agent = "up"
        /\ owed' = [k \in DOMAIN owed \union {handler.key} |->
                      IF k = handler.key THEN Value(mem, k) ELSE owed[k]]
    BY <1>3 DEF Rename, Renamed, TypeOK
  <2>2. ASSUME NEW k \in DOMAIN owed'
        PROVE  Keeps(mem, k)' /\ (k \in {"poll", "stats"} => owed'[k] # 0)
    <3>1. CASE k = handler.key
      <4>1. owed'[k] = Value(mem, k)
        BY <2>1, <3>1
      <4>2. mem.notifications \in Notifications /\ mem.poll # 0 /\ mem.stats # 0
        BY <2>1, ConfigChanges DEF TypeOK
      <4>3. k = "notifications" => owed'[k] # "expanded"
        BY <4>1, <4>2 DEF Value, Notifications
      <4>4. k \in {"poll", "stats"} => owed'[k] # 0
        BY <4>1, <4>2 DEF Value
      <4> QED
        BY <2>1, <4>1, <4>3, <4>4 DEF Keeps
    <3>2. CASE k # handler.key
      <4>1. k \in DOMAIN owed /\ owed'[k] = owed[k]
        BY <2>1, <3>2
      <4>2. Keeps(mem, k) /\ (k \in {"poll", "stats"} => owed[k] # 0)
        BY <2>1, <4>1 DEF OwedHolds
      <4>3. Keeps(mem, k)'
        BY <2>1, <4>1, <4>2, KeepsFrame DEF Keeps
      <4> QED
        BY <4>1, <4>2, <4>3
    <3> QED
      BY <3>1, <3>2
  <2>3. \A k \in DOMAIN owed' : Keeps(disk, k)'
    BY <2>1, <2>2 DEF Keeps
  <2> QED
    BY <2>2, <2>3 DEF OwedHolds
<1>4. CASE WizardTruncate \/ WizardWrite
  <2>1. DOMAIN owed' = {}
    BY <1>4 DEF WizardTruncate, WizardWrite
  <2> QED
    BY <2>1 DEF OwedHolds
<1>5. CASE Kill
  <2>1. disk' = disk /\ owed' = owed /\ agent' = "down"
    BY <1>5 DEF Kill, fileVars
  <2> QED
    BY <2>1, OwedFrame
<1>6. CASE UNCHANGED <<disk, mem, agent, owed>>
  BY <1>6, OwedFrame
<1>7. /\ WriteTemp \/ SaveFails \/ WizardLoad \/ WizardQuit \/ Poll \/ cleanupOldEntries =>
           UNCHANGED <<disk, mem, agent, owed>>
      /\ \A n \in Names : ComposeFile(n) \/ Trigger(n) \/ PollCheck(n) \/ TriggeredCheck(n) =>
           UNCHANGED <<disk, mem, agent, owed>>
  BY DEF WriteTemp, TempFile, SaveFails, WizardLoad, WizardQuit, Poll, cleanupOldEntries, ComposeFile,
         Trigger, PollCheck, TriggeredCheck, Recorded
<1> QED
  BY <1>1, <1>2, <1>3, <1>4, <1>5, <1>6, <1>7 DEF Next, Handlers, WizardSteps

\* A change that a client was told is saved stays in the file until it is changed
\* again, the wizard writes, or a start drops the service (ConfigStore,
\* AcknowledgedStored).
THEOREM AcknowledgedStaysStored == Spec => []AcknowledgedStored
<1>1. Init => OwedHolds
  <2> SUFFICES ASSUME Init PROVE OwedHolds
    OBVIOUS
  <2>1. DOMAIN owed = {}
    BY DEF Init
  <2> QED
    BY <2>1 DEF OwedHolds
<1>2. TypeOK /\ OwedHolds /\ [Next]_vars => OwedHolds'
  BY OwedStep
<1>3. OwedHolds => AcknowledgedStored
  BY DEF OwedHolds, AcknowledgedStored
<1> QED
  BY <1>1, <1>2, <1>3, TypeCorrect, PTL DEF Spec
================================================================================
