--------------------------------- MODULE Warden ---------------------------------
(***************************************************************************)
(* The warden: warden/store.go, ingest.go, heartbeat.go, sse.go and        *)
(* server.go, over the hub of hub/.                                        *)
(*                                                                         *)
(* Requests to /ingest, one heartbeat goroutine and one handler for each   *)
(* event stream share the store and the hub, each behind its own mutex: a  *)
(* step is one call of either.  The main goroutine goes through the phases *)
(* of the process.  While no process runs the store keeps the values it    *)
(* ended with, so that the next start can be compared with them.           *)
(***************************************************************************)
EXTENDS Hub

CONSTANTS
    Requests,     \* POST /ingest requests handled at once
    NumAgents,    \* agents of the configuration, polled in this order (without any, nobody may push)
    RingSize,     \* ringSize (200 in the code)
    ReplaySize,   \* events a new stream is shown (50 in the code)
    Faults,       \* of {"save", "kill"}: what the environment does
    MaxPushes,    \* bound: entries the agents push
    MaxRounds,    \* bound: rounds of the heartbeat after the first of a process
    MaxStops,     \* bound: ends of the process
    NoEntry, Broken

ASSUME WardenAssumption ==
    /\ {NumAgents, RingSize, ReplaySize} \subseteq Nat \ {0}
    /\ {MaxPushes, MaxRounds, MaxStops} \subseteq Nat
    /\ ReplaySize <= RingSize
    /\ Faults \subseteq {"save", "kill"}

VARIABLES
    \* Store.
    events, head, count,   \* the ring: slots, next slot to write, entries in it
    agentOnline,           \* AgentState.Online
    \* Goroutines.
    ipc, posted,           \* ingest requests and the entry each brought
    hpc, at, online, news, \* heartbeat: agent being polled, its map, entry it made
    spc, seen,             \* event streams and what each was written
    phase,                 \* of the main goroutine, or how the process ended
    saved,                 \* SaveState's copy of the ring, oldest first
    file,                  \* state_path
    made, pushes, rounds, stops,
    \* History of this process.
    log,                   \* entries stored, in order
    joined                 \* length of log when a stream subscribed

ringVars == <<events, head, count>>
ingestVars == <<ipc, posted, pushes>>
heartVars == <<hpc, at, online, news, rounds>>
streamVars == <<spc, seen, joined>>
mainVars == <<phase, saved, file, stops>>
vars == <<hubVars, ringVars, agentOnline, ingestVars, heartVars, streamVars, mainVars, made, log>>

Agents == 1 .. NumAgents
Slots == 0 .. RingSize - 1
EntryKinds == {"pushed", "agent_online", "agent_offline"}
\* An audit entry: number stands for its timestamp and text, machine is 0 where it does not matter.
Entry == [event : EntryKinds, machine : {0} \union Agents, number : Nat]

Phases == {"running", "cancelled", "saving", "writing", "draining", "down"}
Alive == phase # "down"
\* http.Server accepts connections until Shutdown is called.
Accepting == phase \in {"running", "cancelled", "saving", "writing"}

RingOK ==
    /\ events \in [Slots -> Entry \union {NoEntry}]
    /\ head \in Slots
    /\ count \in 0 .. RingSize

IngestOK ==
    /\ ipc \in [Requests -> {"idle", "store", "broadcast"}]
    /\ posted \in [Requests -> Entry \union {NoEntry}]
    /\ pushes \in 0 .. MaxPushes

HeartOK ==
    /\ hpc \in {"wait", "poll", "store", "broadcast", "ended"}
    /\ at \in Agents
    /\ {online, agentOnline} \subseteq [Agents -> BOOLEAN]
    /\ news \in Entry \union {NoEntry}
    /\ rounds \in 0 .. MaxRounds

StreamOK ==
    /\ clients \subseteq Clients
    /\ channel \in [Clients -> Seq(Entry)]
    /\ dropped \in [Clients -> SUBSET Entry]
    /\ spc \in [Clients -> {"off", "check", "subscribe", "stream"}]
    /\ seen \in [Clients -> Seq(Entry)]
    /\ joined \in [Clients -> Nat]
    /\ log \in Seq(Entry)

MainOK ==
    /\ phase \in Phases
    /\ saved \in Seq(Entry)
    /\ file \in Seq(Entry) \union {Broken}
    /\ stops \in 0 .. MaxStops
    /\ made \in Nat

TypeOK == RingOK /\ IngestOK /\ HeartOK /\ StreamOK /\ MainOK

--------------------------------------------------------------------------------
(* Store *)

\* Mutant: the write index does not wrap around.
StoreUnwrapped(e) ==
    /\ events' = [events EXCEPT ![head] = e]
    /\ head' = head + 1
    /\ count' = IF count < RingSize THEN count + 1 ELSE count
    /\ log' = Append(log, e)

Store(e) ==
    /\ events' = [events EXCEPT ![head] = e]
    /\ head' = (head + 1) % RingSize
    /\ count' = IF count < RingSize THEN count + 1 ELSE count
    /\ log' = Append(log, e)

\* The last n entries, newest first.
Recent(n) ==
    LET length == IF n > count THEN count ELSE n
    IN  [i \in 1 .. length |-> events[(head - i + RingSize) % RingSize]]

Reversed(s) == [i \in 1 .. Len(s) |-> s[Len(s) + 1 - i]]

\* What SaveState writes and a stream is replayed: oldest first.
OldestFirst(n) == Reversed(Recent(n))

\* Mutant: the entries are stored newest first.
LoadStateBackwards ==
    LET entries == IF file = Broken THEN <<>> ELSE Reversed(file)
    IN  /\ events' = [s \in Slots |-> IF s < Len(entries) THEN entries[s + 1] ELSE NoEntry]
        /\ head' = Len(entries) % RingSize
        /\ count' = Len(entries)

\* NewStore and LoadState: the entries of the file, stored one after the other.  A file
\* that does not parse loads nothing; SaveState never writes more than RingSize entries.
LoadState ==
    LET entries == IF file = Broken THEN <<>> ELSE file
    IN  /\ events' = [s \in Slots |-> IF s < Len(entries) THEN entries[s + 1] ELSE NoEntry]
        /\ head' = Len(entries) % RingSize
        /\ count' = Len(entries)

--------------------------------------------------------------------------------
(* POST /ingest *)

\* An agent's entry has arrived, was authenticated and decoded.
IngestReceives(r) ==
    /\ Accepting
    /\ ipc[r] = "idle"
    /\ pushes < MaxPushes
    /\ pushes' = pushes + 1
    /\ made' = made + 1
    /\ ipc' = [ipc EXCEPT ![r] = "store"]
    /\ posted' = [posted EXCEPT ![r] = [event |-> "pushed", machine |-> 0, number |-> made]]
    /\ UNCHANGED <<hubVars, ringVars, agentOnline, heartVars, streamVars, mainVars, log>>

IngestStores(r) ==
    /\ Alive
    /\ ipc[r] = "store"
    /\ Store(posted[r])
    /\ ipc' = [ipc EXCEPT ![r] = "broadcast"]
    /\ UNCHANGED <<hubVars, agentOnline, posted, pushes, heartVars, streamVars, mainVars, made>>

\* Broadcasts, and answers 204.
IngestBroadcasts(r) ==
    /\ Alive
    /\ ipc[r] = "broadcast"
    /\ Broadcast(posted[r])
    /\ ipc' = [ipc EXCEPT ![r] = "idle"]
    /\ posted' = [posted EXCEPT ![r] = NoEntry]
    /\ UNCHANGED <<ringVars, agentOnline, pushes, heartVars, streamVars, mainVars, made, log>>

Ingest(r) == IngestReceives(r) \/ IngestStores(r) \/ IngestBroadcasts(r)

--------------------------------------------------------------------------------
(* Heartbeat *)

\* The round goes on with the next agent, whether or not the context has ended.
NextAgent ==
    /\ news' = NoEntry
    /\ IF at < NumAgents THEN hpc' = "poll" /\ at' = at + 1
       ELSE hpc' = "wait" /\ at' = 1

\* Mutant: the last known state is not updated.
TransitionForgets(now) ==
    /\ agentOnline' = [agentOnline EXCEPT ![at] = now]
    /\ UNCHANGED online
    /\ IF online[at] = now
       THEN NextAgent /\ UNCHANGED made
       ELSE /\ hpc' = "store"
            /\ news' = [event |-> IF now THEN "agent_online" ELSE "agent_offline",
                        machine |-> at, number |-> made]
            /\ made' = made + 1
            /\ UNCHANGED at

\* transition, up to the entry: the agent's state, and an entry if it changed.
Transition(now) ==
    /\ online' = [online EXCEPT ![at] = now]
    /\ agentOnline' = [agentOnline EXCEPT ![at] = now]
    /\ IF online[at] = now
       THEN NextAgent /\ UNCHANGED made
       ELSE /\ hpc' = "store"
            /\ news' = [event |-> IF now THEN "agent_online" ELSE "agent_offline",
                        machine |-> at, number |-> made]
            /\ made' = made + 1
            /\ UNCHANGED at

\* Once the context is cancelled, a request of poll's answers only with an error.
PollAnswers ==
    /\ Alive
    /\ hpc = "poll"
    /\ \E now \in BOOLEAN : (now => phase = "running") /\ Transition(now)
    /\ UNCHANGED <<hubVars, ringVars, ingestVars, rounds, streamVars, mainVars, log>>

\* Mutant: the entry is stored and not broadcast.
HeartbeatStoresOnly ==
    /\ Alive
    /\ hpc = "store"
    /\ Store(news)
    /\ NextAgent
    /\ UNCHANGED <<hubVars, agentOnline, ingestVars, online, rounds, streamVars, mainVars, made>>

HeartbeatStores ==
    /\ Alive
    /\ hpc = "store"
    /\ Store(news)
    /\ hpc' = "broadcast"
    /\ UNCHANGED <<hubVars, agentOnline, ingestVars, at, online, news, rounds, streamVars,
                   mainVars, made>>

HeartbeatBroadcasts ==
    /\ Alive
    /\ hpc = "broadcast"
    /\ Broadcast(news)
    /\ NextAgent
    /\ UNCHANGED <<ringVars, agentOnline, ingestVars, online, rounds, streamVars, mainVars,
                   made, log>>

\* Run's select.  With the context done and a tick due it may still choose the tick.
HeartbeatTicks ==
    /\ Alive
    /\ hpc = "wait"
    /\ rounds < MaxRounds
    /\ rounds' = rounds + 1
    /\ hpc' = "poll"
    /\ UNCHANGED <<hubVars, ringVars, agentOnline, ingestVars, at, online, news, streamVars,
                   mainVars, made, log>>

HeartbeatEnds ==
    /\ Alive
    /\ phase # "running"
    /\ hpc = "wait"
    /\ hpc' = "ended"
    /\ UNCHANGED <<hubVars, ringVars, agentOnline, ingestVars, at, online, news, rounds,
                   streamVars, mainVars, made, log>>

Heartbeat ==
    PollAnswers \/ HeartbeatStores \/ HeartbeatBroadcasts \/ HeartbeatTicks \/ HeartbeatEnds

--------------------------------------------------------------------------------
(* GET /events *)

StreamGoto(c, label) == spc' = [spc EXCEPT ![c] = label]

\* What a stream leaves behind when its handler returns.
StreamGone(c) ==
    /\ StreamGoto(c, "off")
    /\ seen' = [seen EXCEPT ![c] = <<>>]
    /\ joined' = [joined EXCEPT ![c] = 0]

\* Mutant: the replay is written newest first.
StreamReplaysBackwards(c) ==
    /\ Accepting
    /\ spc[c] = "off"
    /\ StreamGoto(c, "check")
    /\ seen' = [seen EXCEPT ![c] = Recent(ReplaySize)]
    /\ UNCHANGED <<hubVars, ringVars, agentOnline, ingestVars, heartVars, joined, mainVars,
                   made, log>>

\* A request with the right token: its handler reads the ring and writes it out.
StreamReplays(c) ==
    /\ Accepting
    /\ spc[c] = "off"
    /\ StreamGoto(c, "check")
    /\ seen' = [seen EXCEPT ![c] = OldestFirst(ReplaySize)]
    /\ UNCHANGED <<hubVars, ringVars, agentOnline, ingestVars, heartVars, joined, mainVars,
                   made, log>>

StreamChecks(c) ==
    /\ Alive
    /\ spc[c] = "check"
    /\ CanConnect(c)
    /\ StreamGoto(c, "subscribe")
    /\ UNCHANGED <<hubVars, ringVars, agentOnline, ingestVars, heartVars, seen,
                   joined, mainVars, made, log>>

StreamSubscribes(c) ==
    /\ Alive
    /\ spc[c] = "subscribe"
    /\ Subscribe(c)
    /\ StreamGoto(c, "stream")
    /\ joined' = [joined EXCEPT ![c] = Len(log)]
    /\ UNCHANGED <<ringVars, agentOnline, ingestVars, heartVars, seen, mainVars,
                   made, log>>

\* 429: at the first look, or under the lock.
StreamRefused(c) ==
    /\ Alive
    /\ spc[c] \in {"check", "subscribe"}
    /\ ~CanConnect(c)
    /\ StreamGone(c)
    /\ UNCHANGED <<hubVars, ringVars, agentOnline, ingestVars, heartVars, mainVars, made, log>>

StreamWrites(c) ==
    /\ Alive
    /\ spc[c] = "stream"
    /\ Receive(c)
    /\ seen' = [seen EXCEPT ![c] = Append(@, Head(channel[c]))]
    /\ UNCHANGED <<ringVars, agentOnline, ingestVars, heartVars, spc, joined,
                   mainVars, made, log>>

\* The client went away: its context is done, or a write failed.
StreamLeaves(c) ==
    /\ Alive
    /\ spc[c] = "stream"
    /\ Unsubscribe(c)
    /\ StreamGone(c)
    /\ UNCHANGED <<ringVars, agentOnline, ingestVars, heartVars, mainVars, made, log>>

Stream(c) ==
    \/ StreamReplays(c) \/ StreamChecks(c) \/ StreamSubscribes(c) \/ StreamRefused(c)
    \/ StreamWrites(c) \/ StreamLeaves(c)

--------------------------------------------------------------------------------
(* The process *)

\* Main moves on; everything but the phase, the copy, the file and the bound stays.
MainGoto(from, to) ==
    /\ phase = from
    /\ phase' = to
    /\ UNCHANGED <<hubVars, ringVars, agentOnline, ingestVars, heartVars, streamVars, made, log>>

\* The process is told to end, or killed.
Ends == stops < MaxStops /\ stops' = stops + 1

Signal == Ends /\ MainGoto("running", "cancelled") /\ UNCHANGED <<saved, file>>

\* SaveState reads the ring under the store's lock, ...
SaveReads ==
    /\ MainGoto("cancelled", "saving")
    /\ saved' = OldestFirst(RingSize)
    /\ UNCHANGED <<file, stops>>

\* ... truncates the file ...
SaveOpens ==
    /\ MainGoto("saving", "writing")
    /\ file' = Broken
    /\ UNCHANGED <<saved, stops>>

\* ... and writes it.
SaveWrites ==
    /\ MainGoto("writing", "draining")
    /\ file' = saved
    /\ UNCHANGED <<saved, stops>>

\* The file cannot be opened, or not be written to the end.
SaveFails ==
    /\ "save" \in Faults
    /\ \E from \in {"saving", "writing"} : MainGoto(from, "draining")
    /\ UNCHANGED <<saved, file, stops>>

\* Requests, heartbeat, streams and the hub end with the process.
AllGone ==
    /\ ipc' = [r \in Requests |-> "idle"]
    /\ posted' = [r \in Requests |-> NoEntry]
    /\ hpc' = "ended"
    /\ at' = 1
    /\ news' = NoEntry
    /\ online' = [a \in Agents |-> FALSE]
    /\ agentOnline' = [a \in Agents |-> FALSE]
    /\ spc' = [c \in Clients |-> "off"]
    /\ seen' = [c \in Clients |-> <<>>]
    /\ joined' = [c \in Clients |-> 0]
    /\ clients' = {}
    /\ channel' = [c \in Clients |-> <<>>]
    /\ perIP' = [a \in Addresses |-> 0]
    /\ total' = 0
    /\ dropped' = [c \in Clients |-> {}]
    /\ log' = <<>>
    /\ phase' = "down"
    /\ UNCHANGED <<ringVars, saved, file, pushes, rounds, made>>

\* Shutdown waits for what is being handled, streams included, and gives up after
\* 5 seconds: the process may end with any of them where it is.
Exit == phase = "draining" /\ AllGone /\ UNCHANGED stops

Kill == "kill" \in Faults /\ Alive /\ Ends /\ AllGone

Start ==
    /\ phase = "down"
    /\ phase' = "running"
    /\ LoadState
    /\ saved' = <<>>
    /\ hpc' = "poll"
    /\ UNCHANGED <<hubVars, agentOnline, ingestVars, at, online, news, rounds, streamVars,
                   file, stops, made, log>>

Main == Signal \/ SaveReads \/ SaveOpens \/ SaveWrites \/ SaveFails \/ Exit \/ Kill \/ Start

--------------------------------------------------------------------------------

Init ==
    /\ HubInit
    /\ events = [s \in Slots |-> NoEntry]
    /\ head = 0
    /\ count = 0
    /\ agentOnline = [a \in Agents |-> FALSE]
    /\ ipc = [r \in Requests |-> "idle"]
    /\ posted = [r \in Requests |-> NoEntry]
    /\ hpc = "poll"
    /\ at = 1
    /\ online = [a \in Agents |-> FALSE]
    /\ news = NoEntry
    /\ spc = [c \in Clients |-> "off"]
    /\ seen = [c \in Clients |-> <<>>]
    /\ phase = "running"
    /\ saved = <<>>
    /\ file = <<>>
    /\ made = 0
    /\ pushes = 0
    /\ rounds = 0
    /\ stops = 0
    /\ log = <<>>
    /\ joined = [c \in Clients |-> 0]

Next ==
    \/ \E r \in Requests : Ingest(r)
    \/ Heartbeat
    \/ \E c \in Clients : Stream(c)
    \/ Main

Spec == Init /\ [][Next]_vars

--------------------------------------------------------------------------------
(* Properties *)

Held(s) == {s[i] : i \in DOMAIN s}

\* Entries whose handler has stored them and not yet broadcast them.
Pending ==
    {posted[r] : r \in {q \in Requests : ipc[q] = "broadcast"}}
        \union {news : x \in {y \in {0} : hpc = "broadcast"}}

\* Entry e is on its way to client c, or reached it, or was lost because the client was slow.
Got(c, e) == e \in Held(seen[c]) \union Held(channel[c]) \union dropped[c] \union Pending

\* A subscribed client misses no entry that is stored from then on, by whichever of the
\* goroutines, unless its own channel was full (hub.go: Broadcast, sse.go: handleSSE).
StreamComplete == \A c \in clients : \A i \in joined[c] + 1 .. Len(log) : Got(c, log[i])

\* The positions in s of what it says of agent a.
AboutAgent(a, s) == {i \in DOMAIN s : s[i].machine = a}

\* What a client is shown of one agent, the replay and then live events, never goes back in
\* time, although the replay may hold an entry that is broadcast later (heartbeat.go: transition).
AgentEventsInOrder ==
    \A c \in clients, a \in Agents :
        LET told == seen[c] \o channel[c]
        IN  \A i, j \in AboutAgent(a, told) : i < j => told[i].number <= told[j].number

\* An agent's entries are transitions: they alternate, the first of a process says it came
\* online, and between rounds the last one is the state the dashboard shows.
AgentStory ==
    \A a \in Agents :
        LET about == AboutAgent(a, log)
            Nth(i) == Cardinality({j \in about : j <= i})
        IN  /\ \A i \in about :
                    log[i].event = IF Nth(i) % 2 = 1 THEN "agent_online" ELSE "agent_offline"
            /\ hpc # "store" => (agentOnline[a] <=> Cardinality(about) % 2 = 1)

\* The ring keeps the last RingSize events in their order, and a process that starts finds
\* what the last complete save read (store.go).
EventsLog == INSTANCE EventLog WITH
    Capacity <- RingSize, kept <- OldestFirst(RingSize), disk <- file

EventsKept == EventsLog!Spec
================================================================================
