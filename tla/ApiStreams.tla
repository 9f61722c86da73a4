------------------------------- MODULE ApiStreams -------------------------------
(***************************************************************************)
(* The event streams of the agent: handleUIEvents (api.go) and             *)
(* handleUIStream (api_sse.go), with the audit log that feeds them and the *)
(* hub that fans out.                                                      *)
(*                                                                         *)
(* An operation of the updater or the healer changes the service's state,  *)
(* writes an audit entry and changes the state once more when it ends (the *)
(* deploying flag is cleared after the last entry).  The entry's goroutine *)
(* sends it to the hub and then signals the dashboards, whose channel      *)
(* holds one signal.  A handler subscribes to the hub, replays the last    *)
(* entries of the log, and then forwards; a dashboard also sends the       *)
(* service's state at first, at each signal, and at each tick.             *)
(*                                                                         *)
(* The module joins AuditLog and Hub: messages are entries, and a stream   *)
(* is a reader of the log.                                                 *)
(***************************************************************************)
EXTENDS AuditLog, Hub

CONSTANTS
    ReplaySize   \* entries replayed

\* NewAPI attaches its hub to the log before anything is written.
ASSUME StreamsAssumption ==
    /\ Clients \subseteq Readers
    /\ ReplaySize \in Nat \ {0}
    /\ BroadcastEnabled

VARIABLES
    state,       \* changes made to the services' state: <<operation, "begun" or "ended">>
    path,        \* what each client asked for, "/ui/stream" (a dashboard) or "/ui/events"
    stage,       \* where each client's handler is
    statusSubs,  \* dashboards subscribed to signals
    signalled,   \* dashboards whose channel holds a signal
    notifying,   \* entries broadcast whose dashboards are not signalled yet
    shown,       \* entries sent to each client, in order
    seen,        \* the state last sent to each dashboard
    since,       \* history: position in acked from which a client is owed every entry
    before       \* history: entries whose broadcast was over when a client subscribed

streamVars == <<path, stage, statusSubs, signalled, shown, seen, since, before>>
vars == <<auditVars, hubVars, state, notifying, streamVars>>

Init ==
    /\ AuditInit /\ HubInit
    /\ state = {} /\ notifying = {}
    /\ path = [c \in Clients |-> "/ui/events"]
    /\ stage = [c \in Clients |-> "off"]
    /\ statusSubs = {} /\ signalled = {}
    /\ shown = [c \in Clients |-> <<>>]
    /\ seen = [c \in Clients |-> {}]
    /\ since = [c \in Clients |-> 0]
    /\ before = [c \in Clients |-> {}]

--------------------------------------------------------------------------------
(* Operations, and the goroutines of their entries *)

Begin(w) ==
    /\ up /\ write[w] = "new" /\ <<w, "begun">> \notin state
    /\ state' = state \union {<<w, "begun">>}
    /\ UNCHANGED <<auditVars, hubVars, notifying, streamVars>>

WriteEntry(w) ==
    /\ \/ <<w, "begun">> \in state /\ WriteStart(w)
       \/ Writing(w)
    /\ UNCHANGED <<hubVars, state, notifying, streamVars>>

End(w) ==
    /\ up /\ <<w, "begun">> \in state
    /\ write[w] \in {"acked", "failed", "ignored"}
    /\ state' = state \union {<<w, "ended">>}
    /\ UNCHANGED <<auditVars, hubVars, notifying, streamVars>>

\* Mutant: a stream that is sent nothing yet is skipped.
CastSkipsNew(w) ==
    /\ channel' = [c \in Clients |-> IF c \in clients /\ stage[c] \in {"live", "refresh"}
                                        /\ Len(channel[c]) < BufferSize
                                     THEN Append(channel[c], w) ELSE channel[c]]
    /\ UNCHANGED <<clients, perIP, total, dropped>>

\* Mutant: an entry that did not fit one channel is sent to all again.
CastTwice(w) ==
    /\ channel' = [c \in Clients |-> IF c \in clients THEN channel[c] \o <<w, w>> ELSE channel[c]]
    /\ UNCHANGED <<clients, perIP, total, dropped>>

Cast(w) == Broadcast(w)

\* The broadcaster: first the hub, then the signals, each under its own lock.
BroadcastEntry(w) ==
    /\ BroadcastDone(w) /\ Cast(w)
    /\ notifying' = notifying \union {w}
    /\ UNCHANGED <<state, streamVars>>

\* Mutant: only a dashboard that waits at this moment is signalled.
SignalWaiting(w) == signalled' = signalled \union {c \in statusSubs : stage[c] = "live"}

\* A channel that holds a signal already stays as it is.
Signal(w) == signalled' = signalled \union statusSubs

NotifyStatus(w) ==
    /\ w \in notifying
    /\ notifying' = notifying \ {w}
    /\ Signal(w)
    /\ UNCHANGED <<auditVars, hubVars, state, path, stage, statusSubs, shown, seen, since, before>>

--------------------------------------------------------------------------------
(* Stream handlers *)

Dashboard(c) == path[c] = "/ui/stream"

StageIs(c, s) == stage' = [stage EXCEPT ![c] = s]

\* The first look at the limits; a client that is refused gets 429.
Connect(c) ==
    /\ up /\ stage[c] = "off"
    /\ CanConnect(c)
    /\ StageIs(c, "asked")
    /\ path' \in {[path EXCEPT ![c] = p] : p \in {"/ui/stream", "/ui/events"}}
    /\ UNCHANGED <<auditVars, hubVars, state, notifying, statusSubs, signalled, shown, seen,
                   since, before>>

Position(e) == CHOOSE i \in DOMAIN acked : acked[i] = e
Acknowledged == {acked[i] : i \in DOMAIN acked}

Join(c) ==
    /\ stage[c] = "asked"
    /\ \/ /\ Subscribe(c)
          /\ StageIs(c, "joined")
          /\ since' = [since EXCEPT ![c] = Len(acked) + 1]
          /\ before' = [before EXCEPT ![c] = Acknowledged \ casting]
       \/ /\ ~CanConnect(c)
          /\ StageIs(c, "off")
          /\ UNCHANGED <<hubVars, since, before>>
    /\ UNCHANGED <<auditVars, state, notifying, path, statusSubs, signalled, shown, seen>>

SubscribeStatus(c) ==
    /\ stage[c] = "joined" /\ Dashboard(c)
    /\ statusSubs' = statusSubs \union {c}
    /\ StageIs(c, "watching")
    /\ UNCHANGED <<auditVars, hubVars, state, notifying, path, signalled, shown, seen, since, before>>

\* The snapshot of every map of the updater, the healer and the monitor.
SendStatus(c) ==
    /\ stage[c] \in {"watching", "refresh"}
    /\ seen' = [seen EXCEPT ![c] = state]
    /\ StageIs(c, IF stage[c] = "watching" THEN "stated" ELSE "live")
    /\ UNCHANGED <<auditVars, hubVars, state, notifying, path, statusSubs, signalled, shown, since, before>>

Replays(c) == stage[c] = IF Dashboard(c) THEN "stated" ELSE "joined"

\* A logger that is disabled has nothing to replay.
ReplayStart(c) ==
    /\ Replays(c)
    /\ \/ RecentStart(c) /\ UNCHANGED stage
       \/ reading[c] = "idle" /\ file = "nil" /\ StageIs(c, "live") /\ UNCHANGED auditVars
    /\ UNCHANGED <<hubVars, state, notifying, path, statusSubs, signalled, shown, seen, since, before>>

\* Mutant: the subscription to signals is not undone.
LeaveSubscribed(c) ==
    /\ Unsubscribe(c)
    /\ StageIs(c, "off")
    /\ path' = [path EXCEPT ![c] = "/ui/events"]
    /\ UNCHANGED statusSubs
    /\ signalled' = signalled \ {c}
    /\ shown' = [shown EXCEPT ![c] = <<>>]
    /\ seen' = [seen EXCEPT ![c] = {}]
    /\ since' = [since EXCEPT ![c] = 0]
    /\ before' = [before EXCEPT ![c] = {}]

\* The end of a handler: what it deferred.
Leave(c) ==
    /\ Unsubscribe(c)
    /\ StageIs(c, "off")
    /\ path' = [path EXCEPT ![c] = "/ui/events"]
    /\ statusSubs' = statusSubs \ {c}
    /\ signalled' = signalled \ {c}
    /\ shown' = [shown EXCEPT ![c] = <<>>]
    /\ seen' = [seen EXCEPT ![c] = {}]
    /\ since' = [since EXCEPT ![c] = 0]
    /\ before' = [before EXCEPT ![c] = {}]

\* The file is opened; a panic there ends the handler.
ReplayOpen(c) ==
    /\ Replays(c)
    /\ RecentOpen(c)
    /\ IF file = "nil" THEN Leave(c) ELSE UNCHANGED <<hubVars, streamVars>>
    /\ UNCHANGED <<state, notifying>>

\* The last entries of the file that was opened, and none after an error.
Replay(c) ==
    /\ Replays(c)
    /\ RecentRead(c)
    /\ LET replayed == Recent(LinesFor(c), ReplaySize)
       IN  /\ shown' = [shown EXCEPT ![c] = replayed]
           /\ since' = IF replayed # <<>> /\ Position(replayed[1]) < since[c]
                       THEN [since EXCEPT ![c] = Position(replayed[1])] ELSE since
    /\ StageIs(c, "live")
    /\ UNCHANGED <<hubVars, state, notifying, path, statusSubs, signalled, seen, before>>

Forward(c) ==
    /\ stage[c] = "live"
    /\ Receive(c)
    /\ shown' = [shown EXCEPT ![c] = Append(@, Head(channel[c]))]
    /\ UNCHANGED <<auditVars, state, notifying, path, stage, statusSubs, signalled, seen, since, before>>

TakeSignal(c) ==
    /\ stage[c] = "live" /\ c \in signalled
    /\ signalled' = signalled \ {c}
    /\ StageIs(c, "refresh")
    /\ UNCHANGED <<auditVars, hubVars, state, notifying, path, statusSubs, shown, seen, since, before>>

\* Mutant: a tick finds the state up to date when no signal came.
RefreshDueAfterSignal(c) == c \in signalled

RefreshDue(c) == TRUE

\* The ticker of 30 seconds.
TakeTick(c) ==
    /\ stage[c] = "live" /\ Dashboard(c)
    /\ RefreshDue(c)
    /\ StageIs(c, "refresh")
    /\ UNCHANGED <<auditVars, hubVars, state, notifying, path, statusSubs, signalled, shown, seen,
                   since, before>>

Disconnect(c) ==
    /\ stage[c] = "live"
    /\ Leave(c)
    /\ UNCHANGED <<auditVars, state, notifying>>

--------------------------------------------------------------------------------

ExitAll ==
    /\ Exit
    /\ clients' = {} /\ channel' = [c \in Clients |-> <<>>]
    /\ perIP' = [a \in Addresses |-> 0] /\ total' = 0
    /\ dropped' = [c \in Clients |-> {}]
    /\ state' = {} /\ notifying' = {}
    /\ path' = [c \in Clients |-> "/ui/events"]
    /\ stage' = [c \in Clients |-> "off"]
    /\ statusSubs' = {} /\ signalled' = {}
    /\ shown' = [c \in Clients |-> <<>>]
    /\ seen' = [c \in Clients |-> {}]
    /\ since' = [c \in Clients |-> 0]
    /\ before' = [c \in Clients |-> {}]

Start == (New \/ Tick) /\ UNCHANGED <<hubVars, state, notifying, streamVars>>

\* GET /audit, whose answer is no client's.
Audit(r) ==
    /\ r \notin Clients
    /\ Reading(r)
    /\ UNCHANGED <<hubVars, state, notifying, streamVars>>

Operation(w) ==
    Begin(w) \/ WriteEntry(w) \/ End(w) \/ BroadcastEntry(w) \/ NotifyStatus(w)

Stream(c) ==
    \/ Connect(c) \/ Join(c) \/ SubscribeStatus(c) \/ SendStatus(c)
    \/ ReplayStart(c) \/ ReplayOpen(c) \/ Replay(c)
    \/ Forward(c) \/ TakeSignal(c) \/ TakeTick(c)
    \/ Disconnect(c)

Next ==
    \/ \E w \in Entries : Operation(w)
    \/ \E c \in Clients : Stream(c)
    \/ \E r \in Readers : Audit(r)
    \/ ExitAll \/ Start

\* The goroutines run, and so do the handlers, whose tickers fire; nothing makes
\* a client connect or leave.
Spec ==
    /\ Init /\ [][Next]_vars
    /\ \A w \in Entries : WF_vars(WriteEntry(w)) /\ WF_vars(BroadcastEntry(w))
                          /\ WF_vars(NotifyStatus(w))
    /\ \A c \in Clients : WF_vars(SendStatus(c)) /\ WF_vars(TakeTick(c))
                             /\ WF_vars(ReplayStart(c)) /\ WF_vars(ReplayOpen(c)) /\ WF_vars(Replay(c))

--------------------------------------------------------------------------------
(* Properties *)

TypeOK ==
    /\ AuditTypeOK /\ LimitsKept
    /\ state \subseteq Entries \X {"begun", "ended"}
    /\ \A c \in Clients : stage[c] \in {"off", "asked", "joined", "watching", "stated", "live", "refresh"}
    /\ signalled \subseteq statusSubs /\ statusSubs \subseteq {c \in clients : Dashboard(c)}
    /\ notifying \subseteq Entries
    /\ \A c \in Clients : shown[c] \in Seq(Entries) /\ seen[c] \subseteq state

Serving(c) == stage[c] \in {"live", "refresh"}
Times(e, s) == Cardinality({i \in DOMAIN s : s[i] = e})

\* A stream that subscribes before it replays has no gap: from the first entry
\* it replayed, or from its subscription if that is earlier, every entry that
\* was acknowledged reaches it or is in its channel, on its way, or lost to its
\* full channel, although the replay and the broadcasts of entries interleave.
NoGap ==
    "torn" \notin faulted =>
        \A c \in Clients : Serving(c) =>
            \A i \in DOMAIN acked : i >= since[c] =>
                \/ acked[i] \in casting \union dropped[c]
                \/ Times(acked[i], shown[c] \o channel[c]) > 0

\* An entry is shown twice only when it was replayed while its broadcast was
\* still to come: an entry that was broadcast before the client subscribed is
\* shown once, and none is shown three times.
RepeatsOnlyOverlap ==
    \A c \in Clients : \A w \in Entries :
        Times(w, shown[c] \o channel[c]) <= IF w \in before[c] THEN 1 ELSE 2

\* No wake-up is lost: when the goroutine of an entry has signalled, each
\* dashboard has been sent the state behind the entry, or is about to be.
StatusFresh ==
    \A c \in statusSubs : \A w \in Entries :
        /\ stage[c] # "watching"
        /\ w \in Acknowledged \ (casting \union notifying)
        /\ <<w, "begun">> \in state
        => <<w, "begun">> \in seen[c] \/ c \in signalled \/ stage[c] = "refresh"

\* A dashboard that stays is at last sent every change, those that no entry
\* announces too.
StatusCatchesUp ==
    \A c \in Clients : c \in statusSubs ~> (c \notin statusSubs \/ seen[c] = state)
================================================================================
