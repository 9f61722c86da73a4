----------------------------- MODULE StreamsProofs -----------------------------
(***************************************************************************)
(* Proofs about the event streams of the agent, for any set of clients and *)
(* operations, any limits, channel and ring sizes, and any faults of the   *)
(* log file.                                                               *)
(*                                                                         *)
(* The argument has one section per layer:                                 *)
(*  - a step of the whole is a step of the log (AuditStep of AuditProofs)  *)
(*    and a step of the handlers (Handlers: a handler that streams is      *)
(*    registered with the hub; SubscribeLimits and its fellows of          *)
(*    HubProofs are the hub's own transitions);                            *)
(*  - what was acknowledged and what a client holds change in a few ways   *)
(*    only (StreamKinds), each looked at once by every invariant below;    *)
(*  - NothingMissed, NoGap made inductive: what was acknowledged since a   *)
(*    client joined is shown to it, queued for it, dropped in front of it, *)
(*    or still to be broadcast by the writer that holds it;                *)
(*  - ShownAtMost, RepeatsOnlyOverlap made inductive: it counts what the   *)
(*    replay showed, what the channel holds and what is to be broadcast;   *)
(*  - StatusFresh with the signals that are due (Due) and those a          *)
(*    notification still has to give (Heard).                              *)
(* StreamsInv collects what all of them need: types, the lines of the file *)
(* against what was acknowledged (WrittenOnce and Newest of AuditProofs),  *)
(* and the layers above.                                                   *)
(***************************************************************************)
EXTENDS ApiStreams, HubProofs, AuditProofs

USE StreamsAssumption
USE AuditAssumption

Idle == {"off", "asked"}
Streaming == {"joined", "watching", "stated", "live", "refresh"}

--------------------------------------------------------------------------------
(* The parts: log, hub, handlers *)

LEMMA StreamAuditStep ==
    ASSUME [Next]_vars
    PROVE  AuditStep
<1> USE DEF auditVars, fileVars, handleVars, readVars, taskVars, procVars
<1>1. ASSUME NEW w \in Entries, Operation(w) PROVE AuditStep
  BY <1>1 DEF Operation, Begin, WriteEntry, End, BroadcastEntry, NotifyStatus, AuditStep, AuditNext
<1>2. ASSUME NEW c \in Clients, Stream(c) PROVE AuditStep
  <2>1. c \in Readers
    OBVIOUS
  <2>2. ReplayStart(c) \/ ReplayOpen(c) \/ Replay(c) => AuditStep
    BY <2>1 DEF ReplayStart, ReplayOpen, Replay, AuditStep, AuditNext, Reading
  <2>3. ASSUME \/ Connect(c) \/ Join(c) \/ SubscribeStatus(c) \/ SendStatus(c)
               \/ Forward(c) \/ TakeSignal(c) \/ TakeTick(c) \/ Disconnect(c)
        PROVE  UNCHANGED auditVars
    BY <2>3 DEF Connect, Join, SubscribeStatus, SendStatus, Forward, TakeSignal, TakeTick, Disconnect
  <2> QED BY <1>2, <2>2, <2>3 DEF Stream, AuditStep
<1>3. ASSUME NEW r \in Readers, Audit(r) PROVE AuditStep
  BY <1>3 DEF Audit, AuditStep, AuditNext
<1>4. ASSUME ExitAll \/ Start \/ UNCHANGED vars PROVE AuditStep
  BY <1>4 DEF ExitAll, Start, vars, AuditStep, AuditNext
<1> QED BY <1>1, <1>2, <1>3, <1>4 DEF Next

\* A handler that streams is registered with the hub, and only then may it be
\* registered for signals.
Handlers ==
    /\ stage \in [Clients -> Idle \union Streaming]
    /\ path \in [Clients -> {"/ui/stream", "/ui/events"}]
    /\ clients = {c \in Clients : stage[c] \in Streaming}
    /\ signalled \subseteq statusSubs
    /\ statusSubs \subseteq {c \in clients : Dashboard(c)}

\* A step that leaves the handlers where they are, or moves one that streams.
LEMMA HandlerStays ==
    ASSUME Handlers, UNCHANGED <<stage, path, clients, statusSubs>>, signalled' \subseteq statusSubs
    PROVE  Handlers'
BY DEF Handlers, Dashboard

LEMMA HandlerMoves ==
    ASSUME Handlers, NEW c \in Clients, NEW s \in Streaming,
           stage[c] \in Streaming, StageIs(c, s), UNCHANGED <<path, clients>>,
           \/ statusSubs' = statusSubs
           \/ Dashboard(c) /\ statusSubs' = statusSubs \union {c},
           signalled' \subseteq signalled
    PROVE  Handlers'
<1> USE DEF Handlers, StageIs
<1>1. stage' \in [Clients -> Idle \union Streaming]
  OBVIOUS
<1>2. \A d \in Clients : stage'[d] \in Streaming <=> stage[d] \in Streaming
  OBVIOUS
<1>3. c \in clients
  OBVIOUS
<1>4. \A d \in Clients : Dashboard(d)' <=> Dashboard(d)
  BY DEF Dashboard
<1> QED BY <1>1, <1>2, <1>3, <1>4

LEMMA HandlerLeaves ==
    ASSUME HubOK, LimitsKept, Handlers, NEW c \in Clients, Leave(c)
    PROVE  HubOK' /\ LimitsKept' /\ Handlers'
<1>1. HubOK' /\ LimitsKept'
  BY UnsubscribeLimits DEF Leave
<1>2. /\ stage' = [stage EXCEPT ![c] = "off"] /\ path' = [path EXCEPT ![c] = "/ui/events"]
      /\ clients' = clients \ {c}
      /\ statusSubs' = statusSubs \ {c} /\ signalled' = signalled \ {c}
  BY DEF Leave, Unsubscribe, StageIs
<1>3. Handlers'
  <2> USE DEF Handlers
  <2>1. \A d \in Clients : stage'[d] \in Streaming <=> stage[d] \in Streaming /\ d # c
    BY <1>2 DEF Streaming
  <2>2. stage' \in [Clients -> Idle \union Streaming] /\ path' \in [Clients -> {"/ui/stream", "/ui/events"}]
    BY <1>2 DEF Idle
  <2>3. \A d \in Clients : d # c => (Dashboard(d)' <=> Dashboard(d))
    BY <1>2 DEF Dashboard
  <2> QED BY <1>2, <2>1, <2>2, <2>3
<1> QED BY <1>1, <1>3

LEMMA HandlersStep ==
    ASSUME HubOK, LimitsKept, Handlers, [Next]_vars
    PROVE  HubOK' /\ LimitsKept' /\ Handlers'
<1> DEFINE Goal == HubOK' /\ LimitsKept' /\ Handlers'
<1>1. ASSUME UNCHANGED <<clients, perIP, total>>, UNCHANGED <<stage, path, statusSubs>>,
             signalled' \subseteq statusSubs
      PROVE  Goal
  BY <1>1, SameLimits, HandlerStays
<1>2. signalled \subseteq statusSubs
  BY DEF Handlers
<1>3. ASSUME NEW w \in Entries, Operation(w) PROVE Goal
  <2>1. UNCHANGED <<clients, perIP, total>> /\ UNCHANGED <<stage, path, statusSubs>>
    BY <1>3 DEF Operation, Begin, WriteEntry, End, BroadcastEntry, Cast, Broadcast, NotifyStatus,
                hubVars, streamVars
  <2>2. signalled' \subseteq statusSubs
    BY <1>2, <1>3 DEF Operation, Begin, WriteEntry, End, BroadcastEntry, NotifyStatus, Signal, streamVars
  <2> QED BY <1>1, <2>1, <2>2
<1>4. ASSUME NEW c \in Clients, Connect(c) PROVE Goal
  <2>1. UNCHANGED <<clients, perIP, total, statusSubs, signalled>> /\ stage[c] = "off"
    BY <1>4 DEF Connect, hubVars
  <2>2. stage' = [stage EXCEPT ![c] = "asked"] /\ \E p \in {"/ui/stream", "/ui/events"} : path' = [path EXCEPT ![c] = p]
    BY <1>4 DEF Connect, StageIs
  <2>3. c \notin clients
    BY <2>1 DEF Handlers, Streaming
  <2>4. Handlers'
    <3> USE DEF Handlers
    <3>1. \A d \in Clients : stage'[d] \in Streaming <=> stage[d] \in Streaming
      BY <2>1, <2>2 DEF Streaming
    <3>2. stage' \in [Clients -> Idle \union Streaming] /\ path' \in [Clients -> {"/ui/stream", "/ui/events"}]
      BY <2>2 DEF Idle
    <3>3. \A d \in clients : Dashboard(d)' <=> Dashboard(d)
      BY <2>2, <2>3 DEF Dashboard
    <3> QED BY <2>1, <3>1, <3>2, <3>3
  <2> QED BY <2>1, <2>4, SameLimits
<1>5. ASSUME NEW c \in Clients, Join(c) PROVE Goal
  <2>1. stage[c] = "asked" /\ UNCHANGED <<path, statusSubs, signalled>>
    BY <1>5 DEF Join
  <2>2. c \notin clients /\ stage \in [Clients -> Idle \union Streaming]
    BY <2>1 DEF Handlers, Streaming
  <2>3. CASE Subscribe(c) /\ StageIs(c, "joined")
    <3>1. HubOK' /\ LimitsKept'
      BY <2>2, <2>3, SubscribeLimits
    <3>2. clients' = clients \union {c} /\ stage' = [stage EXCEPT ![c] = "joined"]
      BY <2>3 DEF Subscribe, StageIs
    <3>3. \A d \in Clients : stage'[d] \in Streaming <=> stage[d] \in Streaming \/ d = c
      BY <2>2, <3>2 DEF Streaming
    <3>4. stage' \in [Clients -> Idle \union Streaming]
      BY <2>2, <3>2 DEF Streaming
    <3> QED BY <2>1, <3>1, <3>2, <3>3, <3>4 DEF Handlers, Dashboard
  <2>4. CASE StageIs(c, "off") /\ UNCHANGED hubVars
    <3>1. UNCHANGED <<clients, perIP, total>> /\ stage' = [stage EXCEPT ![c] = "off"]
      BY <2>4 DEF hubVars, StageIs
    <3>2. \A d \in Clients : stage'[d] \in Streaming <=> stage[d] \in Streaming
      BY <2>1, <2>2, <3>1 DEF Streaming
    <3>3. stage' \in [Clients -> Idle \union Streaming]
      BY <2>2, <3>1 DEF Idle
    <3>4. Handlers'
      BY <2>1, <3>1, <3>2, <3>3 DEF Handlers, Dashboard
    <3> QED BY <3>1, <3>4, SameLimits
  <2> QED BY <1>5, <2>3, <2>4 DEF Join
<1>6. ASSUME NEW c \in Clients, SubscribeStatus(c) \/ SendStatus(c) \/ TakeSignal(c) \/ TakeTick(c)
      PROVE  Goal
  <2>1. UNCHANGED <<clients, perIP, total, path>> /\ signalled' \subseteq signalled /\ stage[c] \in Streaming
    BY <1>6 DEF SubscribeStatus, SendStatus, TakeSignal, TakeTick, hubVars, Streaming
  <2>2. statusSubs' = statusSubs \/ (Dashboard(c) /\ statusSubs' = statusSubs \union {c})
    BY <1>6 DEF SubscribeStatus, SendStatus, TakeSignal, TakeTick
  <2>3. \E s \in Streaming : StageIs(c, s)
    BY <1>6 DEF SubscribeStatus, SendStatus, TakeSignal, TakeTick, Streaming
  <2> QED BY <2>1, <2>2, <2>3, HandlerMoves, SameLimits
<1>7. ASSUME NEW c \in Clients, ReplayStart(c) \/ ReplayOpen(c) \/ Replay(c) PROVE Goal
  <2>1. stage[c] \in Streaming
    BY <1>7 DEF ReplayStart, ReplayOpen, Replay, Replays, Streaming
  <2>2. CASE Leave(c)
    BY <2>2, HandlerLeaves
  <2>3. CASE UNCHANGED <<clients, perIP, total, path, statusSubs, signalled>>
             /\ (stage' = stage \/ StageIs(c, "live"))
    <3>1. "live" \in Streaming
      BY DEF Streaming
    <3> QED BY <1>1, <1>2, <2>1, <2>3, <3>1, HandlerMoves, SameLimits
  <2> QED BY <1>7, <2>2, <2>3 DEF ReplayStart, ReplayOpen, Replay, hubVars, streamVars
<1>8. ASSUME NEW c \in Clients, Forward(c) PROVE Goal
  BY <1>1, <1>2, <1>8 DEF Forward, Receive
<1>9. ASSUME NEW c \in Clients, Disconnect(c) PROVE Goal
  BY <1>9, HandlerLeaves DEF Disconnect
<1>10. ASSUME ExitAll PROVE Goal
  <2>1. /\ clients' = {} /\ total' = 0 /\ perIP' = [a \in Addresses |-> 0]
        /\ stage' = [c \in Clients |-> "off"] /\ path' = [c \in Clients |-> "/ui/events"]
        /\ statusSubs' = {} /\ signalled' = {}
    BY <1>10 DEF ExitAll
  <2>2. HubOK' /\ LimitsKept'
    <3>1. \A a \in Addresses : At(a)' = {}
      BY <2>1 DEF At
    <3> QED BY <2>1, <3>1, FS_EmptySet, HubAssumption DEF HubOK, LimitsKept
  <2>3. Handlers'
    BY <2>1 DEF Handlers, Idle, Streaming
  <2> QED BY <2>2, <2>3
<1>11. ASSUME Start \/ UNCHANGED vars \/ \E r \in Readers : Audit(r) PROVE Goal
  BY <1>1, <1>2, <1>11 DEF Start, Audit, vars, hubVars, streamVars
<1> QED BY <1>3, <1>4, <1>5, <1>6, <1>7, <1>8, <1>9, <1>10, <1>11 DEF Next, Stream

--------------------------------------------------------------------------------
(* What a handler replays *)

LEMMA TailOfLog ==
    ASSUME NEW s \in Seq(LogLines), NEW n \in Nat \ {0}
    PROVE  LET t == SubSeq(s, IF Len(s) > n THEN Len(s) - n + 1 ELSE 1, Len(s))
           IN  /\ t \in Seq(LogLines) /\ Len(t) \in Nat /\ Len(t) <= Len(s) /\ DOMAIN t = 1 .. Len(t)
               /\ \A i \in DOMAIN t : Len(s) - Len(t) + i \in DOMAIN s /\ t[i] = s[Len(s) - Len(t) + i]
<1> DEFINE from == IF Len(s) > n THEN Len(s) - n + 1 ELSE 1
           t == SubSeq(s, from, Len(s))
<1>1. Len(s) \in Nat /\ from \in 1 .. Len(s) + 1 /\ DOMAIN s = 1 .. Len(s)
  OBVIOUS
<1> HIDE DEF from
<1>2. /\ t \in Seq(LogLines) /\ Len(t) = Len(s) - from + 1 /\ DOMAIN t = 1 .. Len(t)
      /\ \A i \in 1 .. Len(t) : t[i] = s[from + i - 1]
  BY <1>1
<1> HIDE DEF t
<1>3. ASSUME NEW i \in DOMAIN t
      PROVE  Len(s) - Len(t) + i \in DOMAIN s /\ t[i] = s[Len(s) - Len(t) + i]
  <2>1. Len(s) - Len(t) + i = from + i - 1
    BY <1>1, <1>2
  <2>2. from + i - 1 \in DOMAIN s
    BY <1>1, <1>2
  <2> QED BY <1>2, <2>1, <2>2
<1>4. Len(t) \in Nat /\ Len(t) <= Len(s)
  BY <1>1, <1>2
<1> QED BY <1>2, <1>3, <1>4 DEF t, from

\* Lines as a file holds them: of what was acknowledged, each once.
Genuine(s) ==
    /\ s \in Seq(LogLines)
    /\ \A i, j \in DOMAIN s : s[i] = s[j] /\ s[i] # Torn => i = j
    /\ \A i \in DOMAIN s : s[i] # Torn => s[i] \in Acknowledged

\* Lines that are what was acknowledged up to the entry at q.
UpTo(s, q) ==
    /\ q \in 0 .. Len(acked) /\ Len(s) <= q
    /\ \A i \in DOMAIN s : s[i] = acked[q - Len(s) + i]

LEMMA FileGenuine ==
    ASSUME AuditTypeOK, WrittenOnce
    PROVE  Genuine(log) /\ (Newest /\ "torn" \notin faulted => UpTo(log, Len(acked)))
<1>1. log \in Seq(LogLines) /\ Len(acked) \in Nat
  BY DEF AuditTypeOK, LogLines
<1>2. \A i \in DOMAIN log : log[i] # Torn => log[i] \in Acknowledged
  BY DEF WrittenOnce, Acknowledged
<1> QED BY <1>1, <1>2 DEF Genuine, UpTo, Newest, WrittenOnce

\* What a handler replays was acknowledged, each entry once, and has no gap before
\* the last that the file held.
Faithfully(r) ==
    /\ r \in Seq(Entries)
    /\ \A j, k \in DOMAIN r : r[j] = r[k] => j = k
    /\ \A k \in DOMAIN r : r[k] \in Acknowledged

LEMMA RecentFaithful ==
    ASSUME AuditTypeOK, NEW s, Genuine(s), NEW n \in Nat \ {0}
    PROVE  /\ Faithfully(Recent(s, n))
           /\ \A q : UpTo(s, q) => UpTo(Recent(s, n), q)
<1> DEFINE t == SubSeq(s, IF Len(s) > n THEN Len(s) - n + 1 ELSE 1, Len(s))
<1>1. s \in Seq(LogLines) /\ acked \in Seq(Entries) /\ Len(s) \in Nat /\ Len(acked) \in Nat
      /\ DOMAIN s = 1 .. Len(s) /\ DOMAIN acked = 1 .. Len(acked)
  BY DEF AuditTypeOK, Genuine
<1>2. /\ t \in Seq(LogLines) /\ Len(t) \in Nat /\ Len(t) <= Len(s) /\ DOMAIN t = 1 .. Len(t)
      /\ \A i \in DOMAIN t : Len(s) - Len(t) + i \in DOMAIN s /\ t[i] = s[Len(s) - Len(t) + i]
  BY <1>1, TailOfLog
<1>3. Recent(s, n) = <<>> \/ Recent(s, n) = Parsed(t)
  BY DEF Recent
<1> HIDE DEF t
<1> DEFINE r == Parsed(t)
<1>4. Faithful(t, Len(t), r)
  BY <1>2, ParsedFaithful
<1> HIDE DEF r
<1>5. r \in Seq(Entries) /\ \A k \in DOMAIN r : \E j \in 1 .. Len(t) : t[j] = r[k]
  BY <1>4 DEF Faithful
<1>6. ASSUME NEW j \in DOMAIN t, NEW k \in DOMAIN t, t[j] = t[k], t[j] # Torn PROVE j = k
  <2>1. Len(s) - Len(t) + j = Len(s) - Len(t) + k
    <3>1. s[Len(s) - Len(t) + j] = s[Len(s) - Len(t) + k]
      BY <1>2, <1>6
    <3>2. Len(s) - Len(t) + j \in DOMAIN s /\ Len(s) - Len(t) + k \in DOMAIN s
      BY <1>2
    <3>3. s[Len(s) - Len(t) + j] # Torn
      BY <1>2, <1>6
    <3> QED BY <3>1, <3>2, <3>3 DEF Genuine
  <2>2. j \in Nat /\ k \in Nat
    BY <1>2
  <2> QED BY <1>1, <1>2, <2>1, <2>2
<1>7. \A j, k \in DOMAIN r : r[j] = r[k] => j = k
  BY <1>4, <1>6 DEF Faithful
<1>8. ASSUME NEW k \in DOMAIN r PROVE r[k] \in Acknowledged
  <2>1. PICK j \in 1 .. Len(t) : t[j] = r[k]
    BY <1>5
  <2>2. Len(s) - Len(t) + j \in DOMAIN s /\ t[j] = s[Len(s) - Len(t) + j]
    BY <1>2
  <2>3. r[k] # Torn
    BY <1>5
  <2> QED BY <2>1, <2>2, <2>3 DEF Genuine
<1>9. ASSUME NEW q, UpTo(s, q) PROVE UpTo(r, q)
  <2>1. q \in 0 .. Len(acked) /\ Len(s) <= q /\ \A i \in DOMAIN s : s[i] = acked[q - Len(s) + i]
    BY <1>9 DEF UpTo
  <2>2. \A i \in DOMAIN s : q - Len(s) + i \in DOMAIN acked
    BY <1>1, <2>1
  <2>3. \A i \in DOMAIN s : s[i] \in Entries
    BY <1>1, <2>1, <2>2
  <2>4. \A j \in DOMAIN t : t[j] # Torn
    BY <1>2, <2>3
  <2>5. Len(r) = Len(t) /\ \A j \in 1 .. Len(t) : r[j] = t[j]
    BY <1>4, <2>4 DEF Faithful
  <2>6. ASSUME NEW k \in DOMAIN r PROVE r[k] = acked[q - Len(r) + k]
    <3>1. k \in 1 .. Len(t)
      BY <1>5, <2>5
    <3>2. r[k] = s[Len(s) - Len(t) + k] /\ Len(s) - Len(t) + k \in DOMAIN s
      BY <1>2, <2>5, <3>1
    <3>3. q - Len(s) + (Len(s) - Len(t) + k) = q - Len(r) + k
      BY <1>1, <1>2, <2>1, <2>5, <3>1
    <3> QED BY <2>1, <3>2, <3>3
  <2> QED BY <1>1, <1>2, <2>1, <2>5, <2>6 DEF UpTo
<1>10. CASE Recent(s, n) = r
  BY <1>5, <1>7, <1>8, <1>9, <1>10 DEF Faithfully
<1>11. CASE Recent(s, n) = <<>>
  BY <1>1, <1>11 DEF Faithfully, UpTo
<1> QED BY <1>3, <1>10, <1>11 DEF r

\* Each acknowledged entry has one position.
LEMMA PositionIs ==
    ASSUME WrittenOnce, NEW i \in DOMAIN acked
    PROVE  Position(acked[i]) = i
<1>1. \E j \in DOMAIN acked : acked[j] = acked[i]
  OBVIOUS
<1>2. Position(acked[i]) \in DOMAIN acked /\ acked[Position(acked[i])] = acked[i]
  BY <1>1 DEF Position
<1> QED BY <1>2 DEF WrittenOnce

--------------------------------------------------------------------------------
(* What a step does to the streams *)

\* What the streams hold; a handler has sent nothing before it replays, and the
\* channel of no client holds nothing.
Contents ==
    /\ channel \in [Clients -> Seq(Entries)] /\ shown \in [Clients -> Seq(Entries)]
    /\ dropped \in [Clients -> SUBSET Entries] /\ before \in [Clients -> SUBSET Entries]
    /\ since \in [Clients -> Nat]
    /\ \A c \in Clients : ~Serving(c) => shown[c] = <<>>
    /\ \A c \in Clients : c \notin clients => channel[c] = <<>>

AckedSame == acked' = acked /\ casting' = casting

StreamsSame ==
    /\ clients' = clients /\ channel' = channel /\ dropped' = dropped
    /\ shown' = shown /\ since' = since /\ before' = before
    /\ \A c \in Clients : Serving(c)' <=> Serving(c)

\* An entry is acknowledged, and is to be broadcast.
Acks(w) ==
    /\ write[w] # "acked"
    /\ acked' = Append(acked, w) /\ casting' = casting \union {w}
    /\ StreamsSame

\* An entry goes to every channel that has room.
Casts(w) ==
    /\ w \in casting /\ acked' = acked /\ casting' = casting \ {w}
    /\ Broadcast(w)
    /\ shown' = shown /\ since' = since /\ before' = before
    /\ \A c \in Clients : Serving(c)' <=> Serving(c)

Joins(c) ==
    /\ AckedSame
    /\ ~Serving(c) /\ c \notin clients
    /\ clients' = clients \union {c} /\ channel' = [channel EXCEPT ![c] = <<>>]
    /\ since' = [since EXCEPT ![c] = Len(acked) + 1]
    /\ before' = [before EXCEPT ![c] = Acknowledged \ casting]
    /\ dropped' = dropped /\ shown' = shown
    /\ \A d \in Clients : Serving(d)' <=> Serving(d)

\* A client is sent what was read of the log, and is served from then on; the file
\* it opened reached to where the client has joined, or further.
Replayed(c, r) ==
    /\ AckedSame
    /\ Faithfully(r)
    /\ "torn" \notin faulted => \E q \in 0 .. Len(acked) : UpTo(r, q) /\ since[c] <= q + 1
    /\ ~Serving(c) /\ c \in clients
    /\ shown' = [shown EXCEPT ![c] = r]
    /\ since' = (IF r # <<>> /\ Position(r[1]) < since[c]
                 THEN [since EXCEPT ![c] = Position(r[1])] ELSE since)
    /\ clients' = clients /\ channel' = channel /\ dropped' = dropped /\ before' = before
    /\ \A d \in Clients : Serving(d)' <=> Serving(d) \/ d = c

Forwards(c) ==
    /\ AckedSame
    /\ Serving(c) /\ c \in clients /\ channel[c] # <<>>
    /\ channel' = [channel EXCEPT ![c] = Tail(@)]
    /\ shown' = [shown EXCEPT ![c] = Append(@, Head(channel[c]))]
    /\ clients' = clients /\ dropped' = dropped /\ since' = since /\ before' = before
    /\ \A d \in Clients : Serving(d)' <=> Serving(d)

Leaves(c) ==
    /\ AckedSame
    /\ clients' = clients \ {c} /\ channel' = [channel EXCEPT ![c] = <<>>]
    /\ dropped' = [dropped EXCEPT ![c] = {}]
    /\ shown' = [shown EXCEPT ![c] = <<>>]
    /\ since' = [since EXCEPT ![c] = 0] /\ before' = [before EXCEPT ![c] = {}]
    /\ \A d \in Clients : Serving(d)' <=> Serving(d) /\ d # c

AllEnds ==
    /\ acked' = acked /\ casting' = {} /\ clients' = {}
    /\ channel' = [c \in Clients |-> <<>>] /\ dropped' = [c \in Clients |-> {}]
    /\ shown' = [c \in Clients |-> <<>>]
    /\ since' = [c \in Clients |-> 0] /\ before' = [c \in Clients |-> {}]
    /\ \A d \in Clients : ~Serving(d)'

\* A writer that appends its line acknowledges it; no other step but a broadcast
\* and the end of the process changes what is to be broadcast.
LEMMA WhatIsAcked ==
    ASSUME AuditTypeOK
    PROVE  /\ \A w \in Entries : WriteStart(w) \/ Rename(w) \/ OpenNew(w) => AckedSame
           /\ \A w \in Entries : WriteLine(w) =>
                \/ AckedSame
                \/ write[w] # "acked" /\ acked' = Append(acked, w) /\ casting' = casting \union {w}
           /\ \A r \in Readers : Reading(r) => AckedSame
           /\ New \/ Tick => AckedSame
<1> USE DEF AckedSame, taskVars
<1>1. \A w \in Entries : WriteStart(w) \/ Rename(w) \/ OpenNew(w) => AckedSame
  BY DEF WriteStart, Rename, OpenNew
<1>2. ASSUME NEW w \in Entries, WriteLine(w)
      PROVE \/ AckedSame
            \/ write[w] # "acked" /\ acked' = Append(acked, w) /\ casting' = casting \union {w}
  <2>1. write[w] # "acked" /\ AppendLine(w)
    BY <1>2 DEF WriteLine
  <2> QED BY <2>1 DEF AppendLine, Announce, Spawn
<1>3. \A r \in Readers : Reading(r) => AckedSame
  BY DEF Reading, RecentStart, RecentOpen, RecentRead
<1>4. New \/ Tick => AckedSame
  BY DEF New, Tick
<1> QED BY <1>1, <1>2, <1>3, <1>4

LEMMA ServingMoves ==
    ASSUME Handlers, NEW c \in Clients, NEW s, StageIs(c, s)
    PROVE  \A d \in Clients : Serving(d)' <=> IF d = c THEN s \in {"live", "refresh"} ELSE Serving(d)
BY DEF Handlers, StageIs, Serving

LEMMA LeaveLeaves ==
    ASSUME Handlers, NEW c \in Clients, Leave(c), AckedSame
    PROVE  Leaves(c)
<1>1. \A d \in Clients : Serving(d)' <=> Serving(d) /\ d # c
  BY ServingMoves DEF Leave
<1> QED BY <1>1 DEF Leave, Leaves, Unsubscribe

\* Who reads is a handler that has still to replay, or no client; the file that a
\* reader opened holds what was acknowledged up to an entry, and to no less than
\* the client of a handler has been told when it joined.
Readings ==
    /\ \A c \in Clients : reading[c] \in {"reading", "opened", "apart"} => Replays(c)
    /\ \A r \in Readers : reading[r] # "apart" => held[r] = <<>>
    /\ \A r \in Readers : Genuine(held[r])
    /\ \A c \in Clients : since[c] <= Len(acked) + 1
    /\ "torn" \notin faulted =>
        \A r \in Readers : reading[r] = "apart" =>
            \E q \in 0 .. Len(acked) : UpTo(held[r], q) /\ (r \in clients => since[r] <= q + 1)

LEMMA NothingReplayed ==
    ASSUME AuditTypeOK, Readings, NEW c \in Clients
    PROVE  /\ Faithfully(<<>>)
           /\ \E q \in 0 .. Len(acked) : UpTo(<<>>, q) /\ since[c] <= q + 1
<1>1. Len(acked) \in 0 .. Len(acked) /\ acked \in Seq(Entries)
  BY DEF AuditTypeOK
<1>2. UpTo(<<>>, Len(acked)) /\ Faithfully(<<>>)
  BY <1>1 DEF UpTo, Faithfully
<1> QED BY <1>1, <1>2 DEF Readings

LEMMA WhatIsReplayed ==
    ASSUME AuditTypeOK, WrittenOnce, Newest, Readings,
           NEW c \in Clients, c \in clients, reading[c] \in {"opened", "apart"}
    PROVE  LET r == Recent(LinesFor(c), ReplaySize)
           IN  /\ Faithfully(r)
               /\ "torn" \notin faulted => \E q \in 0 .. Len(acked) : UpTo(r, q) /\ since[c] <= q + 1
<1> DEFINE s == LinesFor(c)
<1>1. c \in Readers /\ Len(acked) \in 0 .. Len(acked)
  BY DEF AuditTypeOK
<1>2. Genuine(s)
  BY <1>1, FileGenuine DEF LinesFor, Readings
<1>3. ASSUME "torn" \notin faulted PROVE \E q \in 0 .. Len(acked) : UpTo(s, q) /\ since[c] <= q + 1
  <2>1. CASE reading[c] = "opened"
    <3>1. s = log /\ UpTo(log, Len(acked))
      BY <1>3, <2>1, FileGenuine DEF LinesFor
    <3> QED BY <1>1, <3>1 DEF Readings
  <2>2. CASE reading[c] = "apart"
    <3>1. s = held[c]
      BY <2>2 DEF LinesFor
    <3> HIDE DEF s
    <3> QED BY <1>1, <1>3, <2>2, <3>1 DEF Readings
  <2> QED BY <2>1, <2>2
<1> HIDE DEF s
<1>4. Faithfully(Recent(s, ReplaySize)) /\ \A q : UpTo(s, q) => UpTo(Recent(s, ReplaySize), q)
  BY <1>2, RecentFaithful
<1> QED BY <1>3, <1>4 DEF s

LEMMA StreamKinds ==
    ASSUME AuditTypeOK, WrittenOnce, Newest, Handlers, Contents, Readings, [Next]_vars
    PROVE  \/ AckedSame /\ StreamsSame
           \/ \E w \in Entries : Acks(w) \/ Casts(w)
           \/ \E c \in Clients :
                \/ Joins(c) \/ Forwards(c) \/ Leaves(c)
                \/ \E r : Replayed(c, r)
           \/ AllEnds
<1> DEFINE Goal ==
           \/ AckedSame /\ StreamsSame
           \/ \E w \in Entries : Acks(w) \/ Casts(w)
           \/ \E c \in Clients :
                \/ Joins(c) \/ Forwards(c) \/ Leaves(c)
                \/ \E r : Replayed(c, r)
           \/ AllEnds
<1>1. ASSUME UNCHANGED hubVars, UNCHANGED <<shown, since, before>>,
             \A c \in Clients : Serving(c)' <=> Serving(c)
      PROVE  StreamsSame
  BY <1>1 DEF StreamsSame, hubVars
<1>2. ASSUME UNCHANGED streamVars
      PROVE  UNCHANGED <<shown, since, before>> /\ \A c \in Clients : Serving(c)' <=> Serving(c)
  BY <1>2 DEF streamVars, Serving
<1>3. UNCHANGED auditVars => AckedSame
  BY DEF auditVars, taskVars, AckedSame
<1>4. ASSUME NEW w \in Entries, Operation(w) PROVE Goal
  <2>1. CASE Begin(w) \/ End(w)
    BY <1>1, <1>2, <1>3, <2>1 DEF Begin, End
  <2>2. CASE WriteEntry(w)
    <3>1. StreamsSame
      BY <1>1, <1>2, <2>2 DEF WriteEntry
    <3>2. AckedSame \/ (write[w] # "acked" /\ acked' = Append(acked, w) /\ casting' = casting \union {w})
      BY <2>2, WhatIsAcked DEF WriteEntry, Writing
    <3> QED BY <3>1, <3>2 DEF Acks
  <2>3. CASE BroadcastEntry(w)
    <3>1. UNCHANGED <<shown, since, before>> /\ \A c \in Clients : Serving(c)' <=> Serving(c)
      BY <1>2, <2>3 DEF BroadcastEntry
    <3>2. Broadcast(w) /\ w \in casting /\ acked' = acked /\ casting' = casting \ {w}
      BY <2>3 DEF BroadcastEntry, BroadcastDone, Cast
    <3> QED BY <3>1, <3>2 DEF Casts
  <2>4. CASE NotifyStatus(w)
    <3>1. UNCHANGED auditVars /\ UNCHANGED hubVars /\ UNCHANGED <<shown, since, before, stage>>
      BY <2>4 DEF NotifyStatus
    <3> QED BY <1>1, <1>3, <3>1 DEF Serving
  <2> QED BY <1>4, <2>1, <2>2, <2>3, <2>4 DEF Operation
<1>5. ASSUME NEW c \in Clients, NEW s, StageIs(c, s), Serving(c) <=> s \in {"live", "refresh"}
      PROVE  \A d \in Clients : Serving(d)' <=> Serving(d)
  BY <1>5, ServingMoves
<1>6. ASSUME NEW c \in Clients, Connect(c) \/ SubscribeStatus(c) \/ TakeSignal(c) \/ TakeTick(c)
      PROVE  Goal
  <2>1. UNCHANGED auditVars /\ UNCHANGED hubVars /\ UNCHANGED <<shown, since, before>>
    BY <1>6 DEF Connect, SubscribeStatus, TakeSignal, TakeTick
  <2>2. \E s : StageIs(c, s) /\ (Serving(c) <=> s \in {"live", "refresh"})
    BY <1>6 DEF Connect, SubscribeStatus, TakeSignal, TakeTick, Serving
  <2> QED BY <1>1, <1>3, <1>5, <2>1, <2>2
<1>7. ASSUME NEW c \in Clients, SendStatus(c) PROVE Goal
  <2>1. UNCHANGED auditVars /\ UNCHANGED hubVars /\ UNCHANGED <<shown, since, before>>
    BY <1>7 DEF SendStatus
  <2>2. \E s : StageIs(c, s) /\ (Serving(c) <=> s \in {"live", "refresh"})
    BY <1>7 DEF SendStatus, Serving
  <2> QED BY <1>1, <1>3, <1>5, <2>1, <2>2
<1>8. ASSUME NEW c \in Clients, Join(c) PROVE Goal
  <2>1. stage[c] = "asked" /\ UNCHANGED auditVars /\ shown' = shown
    BY <1>8 DEF Join
  <2>2. ~Serving(c) /\ c \notin clients
    BY <2>1 DEF Handlers, Serving, Streaming
  <2>3. CASE /\ Subscribe(c) /\ StageIs(c, "joined")
             /\ since' = [since EXCEPT ![c] = Len(acked) + 1]
             /\ before' = [before EXCEPT ![c] = Acknowledged \ casting]
    <3>1. \A d \in Clients : Serving(d)' <=> Serving(d)
      BY <1>5, <2>2, <2>3
    <3> QED BY <1>3, <2>1, <2>2, <2>3, <3>1 DEF Subscribe, Joins
  <2>4. CASE StageIs(c, "off") /\ UNCHANGED <<hubVars, since, before>>
    <3>1. \A d \in Clients : Serving(d)' <=> Serving(d)
      BY <1>5, <2>2, <2>4
    <3> QED BY <1>1, <1>3, <2>1, <2>4, <3>1
  <2> QED BY <1>8, <2>3, <2>4 DEF Join
<1>9. ASSUME NEW c \in Clients, Replays(c)
      PROVE  ~Serving(c) /\ c \in clients /\ shown[c] = <<>>
  <2>1. stage[c] \in {"stated", "joined"}
    BY <1>9 DEF Replays
  <2> QED BY <2>1 DEF Serving, Handlers, Streaming, Contents
<1>10. ASSUME NEW c \in Clients, ReplayStart(c) PROVE Goal
  <2>1. UNCHANGED hubVars /\ UNCHANGED <<shown, since, before>> /\ Replays(c)
    BY <1>10 DEF ReplayStart
  <2>2. CASE RecentStart(c) /\ UNCHANGED stage
    <3>1. AckedSame
      BY <2>2, WhatIsAcked DEF Reading
    <3> QED BY <1>1, <2>1, <2>2, <3>1 DEF Serving
  <2>3. CASE StageIs(c, "live") /\ UNCHANGED auditVars
    <3>1. \A d \in Clients : Serving(d)' <=> Serving(d) \/ d = c
      BY <2>3, ServingMoves
    <3>2. shown' = [shown EXCEPT ![c] = <<>>]
      BY <1>9, <2>1 DEF Contents
    <3>3. Replayed(c, <<>>)
      BY <1>3, <1>9, <2>1, <2>3, <3>1, <3>2, NothingReplayed DEF Replayed, hubVars
    <3> QED BY <3>3
  <2> QED BY <1>10, <2>2, <2>3 DEF ReplayStart
<1>17. ASSUME NEW c \in Clients, ReplayOpen(c) PROVE Goal
  <2>1. AckedSame
    BY <1>17, WhatIsAcked DEF ReplayOpen, Reading
  <2>2. CASE Leave(c)
    BY <2>1, <2>2, LeaveLeaves
  <2>3. CASE UNCHANGED <<hubVars, streamVars>>
    BY <1>1, <1>2, <2>1, <2>3
  <2> QED BY <1>17, <2>2, <2>3 DEF ReplayOpen
<1>11. ASSUME NEW c \in Clients, Replay(c) PROVE Goal
  <2>1. AckedSame
    BY <1>11, WhatIsAcked DEF Replay, Reading
  <2>2. Replays(c) /\ reading[c] \in {"opened", "apart"}
    BY <1>11 DEF Replay, RecentRead
  <2> DEFINE r == Recent(LinesFor(c), ReplaySize)
  <2>3. /\ shown' = [shown EXCEPT ![c] = r]
        /\ since' = (IF r # <<>> /\ Position(r[1]) < since[c]
                     THEN [since EXCEPT ![c] = Position(r[1])] ELSE since)
        /\ StageIs(c, "live") /\ UNCHANGED hubVars /\ before' = before
    BY <1>11 DEF Replay
  <2>4. c \in clients
    BY <1>9, <2>2
  <2>5. /\ Faithfully(r)
        /\ "torn" \notin faulted => \E q \in 0 .. Len(acked) : UpTo(r, q) /\ since[c] <= q + 1
    BY <2>2, <2>4, WhatIsReplayed
  <2> HIDE DEF r
  <2>6. \A d \in Clients : Serving(d)' <=> Serving(d) \/ d = c
    BY <2>3, ServingMoves
  <2>7. Replayed(c, r)
    BY <1>9, <2>1, <2>2, <2>3, <2>5, <2>6 DEF Replayed, hubVars
  <2> QED BY <2>7
<1>12. ASSUME NEW c \in Clients, Forward(c) PROVE Goal
  <2>1. Serving(c) /\ UNCHANGED <<auditVars, stage>>
    BY <1>12 DEF Forward, Serving
  <2>2. Forwards(c)
    BY <1>3, <1>12, <2>1 DEF Forward, Receive, Forwards, Serving
  <2> QED BY <2>2
<1>13. ASSUME NEW c \in Clients, Disconnect(c) PROVE Goal
  BY <1>3, <1>13, LeaveLeaves DEF Disconnect
<1>14. CASE ExitAll
  BY <1>14 DEF ExitAll, Exit, AllEnds, Serving
<1>15. CASE Start \/ \E r \in Readers : Audit(r)
  <2>1. UNCHANGED <<hubVars, streamVars>> /\ AckedSame
    BY <1>15, WhatIsAcked DEF Start, Audit
  <2> QED BY <1>1, <1>2, <2>1
<1>16. CASE UNCHANGED vars
  BY <1>1, <1>2, <1>3, <1>16 DEF vars
<1> QED BY <1>4, <1>6, <1>7, <1>8, <1>10, <1>11, <1>12, <1>13, <1>14, <1>15, <1>16, <1>17 DEF Next, Stream

LEMMA AckedTyped ==
    ASSUME AuditTypeOK
    PROVE  /\ acked \in Seq(Entries) /\ Len(acked) \in Nat /\ DOMAIN acked = 1 .. Len(acked)
           /\ Acknowledged \subseteq Entries
BY DEF AuditTypeOK, Acknowledged

LEMMA CastIs ==
    ASSUME Contents, clients \subseteq Clients, NEW w \in Entries, Broadcast(w)
    PROVE  /\ clients' = clients
           /\ channel' \in [Clients -> Seq(Entries)] /\ dropped' \in [Clients -> SUBSET Entries]
           /\ \A c \in Clients : \/ channel'[c] = channel[c] /\ dropped'[c] = dropped[c] /\ c \notin clients
                                 \/ channel'[c] = Append(channel[c], w) /\ dropped'[c] = dropped[c] /\ c \in clients
                                 \/ channel'[c] = channel[c] /\ dropped'[c] = dropped[c] \union {w} /\ c \in clients
<1> DEFINE full == {c \in clients : Len(channel[c]) >= BufferSize}
<1>1. /\ channel' = [c \in Clients |-> IF c \in clients \ full
                                       THEN Append(channel[c], w) ELSE channel[c]]
      /\ dropped' = [c \in Clients |-> IF c \in full THEN dropped[c] \union {w} ELSE dropped[c]]
      /\ clients' = clients
  BY DEF Broadcast
<1>2. full \subseteq clients
  OBVIOUS
<1> HIDE DEF full
<1>3. \A c \in Clients : channel[c] \in Seq(Entries) /\ Append(channel[c], w) \in Seq(Entries)
                         /\ dropped[c] \in SUBSET Entries
  BY DEF Contents
<1>4. channel' \in [Clients -> Seq(Entries)]
  BY <1>1, <1>3
<1>5. dropped' \in [Clients -> SUBSET Entries]
  BY <1>1, <1>3
<1> QED BY <1>1, <1>2, <1>4, <1>5

LEMMA ContentsStep ==
    ASSUME AuditTypeOK, WrittenOnce, Newest, Handlers, Contents, Readings, [Next]_vars
    PROVE  Contents'
<1> USE DEF Contents
<1>1. ASSUME StreamsSame PROVE Contents'
  BY <1>1 DEF StreamsSame
<1>2. ASSUME NEW w \in Entries, Casts(w) PROVE Contents'
  <2>1. clients \subseteq Clients
    BY DEF Handlers
  <2>2. Broadcast(w) /\ shown' = shown /\ since' = since /\ before' = before
        /\ \A c \in Clients : Serving(c)' <=> Serving(c)
    BY <1>2 DEF Casts
  <2>3. /\ clients' = clients
        /\ channel' \in [Clients -> Seq(Entries)] /\ dropped' \in [Clients -> SUBSET Entries]
        /\ \A c \in Clients : c \notin clients => channel'[c] = channel[c]
    BY <2>1, <2>2, CastIs
  <2> QED BY <2>2, <2>3
<1>3. ASSUME NEW c \in Clients, Joins(c) PROVE Contents'
  <2>1. Len(acked) + 1 \in Nat /\ Acknowledged \ casting \in SUBSET Entries /\ <<>> \in Seq(Entries)
    BY AckedTyped
  <2> QED BY <1>3, <2>1 DEF Joins
<1>4. ASSUME NEW c \in Clients, Forwards(c) PROVE Contents'
  <2>1. channel[c] \in Seq(Entries) /\ shown[c] \in Seq(Entries) /\ channel[c] # <<>>
    BY <1>4 DEF Forwards
  <2>2. Tail(channel[c]) \in Seq(Entries) /\ Append(shown[c], Head(channel[c])) \in Seq(Entries)
    BY <2>1
  <2> QED BY <1>4, <2>2 DEF Forwards
<1>5. ASSUME NEW c \in Clients, Leaves(c) PROVE Contents'
  <2>1. <<>> \in Seq(Entries)
    OBVIOUS
  <2> QED BY <1>5, <2>1 DEF Leaves
<1>6. ASSUME NEW c \in Clients, NEW r, Replayed(c, r) PROVE Contents'
  <2>2. r \in Seq(Entries) /\ (r # <<>> => r[1] \in Acknowledged)
    <3>1. r \in Seq(Entries) /\ \A k \in DOMAIN r : r[k] \in Acknowledged
      BY <1>6 DEF Replayed, Faithfully
    <3>2. r # <<>> => 1 \in DOMAIN r
      BY <3>1
    <3> QED BY <3>1, <3>2
  <2>3. r # <<>> => Position(r[1]) \in Nat
    <3> SUFFICES ASSUME r # <<>> PROVE Position(r[1]) \in Nat
      OBVIOUS
    <3>1. PICK i \in DOMAIN acked : acked[i] = r[1]
      BY <2>2 DEF Acknowledged
    <3> QED BY <3>1, PositionIs, AckedTyped
  <2>4. since' \in [Clients -> Nat]
    BY <1>6, <2>3 DEF Replayed
  <2>5. shown' \in [Clients -> Seq(Entries)] /\ \A d \in Clients : ~Serving(d)' => shown'[d] = <<>>
    BY <1>6, <2>2 DEF Replayed
  <2> QED BY <1>6, <2>4, <2>5 DEF Replayed
<1>7. ASSUME AllEnds PROVE Contents'
  <2>1. <<>> \in Seq(Entries)
    OBVIOUS
  <2> QED BY <1>7, <2>1 DEF AllEnds
<1> QED BY <1>1, <1>2, <1>3, <1>4, <1>5, <1>6, <1>7, StreamKinds DEF Acks

LEMMA FaultsStay == AuditStep => faulted \subseteq faulted'
<1> USE DEF auditVars, procVars
<1>1. \A w \in Entries : WriteStart(w) \/ Rename(w) \/ OpenNew(w) \/ WriteLine(w) \/ Send(w) \/ BroadcastDone(w)
        => faulted \subseteq faulted'
  BY DEF WriteStart, Rename, Reopen, OpenNew, WriteLine, AppendLine, Send, BroadcastDone
<1>2. (\E r \in Readers : Reading(r)) \/ Tick \/ Exit \/ New => faulted \subseteq faulted'
  BY DEF Reading, RecentStart, RecentOpen, RecentRead, Tick, Exit, New
<1> QED BY <1>1, <1>2 DEF AuditStep, AuditNext, Writing

--------------------------------------------------------------------------------
(* What a reader holds *)

Active == {"reading", "opened", "apart"}

LEMMA ReaderMoves ==
    ASSUME AuditTypeOK, AuditStep, NEW r \in Readers
    PROVE  \/ reading'[r] = reading[r] /\ held'[r] = held[r]
           \/ reading[r] = "opened" /\ reading'[r] = "apart" /\ held'[r] = log /\ acked' = acked
           \/ reading[r] = "reading" /\ reading'[r] = "apart" /\ held'[r] = held[r] /\ acked' = acked
           \/ reading[r] # "apart" /\ reading'[r] # "apart" /\ held'[r] = held[r]
           \/ reading'[r] = "idle" /\ held'[r] = <<>>
<1> USE DEF auditVars, readVars
<1> DEFINE Goal ==
           \/ reading'[r] = reading[r] /\ held'[r] = held[r]
           \/ reading[r] = "opened" /\ reading'[r] = "apart" /\ held'[r] = log /\ acked' = acked
           \/ reading[r] = "reading" /\ reading'[r] = "apart" /\ held'[r] = held[r] /\ acked' = acked
           \/ reading[r] # "apart" /\ reading'[r] # "apart" /\ held'[r] = held[r]
           \/ reading'[r] = "idle" /\ held'[r] = <<>>
<1>0. DOMAIN reading = Readers /\ DOMAIN held = Readers
  BY DEF AuditTypeOK
<1>1. ASSUME NEW w \in Entries, WriteStart(w) \/ OpenNew(w) \/ WriteLine(w) \/ Send(w) \/ BroadcastDone(w)
      PROVE  Goal
  BY <1>1 DEF WriteStart, OpenNew, WriteLine, Send, BroadcastDone
<1>2. ASSUME NEW w \in Entries, Rename(w) PROVE Goal
  BY <1>2 DEF Rename, Detach
<1>3. ASSUME NEW q \in Readers, RecentStart(q) PROVE Goal
  BY <1>0, <1>3 DEF RecentStart
<1>4. ASSUME NEW q \in Readers, RecentOpen(q) PROVE Goal
  <2>1. held' = held /\ acked' = acked /\ reading[q] = "reading"
        /\ reading' \in {[reading EXCEPT ![q] = t] : t \in {"panicked", "opened", "apart"}}
    BY <1>4 DEF RecentOpen
  <2> QED BY <1>0, <2>1
<1>5. ASSUME NEW q \in Readers, RecentRead(q) PROVE Goal
  BY <1>0, <1>5 DEF RecentRead
<1>6. Tick \/ New \/ UNCHANGED auditVars => Goal
  BY DEF Tick, New
<1>7. Exit => Goal
  BY DEF Exit
<1> QED BY <1>1, <1>2, <1>3, <1>4, <1>5, <1>6, <1>7 DEF AuditStep, AuditNext, Writing, Reading

\* A handler whose read is under way does nothing else.
LEMMA ReadersWait ==
    ASSUME AuditTypeOK, Handlers, Readings, [Next]_vars, NEW c \in Clients, reading'[c] \in Active
    PROVE  Replays(c)'
<1>0. c \in Readers /\ DOMAIN reading = Readers /\ DOMAIN stage = Clients /\ DOMAIN path = Clients
  BY DEF AuditTypeOK, Handlers
<1>1. reading[c] \in Active => Replays(c)
  BY DEF Readings, Active
<1>2. ASSUME stage'[c] = stage[c], path'[c] = path[c], reading[c] \in Active PROVE Replays(c)'
  BY <1>1, <1>2 DEF Replays, Dashboard
<1>3. ASSUME NEW w \in Entries, Operation(w) PROVE Replays(c)'
  <2>1. stage' = stage /\ path' = path
    BY <1>3 DEF Operation, Begin, WriteEntry, End, BroadcastEntry, NotifyStatus, streamVars
  <2>2. reading[c] \in Active
    <3>1. CASE UNCHANGED reading
      BY <3>1
    <3>2. CASE Rename(w)
      BY <1>0, <3>2 DEF Rename, Detach, readVars, Active
    <3>3. UNCHANGED reading \/ Rename(w)
      BY <1>3 DEF Operation, Begin, WriteEntry, End, BroadcastEntry, NotifyStatus, Writing, WriteStart,
                  OpenNew, WriteLine, BroadcastDone, auditVars, readVars
    <3> QED BY <3>1, <3>2, <3>3
  <2> QED BY <1>2, <2>1, <2>2
<1>4. ASSUME NEW d \in Clients, Stream(d), d # c PROVE Replays(c)'
  <2>1. /\ stage' = stage \/ \E s : stage' = [stage EXCEPT ![d] = s]
        /\ path' = path \/ \E s : path' = [path EXCEPT ![d] = s]
    BY <1>4 DEF Stream, Connect, Join, SubscribeStatus, SendStatus, ReplayStart, ReplayOpen, Replay, Forward,
         TakeSignal, TakeTick, Disconnect, Leave, StageIs, streamVars
  <2>2. reading' = reading \/ \E s : reading' = [reading EXCEPT ![d] = s]
    BY <1>4 DEF Stream, Connect, Join, SubscribeStatus, SendStatus, ReplayStart, ReplayOpen, Replay, Forward,
         TakeSignal, TakeTick, Disconnect, auditVars, readVars, RecentStart, RecentOpen, RecentRead
  <2>3. stage'[c] = stage[c] /\ path'[c] = path[c] /\ reading'[c] = reading[c]
    BY <1>0, <1>4, <2>1, <2>2
  <2> QED BY <1>2, <2>3
<1>5. ASSUME Connect(c) \/ Join(c) \/ SubscribeStatus(c) \/ SendStatus(c) \/ Forward(c) \/ TakeSignal(c)
             \/ TakeTick(c) \/ Disconnect(c)
      PROVE  FALSE
  <2>1. reading[c] \in Active
    BY <1>5 DEF Connect, Join, SubscribeStatus, SendStatus, Forward, TakeSignal, TakeTick, Disconnect,
                auditVars, readVars
  <2>2. Replays(c)
    BY <1>1, <2>1
  <2> QED BY <1>5, <2>2 DEF Replays, Connect, Join, SubscribeStatus, SendStatus, Forward, TakeSignal,
                            TakeTick, Disconnect
<1>6. ASSUME ReplayStart(c) PROVE Replays(c)'
  <2>1. Replays(c) /\ path' = path
    BY <1>6 DEF ReplayStart
  <2>2. stage' = stage
    BY <1>6 DEF ReplayStart, auditVars, readVars, Active
  <2> QED BY <2>1, <2>2 DEF Replays, Dashboard
<1>7. ASSUME ReplayOpen(c) PROVE Replays(c)'
  <2>1. file # "nil"
    BY <1>0, <1>7 DEF ReplayOpen, RecentOpen, Active
  <2> QED BY <1>7, <2>1 DEF ReplayOpen, streamVars, Replays, Dashboard
<1>8. ASSUME Replay(c) PROVE FALSE
  BY <1>0, <1>8 DEF Replay, RecentRead, Active
<1>9. ASSUME NEW q \in Readers, Audit(q) PROVE Replays(c)'
  <2>1. q # c /\ stage' = stage /\ path' = path
    BY <1>9 DEF Audit, streamVars
  <2>2. reading'[c] = reading[c]
    BY <1>0, <1>9, <2>1 DEF Audit, Reading, RecentStart, RecentOpen, RecentRead
  <2> QED BY <1>2, <2>1, <2>2
<1>10. ASSUME ExitAll PROVE FALSE
  BY <1>0, <1>10 DEF ExitAll, Exit, Active
<1>11. ASSUME Start \/ UNCHANGED vars PROVE Replays(c)'
  <2>1. UNCHANGED <<stage, path, reading>>
    BY <1>11 DEF Start, vars, streamVars, auditVars, readVars, New, Tick
  <2> QED BY <1>2, <2>1
<1>12. ASSUME Stream(c) PROVE Replays(c)'
  BY <1>5, <1>6, <1>7, <1>8, <1>12 DEF Stream
<1> QED BY <1>3, <1>4, <1>9, <1>10, <1>11, <1>12 DEF Next

\* What was acknowledged stays, in its place.
LEMMA AckedGrows ==
    ASSUME AuditTypeOK, WrittenOnce, Newest, Handlers, Contents, Readings, [Next]_vars
    PROVE  /\ Len(acked) \in Nat /\ Len(acked') \in Nat /\ Len(acked) <= Len(acked')
           /\ \A i \in DOMAIN acked : i \in DOMAIN acked' /\ acked'[i] = acked[i]
           /\ Acknowledged \subseteq Acknowledged'
<1>1. acked \in Seq(Entries) /\ Len(acked) \in Nat
  BY AckedTyped
<1>2. acked' = acked \/ \E w \in Entries : acked' = Append(acked, w)
  BY StreamKinds DEF AckedSame, Acks, Casts, Joins, Replayed, Forwards, Leaves, AllEnds
<1>3. /\ Len(acked') \in Nat /\ Len(acked) <= Len(acked')
      /\ \A i \in DOMAIN acked : i \in DOMAIN acked' /\ acked'[i] = acked[i]
  <2>1. CASE acked' = acked
    BY <1>1, <2>1
  <2>2. ASSUME NEW w \in Entries, acked' = Append(acked, w)
        PROVE  /\ Len(acked') \in Nat /\ Len(acked) <= Len(acked')
               /\ \A i \in DOMAIN acked : i \in DOMAIN acked' /\ acked'[i] = acked[i]
    BY <1>1, <2>2
  <2> QED BY <1>2, <2>1, <2>2
<1>4. Acknowledged \subseteq Acknowledged'
  BY <1>3 DEF Acknowledged
<1> QED BY <1>1, <1>3, <1>4

\* A client's position is never moved ahead, but when it joins.
LEMMA SinceMoves ==
    ASSUME AuditTypeOK, WrittenOnce, Newest, Handlers, Contents, Readings, [Next]_vars
    PROVE  /\ \A c \in Clients : since'[c] <= Len(acked) + 1
           /\ \A c \in clients' : c \in clients => since'[c] <= since[c]
<1> DEFINE Goal == /\ \A c \in Clients : since'[c] <= Len(acked) + 1
                   /\ \A c \in clients' : c \in clients => since'[c] <= since[c]
<1>1. /\ since \in [Clients -> Nat] /\ Len(acked) \in Nat /\ clients \subseteq Clients
      /\ \A c \in Clients : since[c] <= Len(acked) + 1
  BY AckedTyped DEF Contents, Handlers, Readings
<1>2. ASSUME since' = since PROVE Goal
  BY <1>1, <1>2
<1>3. ASSUME NEW w \in Entries, Acks(w) \/ Casts(w) PROVE Goal
  BY <1>2, <1>3 DEF Acks, Casts, StreamsSame
<1>4. ASSUME NEW d \in Clients, Joins(d) PROVE Goal
  BY <1>1, <1>4 DEF Joins
<1>5. ASSUME NEW d \in Clients, Forwards(d) PROVE Goal
  BY <1>2, <1>5 DEF Forwards
<1>6. ASSUME NEW d \in Clients, Leaves(d) PROVE Goal
  BY <1>1, <1>6 DEF Leaves
<1>7. ASSUME NEW d \in Clients, NEW r, Replayed(d, r) PROVE Goal
  <2>1. CASE since' = since
    BY <1>2, <2>1
  <2>2. ASSUME r # <<>>, Position(r[1]) < since[d], since' = [since EXCEPT ![d] = Position(r[1])]
        PROVE  Goal
    <3>1. r \in Seq(Entries) /\ \A k \in DOMAIN r : r[k] \in Acknowledged
      BY <1>7 DEF Replayed, Faithfully
    <3>2. r[1] \in Acknowledged
      <4>1. 1 \in DOMAIN r
        BY <2>2, <3>1
      <4> QED BY <3>1, <4>1
    <3>3. PICK i \in DOMAIN acked : acked[i] = r[1]
      BY <3>2 DEF Acknowledged
    <3>4. Position(r[1]) \in Nat
      BY <3>3, PositionIs, AckedTyped
    <3> QED BY <1>1, <2>2, <3>4
  <2> QED BY <1>7, <2>1, <2>2 DEF Replayed
<1>8. ASSUME AllEnds PROVE Goal
  BY <1>1, <1>8 DEF AllEnds
<1>9. ASSUME StreamsSame PROVE Goal
  BY <1>2, <1>9 DEF StreamsSame
<1> QED BY <1>3, <1>4, <1>5, <1>6, <1>7, <1>8, <1>9, StreamKinds

LEMMA ReadingsStep ==
    ASSUME AuditTypeOK, WrittenOnce, Newest, Handlers, Contents, Readings, [Next]_vars
    PROVE  Readings'
<1>1. \A c \in Clients : reading'[c] \in Active => Replays(c)'
  BY ReadersWait
<1>2. ASSUME NEW r \in Readers
      PROVE  \/ reading'[r] = reading[r] /\ held'[r] = held[r]
             \/ reading[r] = "opened" /\ reading'[r] = "apart" /\ held'[r] = log /\ acked' = acked
             \/ reading[r] = "reading" /\ reading'[r] = "apart" /\ held'[r] = held[r] /\ acked' = acked
             \/ reading[r] # "apart" /\ reading'[r] # "apart" /\ held'[r] = held[r]
             \/ reading'[r] = "idle" /\ held'[r] = <<>>
  BY StreamAuditStep, ReaderMoves
<1>3. \A r \in Readers : reading'[r] # "apart" => held'[r] = <<>>
  BY <1>2 DEF Readings
<1>4. ASSUME NEW r \in Readers PROVE Genuine(held[r])'
  <2>1. held'[r] \in {held[r], log, <<>>}
    BY <1>2
  <2>2. Genuine(held'[r])
    <3>1. Genuine(<<>>)
      BY DEF Genuine
    <3> QED BY <2>1, <3>1, FileGenuine DEF Readings
  <2>3. Acknowledged \subseteq Acknowledged'
    BY AckedGrows
  <2> QED BY <2>2, <2>3 DEF Genuine
<1>5. \A c \in Clients : since'[c] <= Len(acked') + 1
  <2>1. since' \in [Clients -> Nat]
    BY ContentsStep DEF Contents
  <2> QED BY <2>1, SinceMoves, AckedGrows
<1>6. ASSUME "torn" \notin faulted', NEW r \in Readers, reading'[r] = "apart"
      PROVE  \E q \in 0 .. Len(acked') : UpTo(held[r], q)' /\ (r \in clients' => since'[r] <= q + 1)
  <2>1. "torn" \notin faulted
    BY <1>6, FaultsStay, StreamAuditStep
  <2>2. \E q \in 0 .. Len(acked) : UpTo(held'[r], q) /\ (r \in clients => since[r] <= q + 1)
    <3>0. Len(acked) \in 0 .. Len(acked) /\ clients \subseteq Clients
      BY AckedTyped DEF Handlers
    <3>1. CASE reading[r] = "apart"
      <4>1. held'[r] = held[r]
        BY <1>2, <1>6, <3>1
      <4> QED BY <2>1, <3>1, <4>1 DEF Readings
    <3>2. CASE reading[r] = "opened"
      <4>1. held'[r] = log
        BY <1>2, <1>6, <3>2
      <4>2. UpTo(log, Len(acked))
        BY <2>1, FileGenuine
      <4> QED BY <3>0, <4>1, <4>2 DEF Readings
    <3>3. CASE reading[r] \notin {"apart", "opened"}
      <4>1. held'[r] = <<>>
        BY <1>2, <1>6, <3>3 DEF Readings
      <4>2. UpTo(<<>>, Len(acked))
        BY <3>0, AckedTyped DEF UpTo
      <4> QED BY <3>0, <4>1, <4>2 DEF Readings
    <3> QED BY <3>1, <3>2, <3>3
  <2>3. PICK q \in 0 .. Len(acked) : UpTo(held'[r], q) /\ (r \in clients => since[r] <= q + 1)
    BY <2>2
  <2>4. q \in 0 .. Len(acked') /\ UpTo(held[r], q)'
    <3>1. held'[r] \in Seq(LogLines)
      BY <1>4 DEF Genuine
    <3>2. q \in 0 .. Len(acked') /\ Len(held'[r]) <= q
          /\ \A i \in DOMAIN held'[r] : held'[r][i] = acked'[q - Len(held'[r]) + i]
      <4> DEFINE s == held'[r]
      <4>1. s \in Seq(LogLines) /\ UpTo(s, q)
        BY <2>3, <3>1
      <4> HIDE DEF s
      <4>2. /\ Len(acked) \in Nat /\ Len(acked') \in Nat /\ Len(acked) <= Len(acked')
            /\ \A i \in DOMAIN acked : i \in DOMAIN acked' /\ acked'[i] = acked[i]
            /\ DOMAIN acked = 1 .. Len(acked) /\ Len(s) \in Nat /\ DOMAIN s = 1 .. Len(s)
        BY <4>1, AckedGrows, AckedTyped
      <4>3. q \in 0 .. Len(acked) /\ Len(s) <= q /\ \A i \in DOMAIN s : s[i] = acked[q - Len(s) + i]
        BY <4>1 DEF UpTo
      <4>4. \A i \in DOMAIN s : q - Len(s) + i \in DOMAIN acked
        BY <4>2, <4>3
      <4>5. q \in 0 .. Len(acked') /\ Len(s) <= q /\ \A i \in DOMAIN s : s[i] = acked'[q - Len(s) + i]
        BY <4>2, <4>3, <4>4
      <4> QED BY <4>5 DEF s
    <3> QED BY <3>2 DEF UpTo
  <2>5. r \in clients' => since'[r] <= q + 1
    <3> SUFFICES ASSUME r \in clients' PROVE since'[r] <= q + 1
      OBVIOUS
    <3>1. clients' \subseteq Clients
      BY StreamKinds DEF StreamsSame, Acks, Casts, Broadcast, Joins, Replayed, Forwards, Leaves, AllEnds, Handlers
    <3>2. reading[r] \in Active
      BY <1>2, <1>6 DEF Active
    <3>3. r \in clients
      <4>1. Replays(r)
        BY <3>1, <3>2 DEF Readings, Active
      <4> QED BY <3>1, <4>1 DEF Replays, Handlers, Streaming
    <3>4. since'[r] <= since[r] /\ since[r] <= q + 1
      BY <2>3, <3>3, SinceMoves
    <3>5. since'[r] \in Nat /\ since[r] \in Nat /\ q \in Nat
      BY <3>1, ContentsStep, AckedTyped DEF Contents
    <3> QED BY <3>4, <3>5
  <2> QED BY <2>4, <2>5
<1> QED BY <1>1, <1>3, <1>4, <1>5, <1>6 DEF Readings, Active

--------------------------------------------------------------------------------
(* No gap *)

Holds(s) == {s[i] : i \in DOMAIN s}

\* From its position on, a registered client is owed every entry that neither
\* its channel nor its stream holds.
NothingMissed ==
    "torn" \notin faulted =>
        \A c \in clients : \A i \in DOMAIN acked : i >= since[c] =>
            acked[i] \in casting \union dropped[c] \union Holds(channel[c]) \union Holds(shown[c])

LEMMA HoldsAppend ==
    ASSUME NEW S, NEW s \in Seq(S), NEW x \in S
    PROVE  Holds(Append(s, x)) = Holds(s) \union {x}
<1>1. /\ DOMAIN Append(s, x) = DOMAIN s \union {Len(s) + 1}
      /\ \A i \in DOMAIN s : Append(s, x)[i] = s[i]
      /\ Append(s, x)[Len(s) + 1] = x
  OBVIOUS
<1> QED BY <1>1, Zenon DEF Holds

LEMMA HoldsTail ==
    ASSUME NEW S, NEW s \in Seq(S), s # <<>>
    PROVE  Head(s) \in S /\ Holds(s) \subseteq {Head(s)} \union Holds(Tail(s))
<1>1. ASSUME NEW i \in DOMAIN s, i # 1 PROVE s[i] \in Holds(Tail(s))
  <2>1. i - 1 \in DOMAIN Tail(s) /\ Tail(s)[i - 1] = s[i]
    BY <1>1
  <2> QED BY <2>1 DEF Holds
<1>2. s[1] = Head(s) /\ Head(s) \in S
  OBVIOUS
<1> QED BY <1>1, <1>2 DEF Holds

LEMMA NothingMissedStep ==
    ASSUME AuditTypeOK, WrittenOnce, Newest, Handlers, Contents, Readings, NothingMissed, [Next]_vars
    PROVE  NothingMissed'
<1> SUFFICES ASSUME "torn" \notin faulted', NEW c \in clients', NEW i \in DOMAIN acked', i >= since'[c]
             PROVE  acked'[i] \in casting' \union dropped'[c] \union Holds(channel'[c]) \union Holds(shown'[c])
  BY DEF NothingMissed, Holds
<1> DEFINE Goal == acked'[i] \in casting' \union dropped'[c] \union Holds(channel'[c]) \union Holds(shown'[c])
<1>1. "torn" \notin faulted
  BY FaultsStay, StreamAuditStep
<1>2. ASSUME NEW d \in clients, NEW j \in DOMAIN acked, j >= since[d]
      PROVE  acked[j] \in casting \union dropped[d] \union Holds(channel[d]) \union Holds(shown[d])
  BY <1>1, <1>2 DEF NothingMissed
<1>3. /\ Len(acked) \in Nat /\ DOMAIN acked = 1 .. Len(acked) /\ acked \in Seq(Entries)
      /\ clients \subseteq Clients
  BY AckedTyped DEF Handlers
<1>4. ASSUME AckedSame /\ StreamsSame PROVE Goal
  BY <1>2, <1>4 DEF AckedSame, StreamsSame
<1>5. ASSUME NEW w \in Entries, Acks(w) PROVE Goal
  <2>1. c \in clients /\ since'[c] = since[c] /\ dropped'[c] = dropped[c] /\ channel'[c] = channel[c] /\ shown'[c] = shown[c]
        /\ casting' = casting \union {w}
    BY <1>5 DEF Acks, StreamsSame
  <2>2. acked' = Append(acked, w)
    BY <1>5 DEF Acks
  <2>3. CASE i \in DOMAIN acked
    <3>1. acked'[i] = acked[i]
      BY <1>3, <2>2, <2>3
    <3> QED BY <1>2, <2>1, <2>3, <3>1
  <2>4. CASE i \notin DOMAIN acked
    <3>1. acked'[i] = w
      BY <1>3, <2>2, <2>4
    <3> QED BY <2>1, <3>1
  <2> QED BY <2>3, <2>4
<1>6. ASSUME NEW w \in Entries, Casts(w) PROVE Goal
  <2>1. c \in clients /\ i \in DOMAIN acked /\ i >= since[c] /\ acked'[i] = acked[i] /\ shown'[c] = shown[c]
    BY <1>6, CastIs, <1>3 DEF Casts
  <2>2. acked[i] \in casting \union dropped[c] \union Holds(channel[c]) \union Holds(shown[c])
    BY <1>2, <2>1
  <2>3. \/ channel'[c] = Append(channel[c], w) /\ dropped'[c] = dropped[c]
        \/ channel'[c] = channel[c] /\ dropped'[c] = dropped[c] \union {w}
    BY <1>3, <1>6, <2>1, CastIs DEF Casts
  <2>4. Holds(Append(channel[c], w)) = Holds(channel[c]) \union {w}
    BY <1>3, <2>1, HoldsAppend DEF Contents
  <2>5. casting' = casting \ {w}
    BY <1>6 DEF Casts
  <2> QED BY <2>1, <2>2, <2>3, <2>4, <2>5
<1>7. ASSUME NEW d \in Clients, Joins(d) PROVE Goal
  <2>1. CASE c = d
    <3>1. since'[c] = Len(acked) + 1 /\ acked' = acked
      BY <1>7, <2>1 DEF Joins, AckedSame, Contents
    <3> QED BY <1>3, <3>1
  <2>2. CASE c # d
    <3>1. c \in clients /\ since'[c] = since[c] /\ dropped'[c] = dropped[c] /\ channel'[c] = channel[c] /\ shown'[c] = shown[c]
          /\ acked' = acked /\ casting' = casting
      BY <1>3, <1>7, <2>2 DEF Joins, AckedSame, Contents
    <3> QED BY <1>2, <3>1
  <2> QED BY <2>1, <2>2
<1>8. ASSUME NEW d \in Clients, Forwards(d) PROVE Goal
  <2>1. c \in clients /\ since'[c] = since[c] /\ dropped'[c] = dropped[c] /\ acked' = acked /\ casting' = casting
    BY <1>8 DEF Forwards, AckedSame
  <2>2. acked[i] \in casting \union dropped[c] \union Holds(channel[c]) \union Holds(shown[c])
    BY <1>2, <2>1
  <2>3. CASE c = d
    <3>1. channel'[c] = Tail(channel[c]) /\ shown'[c] = Append(shown[c], Head(channel[c])) /\ channel[c] # <<>>
          /\ channel[c] \in Seq(Entries) /\ shown[c] \in Seq(Entries)
      BY <1>8, <2>3 DEF Forwards, Contents
    <3>2. Head(channel[c]) \in Entries /\ Holds(channel[c]) \subseteq {Head(channel[c])} \union Holds(Tail(channel[c]))
      BY <3>1, HoldsTail
    <3>3. Holds(shown'[c]) = Holds(shown[c]) \union {Head(channel[c])}
      BY <3>1, <3>2, HoldsAppend
    <3> QED BY <2>1, <2>2, <3>1, <3>2, <3>3
  <2>4. CASE c # d
    <3>1. channel'[c] = channel[c] /\ shown'[c] = shown[c]
      BY <1>3, <1>8, <2>1, <2>4 DEF Forwards, Contents
    <3> QED BY <2>1, <2>2, <3>1
  <2> QED BY <2>3, <2>4
<1>9. ASSUME NEW d \in Clients, Leaves(d) PROVE Goal
  <2>1. c \in clients /\ c # d /\ acked' = acked /\ casting' = casting
    BY <1>9 DEF Leaves, AckedSame
  <2>2. since'[c] = since[c] /\ dropped'[c] = dropped[c] /\ channel'[c] = channel[c] /\ shown'[c] = shown[c]
    BY <1>3, <1>9, <2>1 DEF Leaves, Contents
  <2> QED BY <1>2, <2>1, <2>2
<1>10. ASSUME NEW d \in Clients, NEW r, Replayed(d, r) PROVE Goal
  <2>1. c \in clients /\ dropped'[c] = dropped[c] /\ channel'[c] = channel[c] /\ acked' = acked /\ casting' = casting
    BY <1>10 DEF Replayed, AckedSame
  <2>2. CASE since'[c] = since[c]
    <3>1. acked[i] \in casting \union dropped[c] \union Holds(channel[c]) \union Holds(shown[c])
      BY <1>2, <2>1, <2>2
    <3>2. c = d => shown[c] = <<>>
      BY <1>10 DEF Replayed, Contents
    <3>3. c # d => shown'[c] = shown[c]
      BY <1>3, <1>10, <2>1 DEF Replayed, Contents
    <3>4. Holds(shown[c]) \subseteq Holds(shown'[c])
      BY <3>2, <3>3 DEF Holds
    <3> QED BY <2>1, <3>1, <3>4
  <2>3. CASE since'[c] # since[c]
    <3>1. c = d /\ r # <<>> /\ since'[c] = Position(r[1]) /\ shown'[c] = r /\ shown[c] = <<>>
      BY <1>3, <1>10, <2>1, <2>3 DEF Replayed, Contents
    <3>2. PICK q \in 0 .. Len(acked) : UpTo(r, q) /\ since[c] <= q + 1
      BY <1>1, <1>10, <3>1 DEF Replayed
    <3>3. r \in Seq(Entries) /\ Len(r) \in Nat /\ DOMAIN r = 1 .. Len(r) /\ Len(r) > 0
      BY <1>10, <3>1 DEF Replayed, Faithfully
    <3>4. Len(r) <= q /\ \A k \in DOMAIN r : r[k] = acked[q - Len(r) + k]
      BY <3>2 DEF UpTo
    <3> DEFINE from == q - Len(r) + 1
    <3>5. from \in DOMAIN acked /\ r[1] = acked[from]
      BY <1>3, <3>2, <3>3, <3>4
    <3>6. since'[c] = from
      BY <3>1, <3>5, PositionIs
    <3>7. i \in DOMAIN acked /\ i >= from
      BY <2>1, <3>6
    <3>8. CASE i <= q
      <4>1. i - from + 1 \in 1 .. Len(r)
        BY <1>3, <3>2, <3>3, <3>4, <3>7, <3>8
      <4>2. q - Len(r) + (i - from + 1) = i
        BY <1>3, <3>2, <3>3, <3>7
      <4>3. i - from + 1 \in DOMAIN r /\ r[i - from + 1] = acked[i]
        BY <3>3, <3>4, <4>1, <4>2
      <4> QED BY <2>1, <3>1, <4>3 DEF Holds
    <3>9. CASE i > q
      <4>1. i >= since[c]
        <5>1. since[c] \in Nat
          BY <1>3, <2>1 DEF Contents
        <5> QED BY <1>3, <3>2, <3>7, <3>9, <5>1
      <4>2. acked[i] \in casting \union dropped[c] \union Holds(channel[c]) \union Holds(shown[c])
        BY <1>2, <2>1, <3>7, <4>1
      <4>3. Holds(shown[c]) = {}
        BY <3>1 DEF Holds
      <4> QED BY <2>1, <4>2, <4>3
    <3> QED BY <1>3, <3>2, <3>7, <3>8, <3>9
  <2> QED BY <2>2, <2>3
<1>11. ASSUME AllEnds PROVE Goal
  BY <1>11 DEF AllEnds
<1> QED BY <1>4, <1>5, <1>6, <1>7, <1>8, <1>9, <1>10, <1>11, StreamKinds

--------------------------------------------------------------------------------
(* How often an entry is shown *)

Places(e, s) == {i \in DOMAIN s : s[i] = e}

LEMMA PlacesFinite ==
    ASSUME NEW e, NEW s \in Seq(Entries)
    PROVE  /\ IsFiniteSet(Places(e, s)) /\ Places(e, s) \subseteq 1 .. Len(s)
           /\ Times(e, s) = Cardinality(Places(e, s)) /\ Times(e, s) \in Nat
<1>1. Places(e, s) \subseteq 1 .. Len(s) /\ Len(s) \in Nat
  BY DEF Places
<1>3. IsFiniteSet(1 .. Len(s))
  BY <1>1, FS_Interval
<1>2. Times(e, s) = Cardinality(Places(e, s))
  BY DEF Places, Times
<1> QED BY <1>1, <1>2, <1>3, FS_Subset, FS_CardinalityType

LEMMA TimesNothing ==
    ASSUME NEW e
    PROVE  Times(e, <<>>) = 0
<1>1. {i \in DOMAIN <<>> : <<>>[i] = e} = {}
  OBVIOUS
<1> QED BY <1>1, FS_EmptySet, Zenon DEF Times

LEMMA TimesAppend ==
    ASSUME NEW e, NEW s \in Seq(Entries), NEW x \in Entries
    PROVE  Times(e, Append(s, x)) = Times(e, s) + IF x = e THEN 1 ELSE 0
<1>1. /\ DOMAIN Append(s, x) = DOMAIN s \union {Len(s) + 1} /\ Len(s) + 1 \notin DOMAIN s
      /\ \A i \in DOMAIN s : Append(s, x)[i] = s[i]
      /\ Append(s, x)[Len(s) + 1] = x /\ Append(s, x) \in Seq(Entries)
  OBVIOUS
<1>4. /\ Times(e, Append(s, x)) = Cardinality(Places(e, Append(s, x)))
      /\ IsFiniteSet(Places(e, s)) /\ Times(e, s) = Cardinality(Places(e, s)) /\ Times(e, s) \in Nat
  BY <1>1, PlacesFinite
<1>2. CASE x = e
  <2>1. Places(e, Append(s, x)) = Places(e, s) \union {Len(s) + 1} /\ Len(s) + 1 \notin Places(e, s)
    BY <1>1, <1>2, Zenon DEF Places
  <2>2. Cardinality(Places(e, s) \union {Len(s) + 1}) = Cardinality(Places(e, s)) + 1
    BY <1>4, <2>1, FS_AddElement
  <2> QED BY <1>2, <1>4, <2>1, <2>2
<1>3. CASE x # e
  <2>1. Places(e, Append(s, x)) = Places(e, s)
    BY <1>1, <1>3, Zenon DEF Places
  <2> QED BY <1>3, <1>4, <2>1
<1> QED BY <1>2, <1>3

\* What comes without repeats before a sequence adds one time at most.
LEMMA TimesBefore ==
    ASSUME NEW e, NEW r \in Seq(Entries), NEW t \in Seq(Entries),
           \A j, k \in DOMAIN r : r[j] = r[k] => j = k
    PROVE  /\ Times(e, r \o t) <= Times(e, t) + 1
           /\ e \notin Holds(r) => Times(e, r \o t) <= Times(e, t)
<1> DEFINE n == Len(r)
           all == r \o t
           late == {i \in Places(e, all) : i > n}
           f == [i \in late |-> i - n]
<1>1. /\ n \in Nat /\ all \in Seq(Entries) /\ Len(t) \in Nat
      /\ DOMAIN r = 1 .. n /\ DOMAIN t = 1 .. Len(t) /\ DOMAIN all = 1 .. n + Len(t)
      /\ \A i \in 1 .. n : all[i] = r[i]
      /\ \A i \in n + 1 .. n + Len(t) : all[i] = t[i - n]
  OBVIOUS
<1> HIDE DEF n, all
<1>2. /\ IsFiniteSet(Places(e, all)) /\ Places(e, all) \subseteq DOMAIN all
      /\ Times(e, all) = Cardinality(Places(e, all)) /\ IsFiniteSet(Places(e, t))
      /\ Times(e, t) = Cardinality(Places(e, t)) /\ Times(e, t) \in Nat
  <2>1. Places(e, all) \subseteq DOMAIN all
    BY DEF Places
  <2> QED BY <1>1, <2>1, PlacesFinite
<1>3. ASSUME NEW i \in late PROVE i \in Nat /\ i - n \in Places(e, t)
  <2>1. i \in n + 1 .. n + Len(t) /\ all[i] = e
    BY <1>1, <1>2, <1>3 DEF Places
  <2>2. i - n \in 1 .. Len(t) /\ t[i - n] = e /\ i \in Nat
    BY <1>1, <2>1
  <2> QED BY <1>1, <2>2 DEF Places
<1>4. f \in Injection(late, Places(e, t))
  <2>1. f \in [late -> Places(e, t)]
    BY <1>3
  <2>2. \A i, j \in late : f[i] = f[j] => i = j
    BY <1>1, <1>3
  <2> QED BY <2>1, <2>2 DEF Injection, IsInjective
<1> HIDE DEF f
<1>5. IsFiniteSet(late) /\ Cardinality(late) <= Times(e, t) /\ Cardinality(late) \in Nat
  BY <1>2, <1>4, FS_Injection, FS_CardinalityType
<1>6. ASSUME e \notin Holds(r) PROVE Places(e, all) = late
  BY <1>1, <1>2, <1>6 DEF Places, Holds
<1>7. ASSUME NEW k \in DOMAIN r, r[k] = e PROVE Places(e, all) = late \union {k} /\ k \notin late
  BY <1>1, <1>2, <1>7 DEF Places
<1> HIDE DEF late
<1>8. CASE e \notin Holds(r)
  <2>1. Times(e, all) <= Times(e, t)
    BY <1>2, <1>5, <1>6, <1>8
  <2>2. Times(e, all) \in Nat
    BY <1>2, <1>5, <1>6, <1>8
  <2>3. Times(e, all) <= Times(e, t) + 1
    BY <1>2, <2>1, <2>2
  <2> QED BY <2>1, <2>3 DEF all
<1>9. CASE e \in Holds(r)
  <2>1. PICK k \in DOMAIN r : r[k] = e
    BY <1>9 DEF Holds
  <2>2. Times(e, all) = Cardinality(late) + 1
    <3>1. Places(e, all) = late \union {k} /\ k \notin late
      BY <1>7, <2>1
    <3>2. Cardinality(late \union {k}) = Cardinality(late) + 1
      BY <1>5, <3>1, FS_AddElement
    <3> QED BY <1>2, <3>1, <3>2
  <2>3. Times(e, all) <= Times(e, t) + 1
    BY <1>2, <1>5, <2>2
  <2> QED BY <1>9, <2>3 DEF all
<1> QED BY <1>8, <1>9

LEMMA HeadThenTail ==
    ASSUME NEW s \in Seq(Entries), NEW t \in Seq(Entries), t # <<>>
    PROVE  Append(s, Head(t)) \o Tail(t) = s \o t
OBVIOUS

LEMMA AppendLater ==
    ASSUME NEW s \in Seq(Entries), NEW t \in Seq(Entries), NEW x \in Entries
    PROVE  s \o Append(t, x) = Append(s \o t, x) /\ s \o t \in Seq(Entries)
OBVIOUS

LEMMA NothingThen ==
    ASSUME NEW t \in Seq(Entries)
    PROVE  <<>> \o t = t
OBVIOUS

\* An entry still to be acknowledged is not shown at all; one that is broadcast
\* comes once by the channel, unless that was before the client subscribed, and
\* once by the replay.
Most(c, w) ==
    IF w \notin Acknowledged THEN 0
    ELSE (IF Serving(c) THEN 1 ELSE 0) + IF w \in before[c] \union casting THEN 0 ELSE 1

TimesShown(c, w) == Times(w, shown[c] \o channel[c])

ShownWell(c, w) == before[c] \subseteq Acknowledged \ casting /\ TimesShown(c, w) <= Most(c, w)

ShownAtMost == \A c \in Clients, w \in Entries : ShownWell(c, w)

LEMMA AcknowledgedGrows ==
    ASSUME AuditTypeOK, WrittenOnce, NEW w \in Entries, Acks(w)
    PROVE  Acknowledged' = Acknowledged \union {w} /\ w \notin Acknowledged
<1>1. acked \in Seq(Entries) /\ acked' = Append(acked, w)
  BY AckedTyped DEF Acks
<1>2. /\ DOMAIN acked' = DOMAIN acked \union {Len(acked) + 1}
      /\ \A i \in DOMAIN acked : acked'[i] = acked[i]
      /\ acked'[Len(acked) + 1] = w
  BY <1>1
<1>3. Acknowledged' = Acknowledged \union {w}
  BY <1>2, Zenon DEF Acknowledged
<1>4. w \notin Acknowledged
  BY DEF Acks, WrittenOnce, Acknowledged
<1> QED BY <1>3, <1>4

LEMMA ShownAtMostStep ==
    ASSUME AuditTypeOK, WrittenOnce, Newest, OnlyAcknowledged, Handlers, Contents, Readings, ShownAtMost, [Next]_vars
    PROVE  ShownAtMost'
<1> SUFFICES ASSUME NEW c \in Clients, NEW w \in Entries PROVE ShownWell(c, w)'
  BY DEF ShownAtMost
<1>0. ShownWell(c, w)' <=> /\ before'[c] \subseteq Acknowledged' \ casting'
                           /\ Times(w, shown'[c] \o channel'[c]) <= Most(c, w)'
  BY DEF ShownWell, TimesShown, Times
<1> DEFINE Goal == /\ before'[c] \subseteq Acknowledged' \ casting'
                   /\ Times(w, shown'[c] \o channel'[c]) <= Most(c, w)'
           k == Times(w, shown[c] \o channel[c])
<1>1. /\ before[c] \subseteq Acknowledged \ casting
      /\ k <= Most(c, w)
      /\ shown[c] \in Seq(Entries) /\ channel[c] \in Seq(Entries) /\ shown[c] \o channel[c] \in Seq(Entries)
      /\ k \in Nat
  <2>1. shown[c] \in Seq(Entries) /\ channel[c] \in Seq(Entries)
    BY DEF Contents
  <2>2. shown[c] \o channel[c] \in Seq(Entries)
    BY <2>1
  <2> QED BY <2>1, <2>2, PlacesFinite DEF ShownAtMost, ShownWell, TimesShown
<1> HIDE DEF k
<1>2. casting \subseteq Acknowledged
  BY DEF OnlyAcknowledged, Acknowledged
<1>3. clients \subseteq Clients
  BY DEF Handlers
<1>4. ASSUME acked' = acked PROVE Acknowledged' = Acknowledged
  BY <1>4 DEF Acknowledged
<1>5. ASSUME acked' = acked, casting' = casting, before'[c] = before[c], Serving(c)' <=> Serving(c),
             shown'[c] \o channel'[c] = shown[c] \o channel[c]
      PROVE  Goal
  BY <1>1, <1>4, <1>5 DEF Most, k
<1>6. ASSUME before'[c] \subseteq Acknowledged' \ casting', shown'[c] = <<>>, channel'[c] = <<>>
      PROVE  Goal
  <2>1. Times(w, shown'[c] \o channel'[c]) = 0
    BY <1>6, TimesNothing, NothingThen
  <2> QED BY <1>6, <2>1 DEF Most
<1>7. ASSUME AckedSame /\ StreamsSame PROVE Goal
  BY <1>5, <1>7 DEF AckedSame, StreamsSame
<1>8. ASSUME NEW x \in Entries, Acks(x) PROVE Goal
  <2>1. Acknowledged' = Acknowledged \union {x} /\ x \notin Acknowledged
    BY <1>8, AcknowledgedGrows
  <2>2. /\ casting' = casting \union {x} /\ before'[c] = before[c] /\ (Serving(c)' <=> Serving(c))
        /\ shown'[c] \o channel'[c] = shown[c] \o channel[c]
    BY <1>8 DEF Acks, StreamsSame
  <2>3. before'[c] \subseteq Acknowledged' \ casting'
    BY <1>1, <2>1, <2>2
  <2>4. CASE w = x
    <3>1. k = 0
      BY <1>1, <2>1, <2>4 DEF Most
    <3> QED BY <2>2, <2>3, <3>1 DEF Most, k
  <2>5. CASE w # x
    <3>1. Most(c, w)' = Most(c, w)
      BY <2>1, <2>2, <2>5 DEF Most
    <3> QED BY <1>1, <2>2, <2>3, <3>1 DEF k
  <2> QED BY <2>4, <2>5
<1>9. ASSUME NEW x \in Entries, Casts(x) PROVE Goal
  <2>1. /\ x \in casting /\ Acknowledged' = Acknowledged /\ casting' = casting \ {x}
        /\ shown'[c] = shown[c] /\ before'[c] = before[c] /\ (Serving(c)' <=> Serving(c))
    BY <1>4, <1>9 DEF Casts
  <2>2. before'[c] \subseteq Acknowledged' \ casting'
    BY <1>1, <2>1
  <2>3. channel'[c] = channel[c] \/ channel'[c] = Append(channel[c], x)
    BY <1>3, <1>9, CastIs DEF Casts
  <2>4. Times(w, shown'[c] \o channel'[c]) = k
        \/ (w = x /\ Times(w, shown'[c] \o channel'[c]) = k + 1)
    <3>1. CASE channel'[c] = channel[c]
      BY <2>1, <3>1 DEF k
    <3>2. CASE channel'[c] = Append(channel[c], x)
      <4>0. shown[c] \o Append(channel[c], x) = Append(shown[c] \o channel[c], x)
        BY <1>1, AppendLater
      <4>1. shown'[c] \o channel'[c] = Append(shown[c] \o channel[c], x)
        BY <2>1, <3>2, <4>0, Zenon
      <4>3. Times(w, Append(shown[c] \o channel[c], x)) = k + IF x = w THEN 1 ELSE 0
        BY <1>1, TimesAppend DEF k
      <4>2. Times(w, shown'[c] \o channel'[c]) = k + IF x = w THEN 1 ELSE 0
        BY <4>1, <4>3
      <4> QED BY <1>1, <4>2
    <3> QED BY <2>3, <3>1, <3>2
  <2>5. CASE w = x
    <3>1. Most(c, w)' = Most(c, w) + 1
      BY <1>1, <1>2, <2>1, <2>5 DEF Most
    <3>2. Most(c, w) \in Nat
      BY DEF Most
    <3> QED BY <1>1, <2>2, <2>4, <3>1, <3>2
  <2>6. CASE w # x
    <3>1. Most(c, w)' = Most(c, w)
      BY <2>1, <2>6 DEF Most
    <3> QED BY <1>1, <2>2, <2>4, <2>6, <3>1
  <2> QED BY <2>5, <2>6
<1>10. ASSUME NEW d \in Clients, Joins(d) PROVE Goal
  <2>1. acked' = acked /\ casting' = casting /\ Acknowledged' = Acknowledged
    BY <1>4, <1>10 DEF Joins, AckedSame
  <2>2. CASE c = d
    <3>1. before'[c] = Acknowledged \ casting /\ channel'[c] = <<>> /\ shown'[c] = <<>>
      BY <1>10, <2>2 DEF Joins, Contents
    <3> QED BY <1>6, <2>1, <3>1
  <2>3. CASE c # d
    <3>1. before'[c] = before[c] /\ channel'[c] = channel[c] /\ shown'[c] = shown[c] /\ (Serving(c)' <=> Serving(c))
      BY <1>10, <2>3 DEF Joins, Contents
    <3> QED BY <1>5, <2>1, <3>1
  <2> QED BY <2>2, <2>3
<1>11. ASSUME NEW d \in Clients, Forwards(d) PROVE Goal
  <2>1. acked' = acked /\ casting' = casting /\ before'[c] = before[c] /\ (Serving(c)' <=> Serving(c))
    BY <1>11 DEF Forwards, AckedSame
  <2>2. CASE c = d
    <3>1. channel[c] # <<>> /\ channel'[c] = Tail(channel[c]) /\ shown'[c] = Append(shown[c], Head(channel[c]))
      BY <1>11, <2>2 DEF Forwards, Contents
    <3> QED BY <1>1, <1>5, <2>1, <3>1, HeadThenTail
  <2>3. CASE c # d
    <3>1. channel'[c] = channel[c] /\ shown'[c] = shown[c]
      BY <1>11, <2>3 DEF Forwards, Contents
    <3> QED BY <1>5, <2>1, <3>1
  <2> QED BY <2>2, <2>3
<1>12. ASSUME NEW d \in Clients, Leaves(d) PROVE Goal
  <2>1. acked' = acked /\ casting' = casting /\ Acknowledged' = Acknowledged
    BY <1>4, <1>12 DEF Leaves, AckedSame
  <2>2. CASE c = d
    <3>1. before'[c] = {} /\ channel'[c] = <<>> /\ shown'[c] = <<>>
      BY <1>12, <2>2 DEF Leaves, Contents
    <3> QED BY <1>6, <3>1
  <2>3. CASE c # d
    <3>1. before'[c] = before[c] /\ channel'[c] = channel[c] /\ shown'[c] = shown[c] /\ (Serving(c)' <=> Serving(c))
      BY <1>12, <2>3 DEF Leaves, Contents
    <3> QED BY <1>5, <2>1, <3>1
  <2> QED BY <2>2, <2>3
<1>13. ASSUME NEW d \in Clients, NEW r, Replayed(d, r) PROVE Goal
  <2>1. acked' = acked /\ casting' = casting /\ Acknowledged' = Acknowledged
        /\ before'[c] = before[c] /\ channel'[c] = channel[c]
    BY <1>4, <1>13 DEF Replayed, AckedSame
  <2>2. CASE c = d
    <3>1. shown'[c] = r /\ shown[c] = <<>> /\ ~Serving(c) /\ Serving(c)'
      BY <1>13, <2>2 DEF Replayed, Contents
    <3>3. r \in Seq(Entries) /\ (\A i, j \in DOMAIN r : r[i] = r[j] => i = j) /\ Holds(r) \subseteq Acknowledged
      BY <1>13 DEF Replayed, Faithfully, Holds
    <3>4. k = Times(w, channel[c])
      BY <1>1, <3>1, NothingThen DEF k
    <3>5. /\ Times(w, r \o channel[c]) <= k + 1
          /\ w \notin Holds(r) => Times(w, r \o channel[c]) <= k
      BY <1>1, <3>3, <3>4, TimesBefore
    <3>6. r \o channel[c] \in Seq(Entries)
      BY <1>1, <3>3
    <3>7. Times(w, r \o channel[c]) \in Nat
      BY <3>6, PlacesFinite
    <3>8. CASE w \in Acknowledged
      <4>1. Most(c, w)' = Most(c, w) + 1 /\ Most(c, w) \in Nat
        BY <2>1, <3>1, <3>8 DEF Most
      <4> QED BY <1>1, <2>1, <3>1, <3>5, <3>7, <4>1
    <3>9. CASE w \notin Acknowledged
      <4>1. Most(c, w)' = 0 /\ Most(c, w) = 0 /\ w \notin Holds(r)
        BY <2>1, <3>3, <3>9 DEF Most
      <4> QED BY <1>1, <2>1, <3>1, <3>5, <3>7, <4>1
    <3> QED BY <3>8, <3>9
  <2>3. CASE c # d
    <3>1. shown'[c] = shown[c] /\ (Serving(c)' <=> Serving(c))
      BY <1>13, <2>3 DEF Replayed, Contents
    <3> QED BY <1>5, <2>1, <3>1
  <2> QED BY <2>2, <2>3
<1>14. ASSUME AllEnds PROVE Goal
  BY <1>6, <1>14 DEF AllEnds
<1> QED BY <1>0, <1>7, <1>8, <1>9, <1>10, <1>11, <1>12, <1>13, <1>14, StreamKinds

--------------------------------------------------------------------------------
(* What the dashboards are sent *)

\* The changes made, those whose signal is to be given, and those a dashboard
\* was sent, which were made.
StatusOK ==
    /\ state \subseteq Entries \X {"begun", "ended"}
    /\ notifying \subseteq Entries
    /\ seen \in [Clients -> SUBSET state]

LEMMA StatusStep ==
    ASSUME StatusOK, [Next]_vars
    PROVE  StatusOK'
<1> USE DEF StatusOK
<1>1. ASSUME NEW w \in Entries, Operation(w) PROVE StatusOK'
  <2>1. /\ state \subseteq state' /\ state' \subseteq Entries \X {"begun", "ended"}
        /\ seen' = seen /\ notifying' \subseteq Entries
    BY <1>1 DEF Operation, Begin, WriteEntry, End, BroadcastEntry, NotifyStatus, streamVars
  <2> QED BY <2>1
<1>2. ASSUME NEW c \in Clients, Stream(c) PROVE StatusOK'
  <2>1. state' = state /\ notifying' = notifying
    BY <1>2 DEF Stream, Connect, Join, SubscribeStatus, SendStatus, ReplayStart, ReplayOpen, Replay, Forward,
                TakeSignal, TakeTick, Disconnect
  <2>2. seen' = seen \/ \E s \in {state, {}} : seen' = [seen EXCEPT ![c] = s]
    BY <1>2 DEF Stream, Connect, Join, SubscribeStatus, SendStatus, ReplayStart, ReplayOpen, Replay, Forward,
                TakeSignal, TakeTick, Disconnect, Leave, streamVars
  <2> QED BY <2>1, <2>2
<1>3. CASE ExitAll
  BY <1>3 DEF ExitAll
<1>4. CASE Start \/ UNCHANGED vars \/ \E r \in Readers : Audit(r)
  BY <1>4 DEF Start, Audit, vars, streamVars
<1> QED BY <1>1, <1>2, <1>3, <1>4 DEF Next

\* A handler's step is about its own client alone.
LEMMA OthersWait ==
    ASSUME AuditTypeOK, Handlers, StatusOK, NEW d \in Clients, Stream(d)
    PROVE  /\ AckedSame /\ state' = state /\ notifying' = notifying
           /\ \A c \in Clients \ {d} :
                /\ stage'[c] = stage[c] /\ seen'[c] = seen[c]
                /\ c \in signalled' <=> c \in signalled
                /\ c \in statusSubs' <=> c \in statusSubs
<1>1. AckedSame
  <2>1. ReplayStart(d) \/ ReplayOpen(d) \/ Replay(d) => AckedSame
    BY WhatIsAcked DEF ReplayStart, ReplayOpen, Replay, Reading, auditVars, taskVars, AckedSame
  <2>2. Connect(d) \/ Join(d) \/ SubscribeStatus(d) \/ SendStatus(d) \/ Forward(d) \/ TakeSignal(d)
        \/ TakeTick(d) \/ Disconnect(d) => AckedSame
    BY DEF Connect, Join, SubscribeStatus, SendStatus, Forward, TakeSignal, TakeTick, Disconnect,
           auditVars, taskVars, AckedSame
  <2> QED BY <2>1, <2>2 DEF Stream
<1>2. state' = state /\ notifying' = notifying
  BY DEF Stream, Connect, Join, SubscribeStatus, SendStatus, ReplayStart, ReplayOpen, Replay, Forward,
         TakeSignal, TakeTick, Disconnect
<1>3. /\ stage' = stage \/ \E s : stage' = [stage EXCEPT ![d] = s]
      /\ seen' = seen \/ \E s : seen' = [seen EXCEPT ![d] = s]
      /\ signalled' \in {signalled, signalled \ {d}}
      /\ statusSubs' \in {statusSubs, statusSubs \ {d}, statusSubs \union {d}}
  BY DEF Stream, Connect, Join, SubscribeStatus, SendStatus, ReplayStart, ReplayOpen, Replay, Forward,
         TakeSignal, TakeTick, Disconnect, Leave, StageIs, streamVars
<1> QED BY <1>1, <1>2, <1>3 DEF Handlers, StatusOK

\* What is left of an entry that a dashboard has still to hear of.
Due(c, w) ==
    /\ c \in statusSubs
    /\ stage[c] # "watching"
    /\ w \in Acknowledged \ (casting \union notifying)
    /\ <<w, "begun">> \in state

\* It was sent, or will be: by a signal or by the status that is being sent.
Heard(c, w) == <<w, "begun">> \in seen[c] \/ c \in signalled \/ stage[c] = "refresh"

LEMMA StatusFreshStep ==
    ASSUME AuditTypeOK, WrittenOnce, Handlers, StatusOK, StatusFresh, [Next]_vars
    PROVE  StatusFresh'
<1>1. \A c \in statusSubs, w \in Entries : Due(c, w) => Heard(c, w)
  BY DEF StatusFresh, Due, Heard
<1>2. statusSubs \subseteq clients /\ clients \subseteq Clients /\ statusSubs' \subseteq Clients
  <2>1. statusSubs \subseteq clients /\ clients \subseteq Clients
    BY DEF Handlers
  <2>2. \/ \E c \in Clients : statusSubs' \in {statusSubs, statusSubs \ {c}, statusSubs \union {c}}
        \/ statusSubs' \in {statusSubs, {}}
    BY DEF Next, Operation, Begin, WriteEntry, End, BroadcastEntry, NotifyStatus, streamVars, vars,
           ExitAll, Start, Audit, Stream, Connect, Join, SubscribeStatus, SendStatus, ReplayStart,
           ReplayOpen, Replay, Forward, TakeSignal, TakeTick, Disconnect, Leave
  <2> QED BY <2>1, <2>2
<1> SUFFICES ASSUME NEW c \in statusSubs', NEW w \in Entries, Due(c, w)' PROVE Heard(c, w)'
  BY DEF StatusFresh, Due, Heard
<1>3. c \in Clients
  BY <1>2
<1>4. /\ c \in statusSubs' /\ stage'[c] # "watching" /\ <<w, "begun">> \in state'
      /\ w \in Acknowledged' /\ w \notin casting' /\ w \notin notifying'
  BY DEF Due
<1> DEFINE Goal == <<w, "begun">> \in seen'[c] \/ c \in signalled' \/ stage'[c] = "refresh"
<1> SUFFICES Goal
  BY DEF Heard
<1>5. ASSUME c \in statusSubs, stage'[c] = stage[c], seen'[c] = seen[c], c \in signalled => c \in signalled',
             w \in Acknowledged, w \notin casting, w \notin notifying, <<w, "begun">> \in state
      PROVE  Goal
  <2>1. Due(c, w)
    BY <1>4, <1>5 DEF Due
  <2> QED BY <1>1, <1>5, <2>1 DEF Heard
<1>6. ASSUME acked' = acked PROVE w \in Acknowledged
  BY <1>4, <1>6 DEF Acknowledged
<1>7. ASSUME NEW x \in Entries, Operation(x) PROVE Goal
  <2>1. CASE Begin(x)
    <3>1. UNCHANGED <<acked, casting, notifying, stage, seen, signalled, statusSubs>>
          /\ state' = state \union {<<x, "begun">>} /\ write[x] = "new"
      BY <2>1 DEF Begin, auditVars, taskVars, streamVars
    <3>2. x \notin Acknowledged
      BY <3>1 DEF WrittenOnce, Acknowledged
    <3>3. <<w, "begun">> \in state
      BY <1>4, <1>6, <3>1, <3>2
    <3> QED BY <1>4, <1>5, <1>6, <3>1, <3>3
  <2>2. CASE WriteEntry(x)
    <3>1. UNCHANGED <<notifying, stage, seen, signalled, statusSubs, state>>
      BY <2>2 DEF WriteEntry, streamVars
    <3>2. \/ acked' = acked /\ casting' = casting
          \/ acked' = Append(acked, x) /\ casting' = casting \union {x}
      BY <2>2, WhatIsAcked DEF WriteEntry, Writing, AckedSame
    <3>3. w \in Acknowledged /\ w \notin casting
      <4>1. CASE acked' = Append(acked, x) /\ casting' = casting \union {x}
        <5>1. Acknowledged' \subseteq Acknowledged \union {x}
          BY <4>1, AckedTyped DEF Acknowledged
        <5> QED BY <1>4, <4>1, <5>1
      <4> QED BY <1>4, <1>6, <3>2, <4>1
    <3> QED BY <1>4, <1>5, <3>1, <3>3
  <2>3. CASE End(x)
    <3>1. UNCHANGED <<acked, casting, notifying, stage, seen, signalled, statusSubs>>
          /\ state' = state \union {<<x, "ended">>}
      BY <2>3 DEF End, auditVars, taskVars, streamVars
    <3>2. <<w, "begun">> \in state
      BY <1>4, <3>1
    <3> QED BY <1>4, <1>5, <1>6, <3>1, <3>2
  <2>4. CASE BroadcastEntry(x)
    <3>1. UNCHANGED <<acked, state, stage, seen, signalled, statusSubs>>
          /\ casting' = casting \ {x} /\ notifying' = notifying \union {x}
      BY <2>4 DEF BroadcastEntry, BroadcastDone, streamVars
    <3>2. w \notin casting /\ w \notin notifying
      BY <1>4, <3>1
    <3> QED BY <1>4, <1>5, <1>6, <3>1, <3>2
  <2>5. CASE NotifyStatus(x)
    BY <1>4, <2>5 DEF NotifyStatus, Signal
  <2> QED BY <1>7, <2>1, <2>2, <2>3, <2>4, <2>5 DEF Operation
<1>8. ASSUME NEW d \in Clients, Stream(d) PROVE Goal
  <2>1. acked' = acked /\ casting' = casting /\ state' = state /\ notifying' = notifying
    BY <1>8, OthersWait DEF AckedSame
  <2>2. CASE c # d
    <3>1. /\ stage'[c] = stage[c] /\ seen'[c] = seen[c]
          /\ c \in signalled' <=> c \in signalled
          /\ c \in statusSubs' <=> c \in statusSubs
      BY <1>3, <1>8, <2>2, OthersWait
    <3> QED BY <1>4, <1>5, <1>6, <2>1, <3>1
  <2>3. CASE c = d
    <3>1. c \in statusSubs => stage[c] \in Streaming /\ Dashboard(c)
      BY DEF Handlers
    <3>2. stage \in [Clients -> Idle \union Streaming] /\ seen \in [Clients -> SUBSET state]
      BY DEF Handlers, StatusOK
    <3>3. CASE Connect(d) \/ Join(d)
      BY <1>4, <2>3, <3>1, <3>3 DEF Connect, Join, Streaming
    <3>4. CASE SubscribeStatus(d)
      BY <1>3, <1>4, <2>3, <3>2, <3>4 DEF SubscribeStatus, StageIs
    <3>5. CASE SendStatus(d)
      BY <1>3, <1>4, <2>3, <3>2, <3>5 DEF SendStatus
    <3>6. CASE Leave(d)
      BY <1>4, <2>3, <3>6 DEF Leave
    <3>7. CASE Forward(d)
      BY <1>4, <1>5, <1>6, <2>1, <2>3, <3>7 DEF Forward
    <3>8. CASE TakeSignal(d) \/ TakeTick(d)
      BY <1>3, <2>3, <3>2, <3>8 DEF TakeSignal, TakeTick, StageIs
    <3>9. CASE (ReplayStart(d) \/ ReplayOpen(d) \/ Replay(d)) /\ ~Leave(d)
      <4>1. c \in statusSubs /\ UNCHANGED <<statusSubs, signalled, seen>> /\ Replays(c)
        BY <1>4, <2>3, <3>9 DEF ReplayStart, ReplayOpen, Replay, streamVars
      <4>2. stage[c] = "stated"
        BY <3>1, <4>1 DEF Replays
      <4>3. Due(c, w)
        BY <1>4, <1>6, <2>1, <4>1, <4>2 DEF Due
      <4> QED BY <1>1, <4>1, <4>2, <4>3 DEF Heard
    <3> QED BY <1>8, <2>3, <3>3, <3>4, <3>5, <3>6, <3>7, <3>8, <3>9 DEF Stream, Disconnect
  <2> QED BY <2>2, <2>3
<1>9. CASE ExitAll
  BY <1>4, <1>9 DEF ExitAll
<1>10. CASE Start \/ UNCHANGED vars \/ \E r \in Readers : Audit(r)
  <2>1. UNCHANGED <<state, notifying, stage, seen, signalled, statusSubs>>
    BY <1>10 DEF Start, Audit, vars, streamVars
  <2>2. acked' = acked /\ casting' = casting
    BY <1>10, WhatIsAcked DEF Start, Audit, vars, auditVars, taskVars, AckedSame
  <2> QED BY <1>4, <1>5, <1>6, <2>1, <2>2
<1> QED BY <1>7, <1>8, <1>9, <1>10 DEF Next

--------------------------------------------------------------------------------
(* The theorems *)

\* What the three properties of the streams are proved on top of.
StreamsInv ==
    /\ AuditTypeOK /\ OnlyAcknowledged /\ WrittenOnce /\ Newest
    /\ HubOK /\ LimitsKept /\ Handlers /\ Contents /\ Readings /\ StatusOK

LEMMA StreamsInit == Init => StreamsInv /\ NothingMissed /\ ShownAtMost /\ StatusFresh
<1> SUFFICES ASSUME Init PROVE StreamsInv /\ NothingMissed /\ ShownAtMost /\ StatusFresh
  OBVIOUS
<1>1. AuditTypeOK
  <2> USE DEF Init, AuditInit
  <2>1. {present, torn, up} \subseteq BOOLEAN
    BY Zenon
  <2>2. DOMAIN archives = {}
    OBVIOUS
  <2> QED
    BY <2>1, <2>2 DEF AuditTypeOK
<1>2. OnlyAcknowledged /\ WrittenOnce /\ Newest
  BY DEF Init, AuditInit, OnlyAcknowledged, WrittenOnce, Newest
<1>3. HubOK /\ LimitsKept
  BY NobodyLimits DEF Init, HubInit
<1>4. Handlers /\ StatusOK /\ StatusFresh
  BY DEF Init, HubInit, Handlers, StatusOK, StatusFresh, Idle, Streaming
<1>5. Contents /\ NothingMissed
  BY DEF Init, HubInit, AuditInit, Contents, NothingMissed
<1>7. Readings
  <2>1. /\ reading = [r \in Readers |-> "idle"] /\ held = [r \in Readers |-> <<>>]
        /\ since = [c \in Clients |-> 0] /\ acked = <<>>
    BY DEF Init, AuditInit
  <2>2. \A r \in Readers : reading[r] = "idle" /\ held[r] = <<>>
    BY <2>1
  <2>3. \A c \in Clients : c \in Readers /\ since[c] = 0
    BY <2>1
  <2>4. Genuine(<<>>)
    BY DEF Genuine
  <2> QED BY <2>1, <2>2, <2>3, <2>4 DEF Readings
<1>6. ASSUME NEW c \in Clients, NEW w \in Entries PROVE ShownWell(c, w)
  <2>1. shown[c] = <<>> /\ channel[c] = <<>> /\ before[c] = {}
    BY DEF Init, HubInit
  <2>2. Times(w, shown[c] \o channel[c]) = 0
    BY <2>1, TimesNothing, NothingThen
  <2> QED BY <2>1, <2>2 DEF ShownWell, TimesShown, Most
<1> QED BY <1>1, <1>2, <1>3, <1>4, <1>5, <1>6, <1>7 DEF StreamsInv, ShownAtMost

LEMMA StreamsStep == StreamsInv /\ [Next]_vars => StreamsInv'
<1> SUFFICES ASSUME StreamsInv, [Next]_vars PROVE StreamsInv'
  OBVIOUS
<1>1. AuditTypeOK' /\ OnlyAcknowledged' /\ WrittenOnce' /\ Newest'
  BY StreamAuditStep, AuditTypeStep, AnnouncedStep, WrittenOnceStep, NewestStep DEF StreamsInv
<1>2. HubOK' /\ LimitsKept' /\ Handlers'
  BY HandlersStep DEF StreamsInv
<1>3. Contents' /\ Readings' /\ StatusOK'
  BY ContentsStep, ReadingsStep, StatusStep DEF StreamsInv
<1> QED BY <1>1, <1>2, <1>3 DEF StreamsInv

LEMMA StreamsHold == Spec => []StreamsInv
<1>1. Init => StreamsInv
  BY StreamsInit
<1> QED BY <1>1, StreamsStep, PTL DEF Spec

\* The stage of every handler, what is registered for signals and what each
\* client is sent stay in their ranges (ApiStreams, TypeOK), and with them the
\* limits of the hub.
THEOREM StreamsTypeCorrect == Spec => []TypeOK
<1>1. StreamsInv => TypeOK
  <2> SUFFICES ASSUME StreamsInv PROVE TypeOK
    OBVIOUS
  <2> USE DEF StreamsInv
  <2>1. \A c \in Clients : stage[c] \in {"off", "asked", "joined", "watching", "stated", "live", "refresh"}
    BY DEF Handlers, Idle, Streaming
  <2>2. signalled \subseteq statusSubs /\ statusSubs \subseteq {c \in clients : Dashboard(c)}
    BY DEF Handlers
  <2>3. \A c \in Clients : shown[c] \in Seq(Entries) /\ seen[c] \subseteq state
    BY DEF Contents, StatusOK
  <2> QED BY <2>1, <2>2, <2>3 DEF TypeOK, StatusOK
<1> QED BY <1>1, StreamsHold, PTL

\* Readers that stream, broadcasts and signals leave the log its promises: no step
\* of the streams disturbs the bound of the file, the order of the journal or what
\* may be announced (AuditLog, FileBounded, JournalKept, OnlyAcknowledged).
THEOREM StreamsKeepTheLog == Spec => [](FileBounded /\ JournalKept /\ OnlyAcknowledged)
<1>1. Init => LogInv
  BY LogInit DEF Init
<1>2. StreamsInv /\ LogInv /\ [Next]_vars => LogInv'
  BY StreamAuditStep, LogStep DEF StreamsInv
<1>3. StreamsInv /\ LogInv => FileBounded /\ JournalKept /\ OnlyAcknowledged
  BY BoundMeans, JournalMeans DEF StreamsInv, LogInv
<1> QED BY <1>1, <1>2, <1>3, StreamsHold, PTL DEF Spec

\* An entry that a stream holds is counted at least once.
LEMMA HeldIsShown ==
    ASSUME NEW e, NEW s \in Seq(Entries), NEW t \in Seq(Entries), e \in Holds(s) \union Holds(t)
    PROVE  Times(e, s \o t) > 0
<1>1. s \o t \in Seq(Entries)
  OBVIOUS
<1>2. \E i \in DOMAIN (s \o t) : (s \o t)[i] = e
  <2>1. CASE e \in Holds(s)
    <3>1. PICK i \in DOMAIN s : s[i] = e
      BY <2>1 DEF Holds
    <3>2. i \in DOMAIN (s \o t) /\ (s \o t)[i] = s[i]
      OBVIOUS
    <3> QED BY <3>1, <3>2
  <2>2. CASE e \in Holds(t)
    <3>1. PICK i \in DOMAIN t : t[i] = e
      BY <2>2 DEF Holds
    <3>2. Len(s) + i \in DOMAIN (s \o t) /\ (s \o t)[Len(s) + i] = t[i]
      OBVIOUS
    <3> QED BY <3>1, <3>2
  <2> QED BY <2>1, <2>2
<1>3. Places(e, s \o t) # {}
  BY <1>2 DEF Places
<1>4. IsFiniteSet(Places(e, s \o t)) /\ Times(e, s \o t) = Cardinality(Places(e, s \o t)) /\ Times(e, s \o t) \in Nat
  BY <1>1, PlacesFinite
<1>5. Times(e, s \o t) # 0
  BY <1>3, <1>4, FS_EmptySet
<1> QED BY <1>4, <1>5

\* However the replay and the broadcasts interleave, whatever the limits, the
\* sizes and the faults but a torn line, a stream reaches from the first entry it
\* replayed to the last that was acknowledged without a gap (ApiStreams, NoGap).
THEOREM StreamsHaveNoGap == Spec => []NoGap
<1>1. StreamsInv /\ NothingMissed => NoGap
  <2> SUFFICES ASSUME StreamsInv, NothingMissed, "torn" \notin faulted,
                      NEW c \in Clients, Serving(c), NEW i \in DOMAIN acked, i >= since[c],
                      acked[i] \notin casting \union dropped[c]
               PROVE  Times(acked[i], shown[c] \o channel[c]) > 0
    BY DEF NoGap
  <2>1. c \in clients
    BY DEF StreamsInv, Handlers, Serving, Streaming
  <2>2. acked[i] \in Holds(channel[c]) \union Holds(shown[c])
    BY <2>1 DEF NothingMissed
  <2>3. shown[c] \in Seq(Entries) /\ channel[c] \in Seq(Entries)
    BY DEF StreamsInv, Contents
  <2> QED BY <2>2, <2>3, HeldIsShown
<1>2. StreamsInv /\ NothingMissed /\ [Next]_vars => NothingMissed'
  BY NothingMissedStep DEF StreamsInv
<1>3. Init => NothingMissed
  BY StreamsInit
<1> QED BY <1>1, <1>2, <1>3, StreamsHold, PTL DEF Spec

\* A stream repeats an entry only when it replayed it while its broadcast was to
\* come, and never more than once (ApiStreams, RepeatsOnlyOverlap).
THEOREM StreamsRepeatOnlyOverlap == Spec => []RepeatsOnlyOverlap
<1>1. StreamsInv /\ ShownAtMost => RepeatsOnlyOverlap
  <2> SUFFICES ASSUME StreamsInv, ShownAtMost, NEW c \in Clients, NEW w \in Entries
               PROVE  Times(w, shown[c] \o channel[c]) <= IF w \in before[c] THEN 1 ELSE 2
    BY DEF RepeatsOnlyOverlap
  <2>1. Times(w, shown[c] \o channel[c]) <= Most(c, w)
    BY DEF ShownAtMost, ShownWell, TimesShown
  <2>2. Most(c, w) \in Nat /\ Most(c, w) <= IF w \in before[c] THEN 1 ELSE 2
    BY DEF Most
  <2>3. Times(w, shown[c] \o channel[c]) \in Nat
    <3>1. shown[c] \in Seq(Entries) /\ channel[c] \in Seq(Entries)
      BY DEF StreamsInv, Contents
    <3>2. shown[c] \o channel[c] \in Seq(Entries)
      BY <3>1
    <3> QED BY <3>2, PlacesFinite
  <2> QED BY <2>1, <2>2, <2>3
<1>2. StreamsInv /\ ShownAtMost /\ [Next]_vars => ShownAtMost'
  BY ShownAtMostStep DEF StreamsInv
<1>3. Init => ShownAtMost
  BY StreamsInit
<1> QED BY <1>1, <1>2, <1>3, StreamsHold, PTL DEF Spec

\* No wake-up of a dashboard is lost between the goroutines that signal and the
\* handler that takes signals, ticks and entries (ApiStreams, StatusFresh).
THEOREM DashboardsStayFresh == Spec => []StatusFresh
<1>1. StreamsInv /\ StatusFresh /\ [Next]_vars => StatusFresh'
  BY StatusFreshStep DEF StreamsInv
<1>2. Init => StatusFresh
  BY StreamsInit
<1> QED BY <1>1, <1>2, StreamsHold, PTL DEF Spec
================================================================================
