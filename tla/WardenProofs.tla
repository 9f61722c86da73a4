------------------------------ MODULE WardenProofs ------------------------------
(***************************************************************************)
(* Proofs about the warden.                                                *)
(*                                                                         *)
(* Limits: a client is registered only by the handler that streams to it,  *)
(* so none is registered twice.  The ring: its wrapped contents are those  *)
(* of a log that forgets its oldest entry.  Streams: what is replayed and  *)
(* what is broadcast meet without a gap.  The agents' story and its order: *)
(* the last entry stored about an agent tells its state, and what is still *)
(* to be stored, broadcast or shown is no older than what has been.        *)
(***************************************************************************)
EXTENDS Warden, HubProofs

Registered ==
    /\ spc \in [Clients -> {"off", "check", "subscribe", "stream"}]
    /\ \A c \in clients : spc[c] = "stream"

HubInv == HubOK /\ LimitsKept /\ Registered

LEMMA StreamLimits ==
    ASSUME HubInv, NEW c \in Clients, Stream(c)
    PROVE  HubInv'
<1> USE DEF HubInv, Registered, StreamGoto, StreamGone
<1>1. CASE StreamReplays(c)
  <2>1. UNCHANGED hubVars /\ spc[c] = "off" /\ StreamGoto(c, "check")
    BY <1>1 DEF StreamReplays
  <2> QED BY <2>1, SameLimits DEF hubVars, HubOK
<1>2. CASE StreamChecks(c)
  <2>1. UNCHANGED hubVars /\ spc[c] = "check" /\ StreamGoto(c, "subscribe")
    BY <1>2 DEF StreamChecks
  <2> QED BY <2>1, SameLimits DEF hubVars, HubOK
<1>3. CASE StreamSubscribes(c)
  <2>1. Subscribe(c) /\ spc[c] = "subscribe" /\ StreamGoto(c, "stream")
    BY <1>3 DEF StreamSubscribes
  <2>2. c \notin clients /\ clients' = clients \union {c}
    BY <2>1 DEF Subscribe
  <2> QED BY <2>1, <2>2, SubscribeLimits DEF HubOK
<1>4. CASE StreamRefused(c)
  <2>1. UNCHANGED hubVars /\ spc[c] # "stream" /\ StreamGoto(c, "off")
    BY <1>4 DEF StreamRefused
  <2> QED BY <2>1, SameLimits DEF hubVars, HubOK
<1>5. CASE StreamWrites(c)
  BY <1>5, SameLimits DEF StreamWrites, Receive
<1>6. CASE StreamLeaves(c)
  <2>1. Unsubscribe(c) /\ StreamGoto(c, "off")
    BY <1>6 DEF StreamLeaves
  <2>2. clients' = clients \ {c}
    BY <2>1 DEF Unsubscribe
  <2> QED BY <2>1, <2>2, UnsubscribeLimits DEF HubOK
<1> QED BY <1>1, <1>2, <1>3, <1>4, <1>5, <1>6 DEF Stream

LEMMA GoneLimits == AllGone => HubInv'
<1> SUFFICES ASSUME AllGone PROVE HubInv'
  OBVIOUS
<1>1. clients' = {} /\ total' = 0 /\ perIP' = [a \in Addresses |-> 0]
  BY DEF AllGone
<1>2. \A a \in Addresses : At(a)' = {}
  BY <1>1 DEF At
<1>3. HubOK' /\ LimitsKept'
  BY <1>1, <1>2, FS_EmptySet, HubAssumption DEF HubOK, LimitsKept
<1> QED BY <1>1, <1>3 DEF HubInv, Registered, AllGone

\* The steps that leave the registered clients alone.
LEMMA OtherLimits ==
    ASSUME HubInv, UNCHANGED <<clients, perIP, total, spc>>
    PROVE  HubInv'
BY SameLimits DEF HubInv, Registered

LEMMA InitHub == Init => HubInv
BY NobodyLimits DEF Init, HubInit, HubInv, Registered

LEMMA StepHub == HubInv /\ [Next]_vars => HubInv'
<1> SUFFICES ASSUME HubInv, [Next]_vars PROVE HubInv'
  OBVIOUS
<1> USE DEF hubVars, streamVars
<1>1. ASSUME NEW r \in Requests, Ingest(r) PROVE HubInv'
  BY <1>1, OtherLimits DEF Ingest, IngestReceives, IngestStores, IngestBroadcasts, Broadcast
<1>2. CASE Heartbeat
  BY <1>2, OtherLimits DEF Heartbeat, PollAnswers, HeartbeatStores, HeartbeatBroadcasts,
                           HeartbeatTicks, HeartbeatEnds, Broadcast
<1>3. ASSUME NEW c \in Clients, Stream(c) PROVE HubInv'
  BY <1>3, StreamLimits
<1>4. CASE Main
  <2>1. CASE Signal \/ SaveReads \/ SaveOpens \/ SaveWrites \/ SaveFails \/ Start
    BY <2>1, OtherLimits DEF Signal, SaveReads, SaveOpens, SaveWrites, SaveFails, Start, MainGoto
  <2>2. CASE Exit \/ Kill
    BY <2>2, GoneLimits DEF Exit, Kill
  <2> QED BY <1>4, <2>1, <2>2 DEF Main
<1>5. CASE UNCHANGED vars
  BY <1>5, OtherLimits DEF vars
<1> QED BY <1>1, <1>2, <1>3, <1>4, <1>5 DEF Next

\* The limiter's counts are those of the registered clients and within the limits
\* (hub/limiter.go), whatever clients come and go between its test and its count.
THEOREM LimitsAlwaysKept == Spec => []LimitsKept
<1>1. HubInv => LimitsKept
  BY DEF HubInv
<1> QED BY <1>1, InitHub, StepHub, PTL DEF Spec

--------------------------------------------------------------------------------
(* The ring *)

Slot(h, i) == (h - i + RingSize) % RingSize

\* The slots the ring counts hold entries.
Filled == \A i \in 1 .. count : events[Slot(head, i)] \in Entry

LEMMA ModuloSmall ==
    ASSUME NEW R \in Nat \ {0}, NEW x \in Nat, x < 2 * R
    PROVE  x % R = IF x < R THEN x ELSE x - R
<1>1. CASE x < R
  BY <1>1, SMT
<1>2. CASE x >= R
  BY <1>2, SMT
<1> QED BY <1>1, <1>2

LEMMA SlotIs ==
    ASSUME NEW h \in Slots, NEW i \in 1 .. RingSize
    PROVE  /\ Slot(h, i) = IF i <= h THEN h - i ELSE h - i + RingSize
           /\ Slot(h, i) \in Slots
<1> RingSize \in Nat \ {0}
  BY WardenAssumption
<1> DEFINE x == h - i + RingSize
<1>1. x \in Nat /\ x < 2 * RingSize
  BY DEF Slots
<1> HIDE DEF x
<1>2. x % RingSize = IF x < RingSize THEN x ELSE x - RingSize
  BY <1>1, ModuloSmall
<1> USE DEF x
<1>3. Slot(h, i) = IF x < RingSize THEN x ELSE x - RingSize
  BY <1>2 DEF Slot
<1> QED BY <1>3 DEF Slots

\* Recent(n) as a sequence: the slots behind head, one after the other.
LEMMA RecentIs ==
    ASSUME RingOK, Filled, NEW n \in 1 .. RingSize
    PROVE  /\ Recent(n) \in Seq(Entry)
           /\ Len(Recent(n)) = IF n > count THEN count ELSE n
           /\ \A i \in 1 .. Len(Recent(n)) : Recent(n)[i] = events[Slot(head, i)]
<1> DEFINE length == IF n > count THEN count ELSE n
<1>1. length \in 0 .. count
  BY WardenAssumption DEF RingOK
<1>2. Recent(n) = [i \in 1 .. length |-> events[Slot(head, i)]]
  BY DEF Recent, Slot
<1>3. \A i \in 1 .. length : events[Slot(head, i)] \in Entry
  BY <1>1 DEF Filled, RingOK
<1> HIDE DEF length
<1>4. Recent(n) \in Seq(Entry) /\ Len(Recent(n)) = length
  BY <1>1, <1>2, <1>3 DEF RingOK
<1> QED BY <1>2, <1>4 DEF length

LEMMA ReversedIs ==
    ASSUME NEW S, NEW s \in Seq(S)
    PROVE  /\ Reversed(s) \in Seq(S)
           /\ Len(Reversed(s)) = Len(s)
           /\ \A i \in 1 .. Len(s) : Reversed(s)[i] = s[Len(s) + 1 - i]
BY DEF Reversed

\* The k entries behind slot h, oldest first: what OldestFirst(RingSize) is, before and after a step.
Listed(ev, h, k) == Reversed([i \in 1 .. k |-> ev[Slot(h, i)]])

LEMMA ListedIs ==
    ASSUME NEW ev, NEW h \in Slots, NEW k \in 0 .. RingSize,
           \A i \in 1 .. k : ev[Slot(h, i)] \in Entry
    PROVE  /\ Listed(ev, h, k) \in Seq(Entry)
           /\ Len(Listed(ev, h, k)) = k
           /\ \A i \in 1 .. k : Listed(ev, h, k)[i] = ev[Slot(h, k + 1 - i)]
<1> k \in Nat
  BY WardenAssumption
<1> DEFINE s == [i \in 1 .. k |-> ev[Slot(h, i)]]
<1>1. s \in Seq(Entry) /\ Len(s) = k
  OBVIOUS
<1>2. \A i \in 1 .. k : k + 1 - i \in 1 .. k
  OBVIOUS
<1>3. \A i \in 1 .. k : s[k + 1 - i] = ev[Slot(h, k + 1 - i)]
  BY <1>2
<1> HIDE DEF s
<1>4. /\ Reversed(s) \in Seq(Entry)
      /\ Len(Reversed(s)) = k
      /\ \A i \in 1 .. k : Reversed(s)[i] = s[k + 1 - i]
  BY <1>1, ReversedIs
<1> QED BY <1>3, <1>4 DEF Listed, s

LEMMA KeptIsListed ==
    /\ count \in 0 .. RingSize => OldestFirst(RingSize) = Listed(events, head, count)
    /\ count' \in 0 .. RingSize => OldestFirst(RingSize)' = Listed(events', head', count')
<1> RingSize \in Nat
  BY WardenAssumption
<1>1. ASSUME count \in 0 .. RingSize PROVE OldestFirst(RingSize) = Listed(events, head, count)
  <2>1. (IF RingSize > count THEN count ELSE RingSize) = count
    BY <1>1
  <2> QED BY <2>1 DEF OldestFirst, Recent, Listed, Slot
<1>2. ASSUME count' \in 0 .. RingSize
      PROVE  OldestFirst(RingSize)' = Listed(events', head', count')
  <2>1. (IF RingSize > count' THEN count' ELSE RingSize) = count'
    BY <1>2
  <2>2. Recent(RingSize)' = [i \in 1 .. count' |-> events'[Slot(head', i)]]
    BY <2>1 DEF Recent, Slot
  <2>3. OldestFirst(RingSize)' = Reversed(Recent(RingSize)')
    BY DEF OldestFirst, Reversed
  <2> QED BY <2>2, <2>3 DEF Listed
<1> QED BY <1>1, <1>2

LEMMA KeptIs ==
    ASSUME RingOK, Filled
    PROVE  OldestFirst(RingSize) \in Seq(Entry) /\ Len(OldestFirst(RingSize)) = count
BY ListedIs, KeptIsListed DEF RingOK, Filled

\* What was kept is what is kept when the ring is untouched.
LEMMA SameRing ==
    ASSUME UNCHANGED ringVars
    PROVE  /\ RingOK /\ Filled => RingOK' /\ Filled'
           /\ OldestFirst(RingSize)' = OldestFirst(RingSize)
BY DEF ringVars, RingOK, Filled, OldestFirst, Recent

\* Storing an entry moves every other one slot back and overwrites the one that was oldest.
LEMMA StoreMoves ==
    ASSUME RingOK, Filled, NEW e \in Entry, Store(e)
    PROVE  /\ RingOK'
           /\ count' = IF count < RingSize THEN count + 1 ELSE RingSize
           /\ events'[Slot(head', 1)] = e
           /\ \A i \in 1 .. RingSize - 1 : events'[Slot(head', i + 1)] = events[Slot(head, i)]
<1> RingSize \in Nat \ {0}
  BY WardenAssumption
<1>1. head \in Slots /\ head \in Nat /\ head < RingSize
  BY DEF RingOK, Slots
<1>2. head' = IF head + 1 = RingSize THEN 0 ELSE head + 1
  <2> DEFINE x == head + 1
  <2>1. x \in Nat /\ x < 2 * RingSize
    BY <1>1
  <2> HIDE DEF x
  <2>2. x % RingSize = IF x < RingSize THEN x ELSE x - RingSize
    BY <2>1, ModuloSmall
  <2> USE DEF x
  <2>3. head' = IF x < RingSize THEN x ELSE x - RingSize
    BY <2>2 DEF Store
  <2> QED BY <1>1, <2>3
<1>3. head' \in Slots
  BY <1>1, <1>2 DEF Slots
<1>4. RingOK' /\ count' = IF count < RingSize THEN count + 1 ELSE RingSize
  BY <1>1, <1>3 DEF RingOK, Store
<1>5. Slot(head', 1) = head
  BY <1>1, <1>2, <1>3, SlotIs DEF Slots
<1>6. ASSUME NEW i \in 1 .. RingSize - 1
      PROVE  Slot(head', i + 1) = Slot(head, i) /\ Slot(head, i) # head /\ Slot(head, i) \in Slots
  <2>1. i \in 1 .. RingSize /\ i + 1 \in 1 .. RingSize
    OBVIOUS
  <2>2. /\ Slot(head, i) = IF i <= head THEN head - i ELSE head - i + RingSize
        /\ Slot(head, i) \in Slots
    BY <1>1, <2>1, SlotIs
  <2>3. Slot(head', i + 1) = IF i + 1 <= head' THEN head' - (i + 1) ELSE head' - (i + 1) + RingSize
    BY <1>3, <2>1, SlotIs
  <2> QED BY <1>1, <1>2, <2>1, <2>2, <2>3
<1>7. events' = [events EXCEPT ![head] = e] /\ events \in [Slots -> Entry \union {NoEntry}]
  BY DEF Store, RingOK
<1> QED BY <1>1, <1>4, <1>5, <1>6, <1>7

\* The ring and the log agree on what it is to keep one more event.
LEMMA KeptAfterStore ==
    ASSUME RingOK, Filled, NEW e \in Entry, Store(e)
    PROVE  /\ RingOK' /\ Filled'
           /\ OldestFirst(RingSize)' # <<>>
           /\ OldestFirst(RingSize)'[Len(OldestFirst(RingSize)')] = e
           /\ OldestFirst(RingSize)' = EventsLog!Latest(Append(OldestFirst(RingSize), e))
<1> DEFINE old == Listed(events, head, count)
           new == Listed(events', head', count')
<1> RingSize \in Nat \ {0}
  BY WardenAssumption
<1>1. /\ RingOK'
      /\ count' = IF count < RingSize THEN count + 1 ELSE RingSize
      /\ events'[Slot(head', 1)] = e
      /\ \A i \in 1 .. RingSize - 1 : events'[Slot(head', i + 1)] = events[Slot(head, i)]
  BY StoreMoves
<1>2. count \in 0 .. RingSize /\ count' \in 1 .. RingSize
  BY <1>1 DEF RingOK
<1>3. ASSUME NEW i \in 1 .. count' PROVE events'[Slot(head', i)] \in Entry
  <2>1. CASE i = 1
    BY <1>1, <2>1
  <2>2. CASE i # 1
    <3>1. i - 1 \in 1 .. RingSize - 1 /\ i - 1 \in 1 .. count /\ (i - 1) + 1 = i
      BY <1>1, <1>2, <2>2
    <3> QED BY <1>1, <3>1 DEF Filled
  <2> QED BY <2>1, <2>2
<1>4. Filled'
  BY <1>3 DEF Filled, Slot
<1>5. /\ old \in Seq(Entry)
      /\ Len(old) = count
      /\ \A i \in 1 .. count : old[i] = events[Slot(head, count + 1 - i)]
  BY <1>2, ListedIs DEF RingOK, Filled
<1>6. /\ new \in Seq(Entry)
      /\ Len(new) = count'
      /\ \A i \in 1 .. count' : new[i] = events'[Slot(head', count' + 1 - i)]
  <2>1. head' \in Slots /\ count' \in 0 .. RingSize
    BY <1>1 DEF RingOK
  <2> QED BY <1>3, <2>1, ListedIs
<1> HIDE DEF old, new
<1>7. new[count'] = e
  BY <1>1, <1>2, <1>6
<1>8. new # <<>>
  BY <1>2, <1>6
<1>9. new = EventsLog!Latest(Append(old, e))
  <2>1. CASE count < RingSize
    <3> DEFINE app == Append(old, e)
    <3>1. app \in Seq(Entry) /\ Len(app) = count + 1 /\ count' = count + 1
      BY <1>1, <1>2, <1>5, <2>1
    <3>2. ASSUME NEW j \in 1 .. count PROVE new[j] = old[j]
      <4>1. /\ count + 1 - j \in 1 .. RingSize - 1
            /\ (count + 1 - j) + 1 = count' + 1 - j
            /\ j \in 1 .. count'
        BY <1>2, <2>1, <3>1
      <4> QED BY <1>1, <1>5, <1>6, <4>1
    <3>3. \A j \in 1 .. count + 1 : new[j] = app[j]
      BY <1>2, <1>5, <1>7, <3>1, <3>2
    <3> HIDE DEF app
    <3>4. new = app
      BY <1>6, <3>1, <3>3
    <3>5. EventsLog!Latest(app) = app
      BY <1>2, <2>1, <3>1 DEF EventsLog!Latest
    <3> QED BY <3>4, <3>5 DEF app
  <2>2. CASE count = RingSize
    <3> DEFINE app == Append(old, e)
    <3>1. app \in Seq(Entry) /\ Len(app) = RingSize + 1 /\ count' = RingSize
      BY <1>1, <1>5, <2>2
    <3>2. ASSUME NEW j \in 1 .. RingSize PROVE new[j] = app[j + 1]
      <4>1. CASE j = RingSize
        BY <1>5, <1>7, <2>2, <3>1, <4>1
      <4>2. CASE j # RingSize
        <5>1. /\ RingSize - j \in 1 .. RingSize - 1
              /\ (RingSize - j) + 1 = count' + 1 - j
              /\ RingSize - j = count + 1 - (j + 1)
              /\ j + 1 \in 1 .. count
              /\ j \in 1 .. count'
          BY <2>2, <3>1, <4>2
        <5>2. new[j] = events[Slot(head, RingSize - j)]
          BY <1>1, <1>6, <5>1
        <5>3. old[j + 1] = events[Slot(head, RingSize - j)]
          BY <1>5, <5>1
        <5>4. app[j + 1] = old[j + 1]
          BY <1>5, <5>1
        <5> QED BY <5>2, <5>3, <5>4
      <4> QED BY <4>1, <4>2
    <3> HIDE DEF app
    <3>3. /\ SubSeq(app, 2, RingSize + 1) \in Seq(Entry)
          /\ Len(SubSeq(app, 2, RingSize + 1)) = RingSize
          /\ \A j \in 1 .. RingSize : SubSeq(app, 2, RingSize + 1)[j] = app[j + 1]
      BY <3>1
    <3>4. new = SubSeq(app, 2, RingSize + 1)
      BY <1>6, <3>1, <3>2, <3>3
    <3>5. EventsLog!Latest(app) = SubSeq(app, 2, RingSize + 1)
      BY <3>1 DEF EventsLog!Latest
    <3> QED BY <3>4, <3>5 DEF app
  <2> QED BY <1>2, <2>1, <2>2
<1>10. OldestFirst(RingSize) = old /\ OldestFirst(RingSize)' = new
  BY <1>2, KeptIsListed DEF old, new
<1> QED BY <1>1, <1>4, <1>6, <1>7, <1>8, <1>9, <1>10

\* A process starts with the events of the file in the order they were written.
LEMMA KeptAfterLoad ==
    ASSUME NEW entries \in Seq(Entry), Len(entries) <= RingSize,
           entries = IF file = Broken THEN <<>> ELSE file, LoadState
    PROVE  RingOK' /\ Filled' /\ OldestFirst(RingSize)' = entries
<1> DEFINE len == Len(entries)
           new == Listed(events', head', count')
<1> RingSize \in Nat \ {0} /\ len \in 0 .. RingSize
  BY WardenAssumption
<1>1. /\ events' = [s \in Slots |-> IF s < len THEN entries[s + 1] ELSE NoEntry]
      /\ head' = len % RingSize
      /\ count' = len
  BY DEF LoadState
<1>2. head' = IF len < RingSize THEN len ELSE 0
  <2>1. len \in Nat /\ len < 2 * RingSize
    OBVIOUS
  <2> HIDE DEF len
  <2>2. len % RingSize = IF len < RingSize THEN len ELSE len - RingSize
    BY <2>1, ModuloSmall
  <2> QED BY <1>1, <2>2
<1>3. head' \in Slots
  BY <1>2 DEF Slots
<1>4. RingOK'
  <2>1. \A s \in Slots : s < len => entries[s + 1] \in Entry
    BY DEF Slots
  <2> QED BY <1>1, <1>3, <2>1 DEF RingOK
<1>5. ASSUME NEW i \in 1 .. len
      PROVE  /\ Slot(head', len + 1 - i) = i - 1
             /\ events'[i - 1] = entries[i] /\ entries[i] \in Entry
  <2>1. len + 1 - i \in 1 .. RingSize
    OBVIOUS
  <2>2. Slot(head', len + 1 - i) = IF len + 1 - i <= head' THEN head' - (len + 1 - i)
                                   ELSE head' - (len + 1 - i) + RingSize
    BY <1>3, <2>1, SlotIs
  <2>3. i - 1 \in Slots /\ i - 1 < len /\ (i - 1) + 1 = i
    BY DEF Slots
  <2>4. Slot(head', len + 1 - i) = i - 1
    <3> HIDE DEF len
    <3> QED BY <1>2, <2>2
  <2>5. events'[i - 1] = entries[i] /\ entries[i] \in Entry
    BY <1>1, <2>3
  <2> QED BY <2>4, <2>5
<1>6. ASSUME NEW i \in 1 .. count' PROVE events'[Slot(head', i)] \in Entry
  <2>1. len + 1 - i \in 1 .. len /\ len + 1 - (len + 1 - i) = i
    BY <1>1
  <2> QED BY <1>5, <2>1
<1>7. Filled'
  BY <1>6 DEF Filled, Slot
<1>8. /\ new \in Seq(Entry)
      /\ Len(new) = count'
      /\ \A i \in 1 .. count' : new[i] = events'[Slot(head', count' + 1 - i)]
  <2>1. count' \in 0 .. RingSize
    BY <1>1
  <2> HIDE DEF len
  <2> QED BY <1>3, <1>6, <2>1, ListedIs
<1> HIDE DEF new
<1>9. ASSUME NEW i \in 1 .. len PROVE new[i] = entries[i]
  <2> HIDE DEF len
  <2>1. new[i] = events'[Slot(head', len + 1 - i)]
    BY <1>1, <1>8
  <2> QED BY <1>5, <2>1
<1>10. new = entries
  BY <1>1, <1>8, <1>9
<1>11. OldestFirst(RingSize)' = new
  BY <1>1, KeptIsListed DEF new
<1> QED BY <1>4, <1>7, <1>10, <1>11

--------------------------------------------------------------------------------
(* Types, and the warden as an implementation of EventLog *)

\* A handler on its way to the store or the hub carries an entry.
Carried ==
    /\ \A r \in Requests : ipc[r] # "idle" => posted[r] \in Entry
    /\ hpc \in {"store", "broadcast"} => news \in Entry

\* What is copied for the file, or read from it, fits the ring.
Fits ==
    /\ Len(saved) <= RingSize
    /\ file # Broken => Len(file) <= RingSize

StoreInv == TypeOK /\ Filled /\ Carried /\ Fits

\* The lemmas that follow give, for each kind of step, the invariant and what the log sees.
LogStep ==
    \/ EventsLog!Next
    \/ UNCHANGED <<OldestFirst(RingSize), saved, file>>

LEMMA BroadcastType ==
    ASSUME StreamOK, NEW e \in Entry, Broadcast(e), UNCHANGED <<spc, seen, joined, log>>
    PROVE  StreamOK'
<1>1. channel' \in [Clients -> Seq(Entry)]
  BY DEF Broadcast, StreamOK
<1>2. dropped' \in [Clients -> SUBSET Entry]
  BY DEF Broadcast, StreamOK
<1> QED BY <1>1, <1>2 DEF Broadcast, StreamOK

\* A step that touches neither the ring nor saved nor the file.
LEMMA QuietStep ==
    ASSUME StoreInv, UNCHANGED <<ringVars, saved, file>>
    PROVE  RingOK' /\ Filled' /\ Fits' /\ LogStep
BY SameRing DEF StoreInv, TypeOK, Fits, LogStep, RingOK, ringVars

LEMMA StoreStep ==
    ASSUME StoreInv, NEW e \in Entry, Store(e), UNCHANGED <<saved, file>>
    PROVE  RingOK' /\ Filled' /\ Fits' /\ LogStep /\ log' \in Seq(Entry)
<1>1. /\ RingOK' /\ Filled'
      /\ OldestFirst(RingSize)' # <<>>
      /\ OldestFirst(RingSize)'[Len(OldestFirst(RingSize)')] = e
      /\ OldestFirst(RingSize)' = EventsLog!Latest(Append(OldestFirst(RingSize), e))
  BY KeptAfterStore DEF StoreInv, TypeOK
<1>2. EventsLog!Record
  BY <1>1 DEF EventsLog!Record
<1>3. log' \in Seq(Entry)
  BY DEF Store, StoreInv, TypeOK, StreamOK
<1> QED BY <1>1, <1>2, <1>3 DEF LogStep, EventsLog!Next, Fits, StoreInv

LEMMA IngestInv ==
    ASSUME StoreInv, NEW r \in Requests, Ingest(r)
    PROVE  StoreInv' /\ LogStep
<1> USE DEF StoreInv, TypeOK
<1>1. CASE IngestReceives(r)
  <2>1. [event |-> "pushed", machine |-> 0, number |-> made] \in Entry
    BY DEF Entry, EntryKinds, MainOK
  <2>2. IngestOK' /\ Carried' /\ MainOK'
    BY <1>1, <2>1, WardenAssumption DEF IngestReceives, IngestOK, Carried, MainOK, mainVars, heartVars
  <2>3. HeartOK' /\ StreamOK'
    BY <1>1 DEF IngestReceives, HeartOK, StreamOK, heartVars, streamVars, hubVars
  <2> QED BY <1>1, <2>2, <2>3, QuietStep DEF IngestReceives, mainVars
<1>2. CASE IngestStores(r)
  <2>1. posted[r] \in Entry
    BY <1>2 DEF IngestStores, Carried
  <2>2. RingOK' /\ Filled' /\ Fits' /\ LogStep /\ log' \in Seq(Entry)
    BY <1>2, <2>1, StoreStep DEF IngestStores, mainVars
  <2>3. IngestOK' /\ Carried' /\ MainOK' /\ HeartOK'
    BY <1>2, <2>1 DEF IngestStores, IngestOK, Carried, MainOK, HeartOK, mainVars, heartVars
  <2>4. StreamOK'
    BY <1>2, <2>2 DEF IngestStores, StreamOK, streamVars, hubVars
  <2> QED BY <2>2, <2>3, <2>4
<1>3. CASE IngestBroadcasts(r)
  <2>1. posted[r] \in Entry
    BY <1>3 DEF IngestBroadcasts, Carried
  <2>2. StreamOK'
    BY <1>3, <2>1, BroadcastType DEF IngestBroadcasts, streamVars
  <2>3. IngestOK' /\ Carried' /\ MainOK' /\ HeartOK'
    BY <1>3 DEF IngestBroadcasts, IngestOK, Carried, MainOK, HeartOK, mainVars, heartVars
  <2> QED BY <1>3, <2>2, <2>3, QuietStep DEF IngestBroadcasts, mainVars
<1> QED BY <1>1, <1>2, <1>3 DEF Ingest

LEMMA NextAgentType ==
    ASSUME HeartOK, NextAgent
    PROVE  hpc' \in {"wait", "poll"} /\ at' \in Agents /\ news' = NoEntry
BY WardenAssumption DEF HeartOK, NextAgent, Agents

LEMMA HeartbeatInv ==
    ASSUME StoreInv, Heartbeat
    PROVE  StoreInv' /\ LogStep
<1> USE DEF StoreInv, TypeOK
<1>1. CASE PollAnswers
  <2>1. PICK now \in BOOLEAN : Transition(now)
    BY <1>1 DEF PollAnswers
  <2>2. online' \in [Agents -> BOOLEAN] /\ agentOnline' \in [Agents -> BOOLEAN]
    BY <2>1 DEF Transition, HeartOK
  <2>3. /\ hpc' \in {"wait", "poll", "store"} /\ at' \in Agents /\ made' \in Nat
        /\ news' \in Entry \union {NoEntry}
        /\ hpc' = "store" => news' \in Entry
    <3>1. CASE online[at] = now
      BY <2>1, <3>1, NextAgentType DEF Transition, MainOK
    <3>2. CASE online[at] # now
      BY <2>1, <3>2 DEF Transition, HeartOK, MainOK, Entry, EntryKinds
    <3> QED BY <3>1, <3>2
  <2>4. HeartOK' /\ MainOK' /\ Carried' /\ IngestOK' /\ StreamOK'
    <3>1. HeartOK' /\ MainOK'
      BY <1>1, <2>2, <2>3 DEF PollAnswers, HeartOK, MainOK, mainVars
    <3>2. Carried' /\ IngestOK' /\ StreamOK'
      BY <1>1, <2>3 DEF PollAnswers, Carried, IngestOK, StreamOK, ingestVars, streamVars, hubVars
    <3> QED BY <3>1, <3>2
  <2> QED BY <1>1, <2>4, QuietStep DEF PollAnswers, mainVars
<1>2. CASE HeartbeatStores
  <2>1. news \in Entry
    BY <1>2 DEF HeartbeatStores, Carried
  <2>2. RingOK' /\ Filled' /\ Fits' /\ LogStep /\ log' \in Seq(Entry)
    BY <1>2, <2>1, StoreStep DEF HeartbeatStores, mainVars
  <2>3. IngestOK' /\ Carried' /\ MainOK' /\ HeartOK'
    BY <1>2, <2>1 DEF HeartbeatStores, IngestOK, Carried, MainOK, HeartOK, mainVars, ingestVars
  <2>4. StreamOK'
    BY <1>2, <2>2 DEF HeartbeatStores, StreamOK, streamVars, hubVars
  <2> QED BY <2>2, <2>3, <2>4
<1>3. CASE HeartbeatBroadcasts
  <2>1. news \in Entry
    BY <1>3 DEF HeartbeatBroadcasts, Carried
  <2>2. StreamOK'
    BY <1>3, <2>1, BroadcastType DEF HeartbeatBroadcasts, streamVars
  <2>3. hpc' \in {"wait", "poll"} /\ at' \in Agents /\ news' = NoEntry
    BY <1>3, NextAgentType DEF HeartbeatBroadcasts
  <2>4. IngestOK' /\ Carried' /\ MainOK' /\ HeartOK'
    BY <1>3, <2>3 DEF HeartbeatBroadcasts, IngestOK, Carried, MainOK, HeartOK, mainVars, ingestVars
  <2> QED BY <1>3, <2>2, <2>4, QuietStep DEF HeartbeatBroadcasts, mainVars
<1>4. CASE HeartbeatTicks \/ HeartbeatEnds
  <2>1. HeartOK'
    BY <1>4, WardenAssumption DEF HeartbeatTicks, HeartbeatEnds, HeartOK
  <2>2. IngestOK' /\ Carried' /\ MainOK' /\ StreamOK'
    BY <1>4 DEF HeartbeatTicks, HeartbeatEnds, IngestOK, Carried, MainOK, StreamOK, mainVars,
                ingestVars, streamVars, hubVars
  <2> QED BY <1>4, <2>1, <2>2, QuietStep DEF HeartbeatTicks, HeartbeatEnds, mainVars
<1> QED BY <1>1, <1>2, <1>3, <1>4 DEF Heartbeat

LEMMA StreamsInv ==
    ASSUME StoreInv, NEW c \in Clients, Stream(c)
    PROVE  StoreInv' /\ LogStep
<1> USE DEF StoreInv, TypeOK
<1>1. UNCHANGED <<ringVars, agentOnline, ingestVars, heartVars, mainVars, made, log>>
  BY DEF Stream, StreamReplays, StreamChecks, StreamSubscribes, StreamRefused, StreamWrites,
         StreamLeaves
<1>2. IngestOK' /\ Carried' /\ MainOK' /\ HeartOK'
  BY <1>1 DEF IngestOK, Carried, MainOK, HeartOK, mainVars, ingestVars, heartVars
<1>3. StreamOK'
  <2> USE DEF StreamGoto, StreamGone
  <2>1. CASE StreamReplays(c)
    <3>1. Recent(ReplaySize) \in Seq(Entry)
      <4>1. ReplaySize \in 1 .. RingSize
        BY WardenAssumption
      <4> QED BY <4>1, RecentIs
    <3>2. OldestFirst(ReplaySize) \in Seq(Entry)
      BY <3>1, ReversedIs DEF OldestFirst
    <3> QED BY <2>1, <3>2 DEF StreamReplays, StreamOK, hubVars
  <2>2. CASE StreamChecks(c)
    BY <2>2 DEF StreamChecks, StreamOK, hubVars
  <2>3. CASE StreamSubscribes(c)
    BY <2>3 DEF StreamSubscribes, Subscribe, StreamOK
  <2>4. CASE StreamRefused(c)
    BY <2>4 DEF StreamRefused, StreamOK, hubVars
  <2>5. CASE StreamWrites(c)
    <3>1. channel[c] \in Seq(Entry) /\ channel[c] # <<>>
      BY <2>5 DEF StreamWrites, Receive, StreamOK
    <3>2. Head(channel[c]) \in Entry /\ Tail(channel[c]) \in Seq(Entry)
      BY <3>1
    <3>3. Append(seen[c], Head(channel[c])) \in Seq(Entry)
      BY <3>2 DEF StreamOK
    <3> QED BY <1>1, <2>5, <3>2, <3>3 DEF StreamWrites, Receive, StreamOK
  <2>6. CASE StreamLeaves(c)
    BY <1>1, <2>6 DEF StreamLeaves, Unsubscribe, StreamOK
  <2> QED BY <2>1, <2>2, <2>3, <2>4, <2>5, <2>6 DEF Stream
<1> QED BY <1>1, <1>2, <1>3, QuietStep DEF mainVars

\* The ring, saved and the file are all that MainGoto's steps can leave changed.
LEMMA MainGotoType ==
    ASSUME StoreInv, NEW from \in Phases, NEW to \in Phases, MainGoto(from, to)
    PROVE  /\ RingOK' /\ Filled' /\ IngestOK' /\ Carried' /\ HeartOK' /\ StreamOK'
           /\ phase' \in Phases /\ made' \in Nat
           /\ OldestFirst(RingSize)' = OldestFirst(RingSize)
<1> USE DEF StoreInv, TypeOK
<1>1. RingOK' /\ Filled' /\ OldestFirst(RingSize)' = OldestFirst(RingSize)
  BY SameRing DEF MainGoto
<1>2. IngestOK' /\ Carried' /\ HeartOK'
  BY DEF MainGoto, IngestOK, Carried, HeartOK, ingestVars, heartVars
<1>3. StreamOK' /\ phase' \in Phases /\ made' \in Nat
  BY DEF MainGoto, StreamOK, MainOK, hubVars, streamVars
<1> QED BY <1>1, <1>2, <1>3

LEMMA GoneType ==
    ASSUME StoreInv, AllGone, UNCHANGED stops \/ Ends
    PROVE  StoreInv' /\ LogStep
<1> USE DEF StoreInv, TypeOK
<1>1. IngestOK' /\ Carried'
  BY DEF AllGone, IngestOK, Carried
<1>2. HeartOK'
  BY WardenAssumption DEF AllGone, HeartOK, Agents
<1>3. StreamOK'
  BY DEF AllGone, StreamOK
<1>4. MainOK'
  BY WardenAssumption DEF AllGone, MainOK, Phases, Ends
<1>5. RingOK' /\ Filled' /\ Fits' /\ LogStep
  BY QuietStep DEF AllGone
<1> QED BY <1>1, <1>2, <1>3, <1>4, <1>5

LEMMA MainInv ==
    ASSUME StoreInv, Main
    PROVE  StoreInv' /\ LogStep
<1> USE DEF StoreInv, TypeOK
<1> {"running", "cancelled", "saving", "writing", "draining"} \subseteq Phases
  BY DEF Phases
<1>1. CASE Signal
  <2>1. MainOK'
    BY <1>1, MainGotoType, WardenAssumption DEF Signal, Ends, MainOK
  <2> QED BY <1>1, <2>1, MainGotoType DEF Signal, Fits, LogStep
<1>2. CASE SaveReads
  <2>1. saved' \in Seq(Entry) /\ Len(saved') <= RingSize
    <3>1. OldestFirst(RingSize) \in Seq(Entry) /\ Len(OldestFirst(RingSize)) = count
      BY KeptIs
    <3> QED BY <1>2, <3>1 DEF SaveReads, RingOK
  <2>2. MainOK' /\ Fits'
    BY <1>2, <2>1, MainGotoType DEF SaveReads, MainOK, Fits
  <2>3. EventsLog!Copy
    BY <1>2, MainGotoType DEF SaveReads, EventsLog!Copy
  <2> QED BY <1>2, <2>2, <2>3, MainGotoType DEF SaveReads, LogStep, EventsLog!Next
<1>3. CASE SaveOpens
  <2>1. MainOK' /\ Fits'
    BY <1>3, MainGotoType DEF SaveOpens, MainOK, Fits
  <2>2. EventsLog!Interrupt
    BY <1>3, MainGotoType DEF SaveOpens, EventsLog!Interrupt
  <2> QED BY <1>3, <2>1, <2>2, MainGotoType DEF SaveOpens, LogStep, EventsLog!Next
<1>4. CASE SaveWrites
  <2>1. MainOK' /\ Fits'
    BY <1>4, MainGotoType DEF SaveWrites, MainOK, Fits
  <2>2. EventsLog!Write
    BY <1>4, MainGotoType DEF SaveWrites, EventsLog!Write
  <2> QED BY <1>4, <2>1, <2>2, MainGotoType DEF SaveWrites, LogStep, EventsLog!Next
<1>5. CASE SaveFails
  <2>1. PICK from \in {"saving", "writing"} : MainGoto(from, "draining")
    BY <1>5 DEF SaveFails
  <2>2. MainOK' /\ Fits'
    BY <1>5, <2>1, MainGotoType DEF SaveFails, MainOK, Fits
  <2> QED BY <1>5, <2>1, <2>2, MainGotoType DEF SaveFails, LogStep
<1>6. CASE Exit \/ Kill
  BY <1>6, GoneType DEF Exit, Kill
<1>7. CASE Start
  <2> DEFINE entries == IF file = Broken THEN <<>> ELSE file
  <2>1. entries \in Seq(Entry) /\ Len(entries) <= RingSize
    BY WardenAssumption DEF MainOK, Fits
  <2>2. RingOK' /\ Filled' /\ OldestFirst(RingSize)' = entries
    BY <1>7, <2>1, KeptAfterLoad DEF Start
  <2>3. IngestOK' /\ StreamOK'
    BY <1>7 DEF Start, IngestOK, StreamOK, ingestVars, streamVars, hubVars
  <2>4. HeartOK' /\ Carried'
    BY <1>7 DEF Start, HeartOK, Carried, ingestVars
  <2>5. MainOK' /\ Fits'
    BY <1>7, WardenAssumption DEF Start, MainOK, Fits, Phases
  <2>6. EventsLog!Restart
    BY <1>7, <2>2 DEF Start, EventsLog!Restart
  <2> QED BY <2>2, <2>3, <2>4, <2>5, <2>6 DEF LogStep, EventsLog!Next
<1> QED BY <1>1, <1>2, <1>3, <1>4, <1>5, <1>6, <1>7 DEF Main

LEMMA InitInv == Init => StoreInv /\ EventsLog!Init
<1> SUFFICES ASSUME Init PROVE StoreInv /\ EventsLog!Init
  OBVIOUS
<1> RingSize \in Nat \ {0} /\ NumAgents \in Nat \ {0}
  BY WardenAssumption
<1> USE DEF Init, HubInit
<1>1. RingOK /\ Filled /\ Fits
  BY DEF RingOK, Filled, Fits, Slots
<1>2. IngestOK /\ Carried
  BY WardenAssumption DEF IngestOK, Carried
<1>3. HeartOK
  BY WardenAssumption DEF HeartOK, Agents
<1>4. StreamOK
  BY DEF StreamOK
<1>5. MainOK
  BY WardenAssumption DEF MainOK, Phases
<1>6. OldestFirst(RingSize) = <<>>
  <2>1. Len(OldestFirst(RingSize)) = 0 /\ OldestFirst(RingSize) \in Seq(Entry)
    BY <1>1, KeptIs
  <2> QED BY <2>1
<1> QED BY <1>1, <1>2, <1>3, <1>4, <1>5, <1>6 DEF StoreInv, TypeOK, EventsLog!Init

LEMMA StepInv == StoreInv /\ [Next]_vars => StoreInv' /\ LogStep
<1> SUFFICES ASSUME StoreInv, [Next]_vars PROVE StoreInv' /\ LogStep
  OBVIOUS
<1>1. ASSUME NEW r \in Requests, Ingest(r) PROVE StoreInv' /\ LogStep
  BY <1>1, IngestInv
<1>2. CASE Heartbeat
  BY <1>2, HeartbeatInv
<1>3. ASSUME NEW c \in Clients, Stream(c) PROVE StoreInv' /\ LogStep
  BY <1>3, StreamsInv
<1>4. CASE Main
  BY <1>4, MainInv
<1>5. CASE UNCHANGED vars
  <2>1. RingOK' /\ Filled' /\ Fits' /\ LogStep
    BY <1>5, QuietStep DEF vars, mainVars
  <2>2. IngestOK' /\ Carried' /\ HeartOK' /\ MainOK'
    BY <1>5 DEF vars, StoreInv, TypeOK, IngestOK, Carried, HeartOK, MainOK, ingestVars, heartVars,
                mainVars
  <2>3. StreamOK'
    BY <1>5 DEF vars, StoreInv, TypeOK, StreamOK, hubVars, streamVars
  <2> QED BY <2>1, <2>2, <2>3 DEF StoreInv, TypeOK
<1> QED BY <1>1, <1>2, <1>3, <1>4, <1>5 DEF Next

\* Every variable of the warden and of its hub keeps its type.
THEOREM TypeCorrect == Spec => []TypeOK
<1>1. StoreInv => TypeOK
  BY DEF StoreInv
<1> QED BY <1>1, InitInv, StepInv, PTL DEF Spec

\* The ring with its wrap-around, the copy and the file behave as a bounded log
\* (warden/store.go), whatever requests, heartbeats, failing saves and kills do.
THEOREM WardenKeepsEvents == Spec => EventsKept
<1>1. StoreInv /\ [Next]_vars
        => [EventsLog!Next]_<<OldestFirst(RingSize), saved, file>>
  BY StepInv DEF LogStep
<1> QED BY <1>1, InitInv, StepInv, PTL DEF Spec, EventsKept, EventsLog!Spec

--------------------------------------------------------------------------------
(* Streams miss nothing *)

Reached(c) == Held(seen[c]) \union Held(channel[c]) \union dropped[c]

CompleteInv ==
    /\ StoreInv
    /\ HubInv
    /\ StreamComplete

\* A process that is down serves nobody.
DownIsEmpty == phase = "down" => clients = {}

\* A step that stores nothing keeps its promises if what reached a client, or is on its way
\* to it, still has or is.
LEMMA NothingForgotten ==
    ASSUME StreamComplete, log' = log,
           \A c \in clients' :
               \/ joined'[c] = Len(log)
               \/ /\ c \in clients
                  /\ joined'[c] = joined[c]
                  /\ Reached(c) \union Pending \subseteq Reached(c)' \union Pending'
    PROVE  StreamComplete'
<1> SUFFICES ASSUME NEW c \in clients', NEW i \in joined'[c] + 1 .. Len(log)
             PROVE  log[i] \in Reached(c)' \union Pending'
  BY DEF StreamComplete, Got, Reached
<1>1. CASE joined'[c] = Len(log)
  BY <1>1
<1>2. CASE c \in clients /\ joined'[c] = joined[c]
           /\ Reached(c) \union Pending \subseteq Reached(c)' \union Pending'
  BY <1>2 DEF StreamComplete, Got, Reached
<1> QED BY <1>1, <1>2

\* An entry that is stored is on its way to everybody.
LEMMA StoredIsPending ==
    ASSUME StoreInv, StreamComplete, NEW e \in Entry, Store(e), e \in Pending',
           Pending \subseteq Pending', UNCHANGED <<hubVars, seen, joined>>
    PROVE  StreamComplete'
<1>1. log \in Seq(Entry) /\ log' = Append(log, e) /\ Len(log') = Len(log) + 1
  BY DEF StoreInv, TypeOK, StreamOK, Store
<1> SUFFICES ASSUME NEW c \in clients, NEW i \in joined[c] + 1 .. Len(log')
             PROVE  log'[i] \in Reached(c) \union Pending'
  BY DEF StreamComplete, Got, Reached, hubVars, Held
<1>2. joined[c] \in Nat
  BY DEF StoreInv, TypeOK, StreamOK
<1>3. CASE i = Len(log')
  BY <1>1, <1>3
<1>4. CASE i # Len(log')
  <2>1. i \in joined[c] + 1 .. Len(log) /\ log'[i] = log[i]
    BY <1>1, <1>2, <1>4
  <2> QED BY <2>1 DEF StreamComplete, Got, Reached
<1> QED BY <1>3, <1>4

LEMMA AppendHeld ==
    ASSUME NEW s \in Seq(Entry), NEW e \in Entry
    PROVE  Held(s) \union {e} \subseteq Held(Append(s, e))
<1> DEFINE app == Append(s, e)
<1>1. /\ Len(app) = Len(s) + 1 /\ app \in Seq(Entry)
      /\ app[Len(s) + 1] = e
      /\ \A i \in 1 .. Len(s) : app[i] = s[i]
  OBVIOUS
<1> HIDE DEF app
<1>2. DOMAIN app = 1 .. Len(s) + 1 /\ DOMAIN s = 1 .. Len(s) /\ Len(s) \in Nat
  BY <1>1
<1> QED BY <1>1, <1>2 DEF Held, app

\* An entry that is broadcast reaches every registered client or is dropped for it.
LEMMA BroadcastReaches ==
    ASSUME StreamOK, NEW e \in Entry, Broadcast(e), seen' = seen, NEW c \in clients
    PROVE  Reached(c) \union {e} \subseteq Reached(c)'
<1>1. c \in Clients /\ channel[c] \in Seq(Entry)
  BY DEF StreamOK
<1>2. CASE Len(channel[c]) >= BufferSize
  <2>1. channel'[c] = channel[c] /\ dropped'[c] = dropped[c] \union {e}
    BY <1>1, <1>2 DEF Broadcast
  <2> QED BY <2>1 DEF Reached, Held
<1>3. CASE ~(Len(channel[c]) >= BufferSize)
  <2>1. channel'[c] = Append(channel[c], e) /\ dropped'[c] = dropped[c]
    BY <1>1, <1>3 DEF Broadcast
  <2>2. Held(channel[c]) \union {e} \subseteq Held(Append(channel[c], e))
    BY <1>1, AppendHeld
  <2> QED BY <2>1, <2>2 DEF Reached
<1> QED BY <1>2, <1>3

LEMMA ReceiveKeeps ==
    ASSUME StreamOK, NEW c \in Clients, channel[c] # <<>>,
           seen' = [seen EXCEPT ![c] = Append(@, Head(channel[c]))],
           channel' = [channel EXCEPT ![c] = Tail(@)], dropped' = dropped,
           NEW d \in Clients
    PROVE  Reached(d) \subseteq Reached(d)'
<1>1. CASE d # c
  BY <1>1 DEF Reached, Held, StreamOK
<1>2. CASE d = c
  <2> DEFINE queue == channel[c]
             shown == seen[c]
             app == Append(shown, Head(queue))
  <2>1. queue \in Seq(Entry) /\ shown \in Seq(Entry) /\ queue # <<>>
    BY DEF StreamOK
  <2>2. seen'[c] = app /\ channel'[c] = Tail(queue)
    BY DEF StreamOK
  <2> HIDE DEF queue, shown
  <2>3. Head(queue) = queue[1] /\ queue[1] \in Entry
    BY <2>1
  <2>4. Tail(queue) \in Seq(Entry) /\ Len(Tail(queue)) = Len(queue) - 1
        /\ \A i \in 1 .. Len(queue) - 1 : Tail(queue)[i] = queue[i + 1]
    BY <2>1
  <2>5. Held(shown) \union {queue[1]} \subseteq Held(app)
    BY <2>1, <2>3, AppendHeld
  <2> HIDE DEF app
  <2>6. Held(queue) \subseteq {queue[1]} \union Held(Tail(queue))
    <3> SUFFICES ASSUME NEW i \in 1 .. Len(queue), i # 1
                 PROVE  queue[i] \in Held(Tail(queue))
      BY <2>1 DEF Held
    <3>1. i - 1 \in 1 .. Len(queue) - 1 /\ (i - 1) + 1 = i
      BY <2>1
    <3>2. i - 1 \in DOMAIN Tail(queue) /\ Tail(queue)[i - 1] = queue[i]
      BY <2>4, <3>1
    <3> QED BY <3>2 DEF Held
  <2>7. Reached(c) = Held(shown) \union Held(queue) \union dropped[c]
        /\ Reached(c)' = Held(app) \union Held(Tail(queue)) \union dropped[c]
    BY <2>2 DEF Reached, queue, shown, Held
  <2> QED BY <1>2, <2>5, <2>6, <2>7
<1> QED BY <1>1, <1>2

LEMMA IngestComplete ==
    ASSUME StoreInv, StreamComplete, NEW r \in Requests, Ingest(r)
    PROVE  StreamComplete'
<1> USE DEF StoreInv, TypeOK
<1>1. CASE IngestReceives(r)
  <2>1. Pending \subseteq Pending'
    BY <1>1 DEF IngestReceives, IngestOK, Pending, heartVars
  <2> QED BY <1>1, <2>1, NothingForgotten DEF IngestReceives, Reached, hubVars, streamVars
<1>2. CASE IngestStores(r)
  <2>1. posted[r] \in Entry
    BY <1>2 DEF IngestStores, Carried
  <2>2. Pending \subseteq Pending' /\ posted[r] \in Pending'
    BY <1>2 DEF IngestStores, IngestOK, Pending, heartVars
  <2> QED BY <1>2, <2>1, <2>2, StoredIsPending DEF IngestStores, streamVars
<1>3. CASE IngestBroadcasts(r)
  <2>1. posted[r] \in Entry
    BY <1>3 DEF IngestBroadcasts, Carried
  <2>2. Pending \subseteq Pending' \union {posted[r]}
    BY <1>3 DEF IngestBroadcasts, IngestOK, Pending, heartVars
  <2>3. /\ Broadcast(posted[r]) /\ seen' = seen /\ log' = log /\ joined' = joined
        /\ clients' = clients
    BY <1>3 DEF IngestBroadcasts, Broadcast, streamVars
  <2>4. \A c \in clients : Reached(c) \union Pending \subseteq Reached(c)' \union Pending'
    BY <2>1, <2>2, <2>3, BroadcastReaches
  <2> QED BY <2>3, <2>4, NothingForgotten
<1> QED BY <1>1, <1>2, <1>3 DEF Ingest

LEMMA HeartbeatComplete ==
    ASSUME StoreInv, StreamComplete, Heartbeat
    PROVE  StreamComplete'
<1> USE DEF StoreInv, TypeOK
<1>1. CASE PollAnswers \/ HeartbeatTicks \/ HeartbeatEnds
  <2>1. Pending \subseteq Pending'
    BY <1>1 DEF PollAnswers, HeartbeatTicks, HeartbeatEnds, Pending, ingestVars
  <2> QED BY <1>1, <2>1, NothingForgotten
          DEF PollAnswers, HeartbeatTicks, HeartbeatEnds, Reached, hubVars, streamVars
<1>2. CASE HeartbeatStores
  <2>1. news \in Entry
    BY <1>2 DEF HeartbeatStores, Carried
  <2>2. Pending \subseteq Pending' /\ news \in Pending'
    BY <1>2 DEF HeartbeatStores, Pending, ingestVars
  <2> QED BY <1>2, <2>1, <2>2, StoredIsPending DEF HeartbeatStores, streamVars
<1>3. CASE HeartbeatBroadcasts
  <2>1. news \in Entry
    BY <1>3 DEF HeartbeatBroadcasts, Carried
  <2>2. Pending \subseteq Pending' \union {news}
    BY <1>3 DEF HeartbeatBroadcasts, Pending, ingestVars
  <2>3. /\ Broadcast(news) /\ seen' = seen /\ log' = log /\ joined' = joined
        /\ clients' = clients
    BY <1>3 DEF HeartbeatBroadcasts, Broadcast, streamVars
  <2>4. \A c \in clients : Reached(c) \union Pending \subseteq Reached(c)' \union Pending'
    BY <2>1, <2>2, <2>3, BroadcastReaches
  <2> QED BY <2>3, <2>4, NothingForgotten
<1> QED BY <1>1, <1>2, <1>3 DEF Heartbeat

LEMMA StreamsComplete ==
    ASSUME StoreInv, Registered, StreamComplete, NEW c \in Clients, Stream(c)
    PROVE  StreamComplete'
<1> USE DEF StoreInv, TypeOK
<1>1. /\ log' = log /\ UNCHANGED <<ingestVars, heartVars>>
  BY DEF Stream, StreamReplays, StreamChecks, StreamSubscribes, StreamRefused, StreamWrites,
         StreamLeaves
<1>2. Pending' = Pending
  BY <1>1 DEF Pending, ingestVars, heartVars
<1>3. clients \subseteq Clients
  BY DEF StreamOK
\* A stream that is not registered yet, or no longer, concerns no other.
<1>4. ASSUME UNCHANGED hubVars, c \notin clients,
             \A d \in Clients \ {c} : seen'[d] = seen[d] /\ joined'[d] = joined[d]
      PROVE  StreamComplete'
  <2>1. \A d \in clients : Reached(d)' = Reached(d) /\ joined'[d] = joined[d]
    BY <1>3, <1>4 DEF Reached, Held, hubVars
  <2>2. clients' = clients
    BY <1>4 DEF hubVars
  <2> QED BY <1>1, <1>2, <2>1, <2>2, NothingForgotten
<1>5. CASE StreamReplays(c) \/ StreamChecks(c) \/ StreamRefused(c)
  <2>1. c \notin clients
    BY <1>5 DEF StreamReplays, StreamChecks, StreamRefused, Registered
  <2>2. \A d \in Clients \ {c} : seen'[d] = seen[d] /\ joined'[d] = joined[d]
    BY <1>5 DEF StreamReplays, StreamChecks, StreamRefused, StreamGone, StreamOK
  <2> QED BY <1>4, <1>5, <2>1, <2>2 DEF StreamReplays, StreamChecks, StreamRefused
<1>6. CASE StreamSubscribes(c)
  <2>1. /\ clients' = clients \union {c} /\ joined'[c] = Len(log)
        /\ c \notin clients
    BY <1>6 DEF StreamSubscribes, Subscribe, StreamOK, Registered
  <2>2. \A d \in clients : Reached(d)' = Reached(d) /\ joined'[d] = joined[d]
    BY <1>3, <1>6, <2>1 DEF StreamSubscribes, Subscribe, StreamOK, Reached, Held
  <2> QED BY <1>1, <1>2, <2>1, <2>2, NothingForgotten
<1>7. CASE StreamWrites(c)
  <2>1. \A d \in Clients : Reached(d) \subseteq Reached(d)'
    BY <1>7, ReceiveKeeps DEF StreamWrites, Receive
  <2>2. clients' = clients /\ joined' = joined
    BY <1>7 DEF StreamWrites, Receive
  <2> QED BY <1>1, <1>2, <1>3, <2>1, <2>2, NothingForgotten
<1>8. CASE StreamLeaves(c)
  <2>1. clients' = clients \ {c}
    BY <1>8 DEF StreamLeaves, Unsubscribe
  <2>2. \A d \in clients \ {c} : Reached(d)' = Reached(d) /\ joined'[d] = joined[d]
    BY <1>3, <1>8 DEF StreamLeaves, StreamGone, Unsubscribe, StreamOK, Reached, Held
  <2> QED BY <1>1, <1>2, <2>1, <2>2, NothingForgotten
<1> QED BY <1>5, <1>6, <1>7, <1>8 DEF Stream

\* What the main goroutine does: while it runs nothing is owed or paid, its end forgets the
\* clients, and a start finds none.
LEMMA MainComplete ==
    ASSUME CompleteInv, DownIsEmpty, Main
    PROVE  StreamComplete' /\ DownIsEmpty'
<1> USE DEF CompleteInv, StoreInv, TypeOK, DownIsEmpty
<1>1. CASE Signal \/ SaveReads \/ SaveOpens \/ SaveWrites \/ SaveFails
  <2>1. UNCHANGED <<hubVars, ingestVars, heartVars, streamVars, log>>
    BY <1>1 DEF Signal, SaveReads, SaveOpens, SaveWrites, SaveFails, MainGoto
  <2>2. Pending' = Pending /\ \A c \in clients : Reached(c)' = Reached(c)
    BY <2>1 DEF Pending, Reached, Held, hubVars, ingestVars, heartVars, streamVars
  <2>3. phase' # "down"
    BY <1>1 DEF Signal, SaveReads, SaveOpens, SaveWrites, SaveFails, MainGoto
  <2> QED BY <2>1, <2>2, <2>3, NothingForgotten DEF hubVars, streamVars
<1>2. CASE Exit \/ Kill
  BY <1>2 DEF Exit, Kill, AllGone, StreamComplete
<1>3. CASE Start
  BY <1>3 DEF Start, hubVars, StreamComplete
<1> QED BY <1>1, <1>2, <1>3 DEF Main

\* A subscribed client misses no entry stored from then on unless its own channel was full
\* (hub.go: Broadcast, sse.go: handleSSE), for any number of clients, requests and agents.
THEOREM StreamsMissNothing == Spec => []StreamComplete
<1>1. Init => CompleteInv /\ DownIsEmpty
  <2> SUFFICES ASSUME Init PROVE StreamComplete /\ DownIsEmpty
    BY InitInv, InitHub DEF CompleteInv
  <2> QED BY DEF Init, HubInit, StreamComplete, DownIsEmpty
<1>2. CompleteInv /\ DownIsEmpty /\ [Next]_vars => CompleteInv' /\ DownIsEmpty'
  <2> SUFFICES ASSUME CompleteInv, DownIsEmpty, [Next]_vars
               PROVE  StreamComplete' /\ DownIsEmpty'
    BY StepInv, StepHub DEF CompleteInv
  <2>1. ASSUME NEW r \in Requests, Ingest(r) PROVE StreamComplete' /\ DownIsEmpty'
    <3>1. Alive /\ phase' = phase
      BY <2>1 DEF Ingest, IngestReceives, IngestStores, IngestBroadcasts, Accepting, Alive, mainVars
    <3> QED BY <2>1, <3>1, IngestComplete DEF CompleteInv, DownIsEmpty, Alive
  <2>2. CASE Heartbeat
    <3>1. Alive /\ phase' = phase
      BY <2>2 DEF Heartbeat, PollAnswers, HeartbeatStores, HeartbeatBroadcasts, HeartbeatTicks,
                  HeartbeatEnds, Alive, mainVars
    <3> QED BY <2>2, <3>1, HeartbeatComplete DEF CompleteInv, DownIsEmpty, Alive
  <2>3. ASSUME NEW c \in Clients, Stream(c) PROVE StreamComplete' /\ DownIsEmpty'
    <3>1. Alive /\ phase' = phase
      BY <2>3 DEF Stream, StreamReplays, StreamChecks, StreamSubscribes, StreamRefused,
                  StreamWrites, StreamLeaves, Accepting, Alive, mainVars
    <3> QED BY <2>3, <3>1, StreamsComplete DEF CompleteInv, HubInv, DownIsEmpty, Alive
  <2>4. CASE Main
    BY <2>4, MainComplete
  <2>5. CASE UNCHANGED vars
    <3>1. UNCHANGED <<hubVars, ingestVars, heartVars, streamVars, log, phase>>
      BY <2>5 DEF vars, mainVars
    <3>2. Pending' = Pending /\ \A c \in clients : Reached(c)' = Reached(c)
      BY <3>1 DEF Pending, Reached, Held, hubVars, ingestVars, heartVars, streamVars
    <3> QED BY <3>1, <3>2, NothingForgotten DEF CompleteInv, DownIsEmpty, hubVars, streamVars
  <2> QED BY <2>1, <2>2, <2>3, <2>4, <2>5 DEF Next
<1>3. CompleteInv => StreamComplete
  BY DEF CompleteInv
<1> QED BY <1>1, <1>2, <1>3, PTL DEF Spec

--------------------------------------------------------------------------------
(* What the agents' entries tell *)

\* What is pushed is about no agent that the heartbeat polls.
PushesAnonymous == \A r \in Requests : ipc[r] # "idle" => posted[r].machine = 0

\* What a heartbeat in the middle of a transition carries.
NewsHolds ==
    /\ hpc \in {"store", "broadcast"} => news.number < made
    /\ hpc = "store" =>
        /\ news.machine = at
        /\ news.event = IF online[at] THEN "agent_online" ELSE "agent_offline"

CarryInv == PushesAnonymous /\ NewsHolds /\ online = agentOnline

LEMMA CarryInit == Init => CarryInv
BY DEF Init, CarryInv, PushesAnonymous, NewsHolds

\* transition: the state in both places, and an entry about it if it changed.
LEMMA TransitionIs ==
    ASSUME StoreInv, CarryInv, NEW now \in BOOLEAN, Transition(now)
    PROVE  /\ agentOnline' = [agentOnline EXCEPT ![at] = now] /\ online' = agentOnline'
           /\ at \in Agents
           /\ \/ agentOnline' = agentOnline /\ hpc' \in {"poll", "wait"} /\ made' = made
              \/ /\ now # agentOnline[at] /\ hpc' = "store" /\ at' = at
                 /\ news' = [event |-> IF now THEN "agent_online" ELSE "agent_offline",
                             machine |-> at, number |-> made]
                 /\ made' = made + 1
<1>1. agentOnline \in [Agents -> BOOLEAN] /\ at \in Agents
  BY DEF StoreInv, TypeOK, HeartOK
<1>2. agentOnline' = [agentOnline EXCEPT ![at] = now] /\ online' = agentOnline'
  BY DEF Transition, CarryInv
<1>3. CASE online[at] = now
  <2>1. agentOnline' = agentOnline
    BY <1>1, <1>2, <1>3 DEF CarryInv
  <2>2. hpc' \in {"poll", "wait"} /\ made' = made
    BY <1>3 DEF Transition, NextAgent
  <2> QED BY <1>1, <1>2, <2>1, <2>2
<1>4. CASE online[at] # now
  <2>1. /\ hpc' = "store" /\ at' = at /\ made' = made + 1
        /\ news' = [event |-> IF now THEN "agent_online" ELSE "agent_offline",
                    machine |-> at, number |-> made]
    BY <1>4 DEF Transition
  <2>2. now # agentOnline[at]
    BY <1>4 DEF CarryInv
  <2> QED BY <1>1, <1>2, <2>1, <2>2
<1> QED BY <1>3, <1>4

LEMMA CarryStep == StoreInv /\ CarryInv /\ [Next]_vars => CarryInv'
<1> SUFFICES ASSUME StoreInv, CarryInv, [Next]_vars PROVE CarryInv'
  OBVIOUS
<1>t. made \in Nat /\ ipc \in [Requests -> {"idle", "store", "broadcast"}]
      /\ posted \in [Requests -> Entry \union {NoEntry}]
  BY DEF StoreInv, TypeOK, IngestOK, MainOK
<1>1. ASSUME NEW r \in Requests, Ingest(r) PROVE CarryInv'
  <2>1. UNCHANGED heartVars /\ UNCHANGED agentOnline /\ made' >= made
    BY <1>1, <1>t DEF Ingest, IngestReceives, IngestStores, IngestBroadcasts
  <2>2. NewsHolds' /\ online' = agentOnline'
    <3>1. hpc \in {"store", "broadcast"} => news.number \in Nat
      BY DEF StoreInv, Carried, Entry
    <3>2. made' \in Nat
      BY <1>1, <1>t DEF Ingest, IngestReceives, IngestStores, IngestBroadcasts
    <3>3. made' >= made /\ UNCHANGED <<hpc, at, online, news, agentOnline>>
      BY <2>1 DEF heartVars
    <3>4. hpc \in {"store", "broadcast"} => news.number < made'
      BY <1>t, <3>1, <3>2, <3>3 DEF CarryInv, NewsHolds
    <3> QED BY <3>3, <3>4 DEF CarryInv, NewsHolds
  <2>3. PushesAnonymous'
    BY <1>1, <1>t DEF Ingest, IngestReceives, IngestStores, IngestBroadcasts, CarryInv,
                      PushesAnonymous
  <2> QED BY <2>2, <2>3 DEF CarryInv
<1>2. CASE Heartbeat
  <2>1. UNCHANGED ingestVars
    BY <1>2 DEF Heartbeat, PollAnswers, HeartbeatStores, HeartbeatBroadcasts, HeartbeatTicks,
                HeartbeatEnds
  <2>2. PushesAnonymous'
    BY <2>1 DEF CarryInv, PushesAnonymous, ingestVars
  <2>3. CASE PollAnswers
    <3>1. PICK now \in BOOLEAN : Transition(now)
      BY <2>3 DEF PollAnswers
    <3>2. /\ agentOnline' = [agentOnline EXCEPT ![at] = now] /\ online' = agentOnline'
          /\ at \in Agents
          /\ \/ hpc' \in {"poll", "wait"}
             \/ /\ now # agentOnline[at] /\ hpc' = "store" /\ at' = at
                /\ news' = [event |-> IF now THEN "agent_online" ELSE "agent_offline",
                            machine |-> at, number |-> made]
                /\ made' = made + 1
      BY <3>1, TransitionIs
    <3>3. online'[at] = now
      BY <3>2 DEF StoreInv, TypeOK, HeartOK
    <3>4. NewsHolds'
      BY <1>t, <3>2, <3>3 DEF NewsHolds
    <3> QED BY <2>2, <3>2, <3>4 DEF CarryInv
  <2>4. CASE HeartbeatStores
    BY <2>2, <2>4 DEF HeartbeatStores, CarryInv, NewsHolds
  <2>5. CASE HeartbeatBroadcasts
    BY <2>2, <2>5 DEF HeartbeatBroadcasts, NextAgent, CarryInv, NewsHolds
  <2>6. CASE HeartbeatTicks \/ HeartbeatEnds
    BY <2>2, <2>6 DEF HeartbeatTicks, HeartbeatEnds, CarryInv, NewsHolds
  <2> QED BY <1>2, <2>3, <2>4, <2>5, <2>6 DEF Heartbeat
<1>3. ASSUME UNCHANGED <<ingestVars, heartVars, agentOnline, made>> PROVE CarryInv'
  BY <1>3 DEF CarryInv, PushesAnonymous, NewsHolds, ingestVars, heartVars
<1>4. ASSUME NEW c \in Clients, Stream(c) PROVE CarryInv'
  BY <1>3, <1>4 DEF Stream, StreamReplays, StreamChecks, StreamSubscribes, StreamRefused,
                    StreamWrites, StreamLeaves
<1>5. CASE Main
  <2>1. CASE Signal \/ SaveReads \/ SaveOpens \/ SaveWrites \/ SaveFails
    BY <1>3, <2>1 DEF Signal, SaveReads, SaveOpens, SaveWrites, SaveFails, MainGoto
  <2>2. CASE Exit \/ Kill
    <3>1. /\ ipc' = [r \in Requests |-> "idle"] /\ hpc' = "ended"
          /\ online' = agentOnline'
      BY <2>2 DEF Exit, Kill, AllGone
    <3> QED BY <3>1 DEF CarryInv, PushesAnonymous, NewsHolds
  <2>3. CASE Start
    BY <2>3 DEF Start, CarryInv, PushesAnonymous, NewsHolds, ingestVars
  <2> QED BY <1>5, <2>1, <2>2, <2>3 DEF Main
<1>6. CASE UNCHANGED vars
  BY <1>3, <1>6 DEF vars
<1> QED BY <1>1, <1>2, <1>4, <1>5, <1>6 DEF Next

\* While no process runs, its heartbeat is where the next one starts it.
DownIsStill == phase = "down" => hpc = "ended"

LEMMA StillStep == DownIsStill /\ [Next]_vars => DownIsStill'
<1> SUFFICES ASSUME DownIsStill, [Next]_vars PROVE DownIsStill'
  OBVIOUS
<1>1. ASSUME phase' = phase, phase # "down" PROVE DownIsStill'
  BY <1>1 DEF DownIsStill
<1>2. ASSUME NEW r \in Requests, Ingest(r) PROVE phase' = phase /\ phase # "down"
  BY <1>2 DEF Ingest, IngestReceives, IngestStores, IngestBroadcasts, Accepting, Alive, mainVars
<1>3. ASSUME Heartbeat PROVE phase' = phase /\ phase # "down"
  BY <1>3 DEF Heartbeat, PollAnswers, HeartbeatStores, HeartbeatBroadcasts, HeartbeatTicks,
              HeartbeatEnds, Alive, mainVars
<1>4. ASSUME NEW c \in Clients, Stream(c) PROVE phase' = phase /\ phase # "down"
  BY <1>4 DEF Stream, StreamReplays, StreamChecks, StreamSubscribes, StreamRefused,
              StreamWrites, StreamLeaves, Accepting, Alive, mainVars
<1>5. CASE Main
  BY <1>5 DEF Main, Signal, SaveReads, SaveOpens, SaveWrites, SaveFails, Exit, Kill, AllGone,
              Start, MainGoto, DownIsStill
<1>6. CASE UNCHANGED vars
  BY <1>6 DEF vars, mainVars, heartVars, DownIsStill
<1> QED BY <1>1, <1>2, <1>3, <1>4, <1>5, <1>6 DEF Next

\* The story of one agent in a log: its entries alternate, and how many they are.
Turn(a, s, i) == Cardinality({j \in AboutAgent(a, s) : j <= i})
Said(a, s) == Cardinality(AboutAgent(a, s))
Kind(n) == IF n % 2 = 1 THEN "agent_online" ELSE "agent_offline"
Alternates(a, s) == \A i \in AboutAgent(a, s) : s[i].event = Kind(Turn(a, s, i))

LEMMA AboutFinite ==
    ASSUME NEW a, NEW s \in Seq(Entry)
    PROVE  /\ IsFiniteSet(AboutAgent(a, s)) /\ AboutAgent(a, s) \subseteq 1 .. Len(s)
           /\ Said(a, s) \in Nat
<1>1. AboutAgent(a, s) \subseteq 1 .. Len(s) /\ Len(s) \in Nat
  BY DEF AboutAgent
<1>2. IsFiniteSet(1 .. Len(s))
  BY <1>1, FS_Interval
<1> QED BY <1>1, <1>2, FS_Subset, FS_CardinalityType DEF Said

\* An entry at the end of a log leaves the turns before it alone, and an agent's own is its next.
LEMMA AppendSays ==
    ASSUME NEW a, NEW s \in Seq(Entry), NEW e \in Entry, Alternates(a, s),
           e.machine = a => e.event = Kind(Said(a, s) + 1)
    PROVE  /\ Alternates(a, Append(s, e))
           /\ Said(a, Append(s, e)) = IF e.machine = a THEN Said(a, s) + 1 ELSE Said(a, s)
<1> DEFINE app == Append(s, e)
           last == Len(s) + 1
           about == AboutAgent(a, s)
<1>1. /\ app \in Seq(Entry) /\ Len(app) = last /\ app[last] = e
      /\ \A i \in 1 .. Len(s) : app[i] = s[i]
      /\ DOMAIN app = 1 .. last /\ DOMAIN s = 1 .. Len(s) /\ Len(s) \in Nat
  OBVIOUS
<1>2. IsFiniteSet(about) /\ about \subseteq 1 .. Len(s) /\ last \notin about
  BY <1>1, AboutFinite
<1> HIDE DEF app, last
<1>3. AboutAgent(a, app) = IF e.machine = a THEN about \union {last} ELSE about
  BY <1>1 DEF AboutAgent, last
<1> HIDE DEF about
<1>4. ASSUME NEW i \in about PROVE app[i] = s[i] /\ Turn(a, app, i) = Turn(a, s, i)
  <2>1. i \in 1 .. Len(s) /\ ~(last <= i)
    BY <1>1, <1>2 DEF last
  <2>2. {j \in AboutAgent(a, app) : j <= i} = {j \in about : j <= i}
    BY <1>3, <2>1
  <2> QED BY <1>1, <2>1, <2>2 DEF Turn, about
<1>5. \A i \in about : s[i].event = Kind(Turn(a, s, i))
  BY DEF Alternates, about
<1>6. CASE e.machine = a
  <2>1. Cardinality(about \union {last}) = Cardinality(about) + 1
    BY <1>2, FS_AddElement
  <2>2. Said(a, app) = Said(a, s) + 1
    BY <1>3, <1>6, <2>1 DEF Said, about
  <2>3. {j \in AboutAgent(a, app) : j <= last} = about \union {last}
    <3>1. \A j \in about : j <= last
      BY <1>1, <1>2 DEF last
    <3>2. last <= last
      BY <1>1 DEF last
    <3> QED BY <1>3, <1>6, <3>1, <3>2
  <2>4. Turn(a, app, last) = Said(a, s) + 1
    BY <2>1, <2>3 DEF Turn, Said, about
  <2>5. ASSUME NEW i \in AboutAgent(a, app) PROVE app[i].event = Kind(Turn(a, app, i))
    <3>1. CASE i = last
      BY <1>1, <1>6, <2>4, <3>1
    <3>2. CASE i \in about
      BY <1>4, <1>5, <3>2
    <3> QED BY <1>3, <1>6, <3>1, <3>2
  <2> QED BY <1>6, <2>2, <2>5 DEF Alternates, app
<1>7. CASE e.machine # a
  <2>1. AboutAgent(a, app) = about
    BY <1>3, <1>7
  <2>2. Said(a, app) = Said(a, s)
    BY <2>1 DEF Said, about
  <2>3. ASSUME NEW i \in AboutAgent(a, app) PROVE app[i].event = Kind(Turn(a, app, i))
    BY <1>4, <1>5, <2>1
  <2> QED BY <1>7, <2>2, <2>3 DEF Alternates, app
<1> QED BY <1>6, <1>7

\* The last state that the log tells of an agent; an entry that is not stored yet is the next.
LastTold(a) == IF hpc = "store" /\ a = at THEN ~agentOnline[a] ELSE agentOnline[a]

StoryInv == \A a \in Agents : Alternates(a, log) /\ (LastTold(a) <=> Said(a, log) % 2 = 1)

LEMMA NoStory ==
    ASSUME NEW a, NEW s, s = <<>>
    PROVE  Alternates(a, s) /\ Said(a, s) = 0
<1>1. AboutAgent(a, s) = {}
  BY DEF AboutAgent
<1> QED BY <1>1, FS_EmptySet DEF Alternates, Said

LEMMA StoryStep ==
    StoreInv /\ CarryInv /\ DownIsStill /\ StoryInv /\ [Next]_vars => StoryInv'
<1> SUFFICES ASSUME StoreInv, CarryInv, DownIsStill, StoryInv, [Next]_vars, NEW a \in Agents
             PROVE  Alternates(a, log') /\ (LastTold(a)' <=> Said(a, log') % 2 = 1)
  BY DEF StoryInv, Agents, Alternates, Said, AboutAgent, Turn, Kind
<1>1. /\ log \in Seq(Entry) /\ agentOnline \in [Agents -> BOOLEAN]
      /\ \A r \in Requests : ipc[r] # "idle" => posted[r] \in Entry
      /\ hpc = "store" => news \in Entry
  BY DEF StoreInv, TypeOK, StreamOK, HeartOK, Carried
<1>2. Said(a, log) \in Nat /\ Alternates(a, log) /\ (LastTold(a) <=> Said(a, log) % 2 = 1)
  BY <1>1, AboutFinite DEF StoryInv
<1>3. ASSUME UNCHANGED log, LastTold(a)' <=> LastTold(a)
      PROVE  Alternates(a, log') /\ (LastTold(a)' <=> Said(a, log') % 2 = 1)
  BY <1>2, <1>3
<1>4. ASSUME NEW r \in Requests, Ingest(r)
      PROVE  Alternates(a, log') /\ (LastTold(a)' <=> Said(a, log') % 2 = 1)
  <2>1. LastTold(a)' <=> LastTold(a)
    BY <1>4 DEF Ingest, IngestReceives, IngestStores, IngestBroadcasts, LastTold, heartVars
  <2>2. CASE IngestStores(r)
    <3>1. posted[r] \in Entry /\ posted[r].machine = 0 /\ log' = Append(log, posted[r])
      BY <1>1, <2>2 DEF IngestStores, Store, CarryInv, PushesAnonymous
    <3>2. posted[r].machine # a
      BY <3>1, WardenAssumption DEF Agents
    <3> QED BY <1>1, <1>2, <2>1, <3>1, <3>2, AppendSays
  <2>3. CASE IngestReceives(r) \/ IngestBroadcasts(r)
    BY <1>3, <2>1, <2>3 DEF IngestReceives, IngestBroadcasts
  <2> QED BY <1>4, <2>2, <2>3 DEF Ingest
<1>5. CASE Heartbeat
  <2>1. CASE PollAnswers
    <3>1. PICK now \in BOOLEAN : Transition(now)
      BY <2>1 DEF PollAnswers
    <3>2. log' = log /\ hpc = "poll"
      BY <2>1 DEF PollAnswers
    <3>3. /\ agentOnline' = [agentOnline EXCEPT ![at] = now]
          /\ at \in Agents
          /\ \/ agentOnline' = agentOnline /\ hpc' \in {"poll", "wait"}
             \/ now # agentOnline[at] /\ hpc' = "store" /\ at' = at
      BY <3>1, TransitionIs
    <3>4. LastTold(a)' <=> LastTold(a)
      <4>1. CASE agentOnline' = agentOnline /\ hpc' \in {"poll", "wait"}
        BY <3>2, <4>1 DEF LastTold
      <4>2. CASE now # agentOnline[at] /\ hpc' = "store" /\ at' = at
        <5>1. CASE a = at
          <6>1. agentOnline'[a] = now /\ agentOnline[a] \in BOOLEAN /\ now # agentOnline[a]
            BY <1>1, <3>3, <4>2, <5>1
          <6>2. now <=> ~agentOnline[a]
            BY <6>1
          <6> QED BY <3>2, <4>2, <5>1, <6>1, <6>2 DEF LastTold
        <5>2. CASE a # at
          BY <1>1, <3>2, <3>3, <4>2, <5>2 DEF LastTold
        <5> QED BY <5>1, <5>2
      <4> QED BY <3>3, <4>1, <4>2
    <3> QED BY <1>3, <3>2, <3>4
  <2>2. CASE HeartbeatStores
    <3>1. /\ hpc = "store" /\ hpc' = "broadcast" /\ UNCHANGED <<at, agentOnline>>
          /\ log' = Append(log, news) /\ news \in Entry
      BY <1>1, <2>2 DEF HeartbeatStores, Store
    <3>2. news.machine = at /\ news.event = IF agentOnline[at] THEN "agent_online" ELSE "agent_offline"
      BY <3>1 DEF CarryInv, NewsHolds
    <3>3. CASE a = at
      <4>1. ~agentOnline[a] <=> Said(a, log) % 2 = 1
        BY <1>2, <3>1, <3>3 DEF LastTold
      <4>2. agentOnline[a] <=> (Said(a, log) + 1) % 2 = 1
        BY <1>2, <4>1
      <4>3. news.event = Kind(Said(a, log) + 1)
        BY <3>2, <3>3, <4>2 DEF Kind
      <4>4. Alternates(a, log') /\ Said(a, log') = Said(a, log) + 1
        BY <1>1, <1>2, <3>1, <3>2, <3>3, <4>3, AppendSays
      <4>5. LastTold(a)' <=> agentOnline[a]
        BY <3>1 DEF LastTold
      <4> QED BY <4>2, <4>4, <4>5
    <3>4. CASE a # at
      <4>1. Alternates(a, log') /\ Said(a, log') = Said(a, log)
        BY <1>1, <1>2, <3>1, <3>2, <3>4, AppendSays
      <4>2. LastTold(a)' <=> LastTold(a)
        BY <3>1, <3>4 DEF LastTold
      <4> QED BY <1>2, <4>1, <4>2
    <3> QED BY <3>3, <3>4
  <2>3. CASE HeartbeatBroadcasts \/ HeartbeatTicks \/ HeartbeatEnds
    <3>1. UNCHANGED <<log, agentOnline>> /\ hpc # "store" /\ hpc' # "store"
      BY <2>3 DEF HeartbeatBroadcasts, HeartbeatTicks, HeartbeatEnds, NextAgent
    <3> QED BY <1>3, <3>1 DEF LastTold
  <2> QED BY <1>5, <2>1, <2>2, <2>3 DEF Heartbeat
<1>6. ASSUME UNCHANGED <<heartVars, agentOnline, log>>
      PROVE  Alternates(a, log') /\ (LastTold(a)' <=> Said(a, log') % 2 = 1)
  BY <1>3, <1>6 DEF LastTold, heartVars
<1>7. ASSUME NEW c \in Clients, Stream(c)
      PROVE  Alternates(a, log') /\ (LastTold(a)' <=> Said(a, log') % 2 = 1)
  BY <1>6, <1>7 DEF Stream, StreamReplays, StreamChecks, StreamSubscribes, StreamRefused,
                    StreamWrites, StreamLeaves
<1>8. CASE Main
  <2>1. CASE Signal \/ SaveReads \/ SaveOpens \/ SaveWrites \/ SaveFails
    BY <1>6, <2>1 DEF Signal, SaveReads, SaveOpens, SaveWrites, SaveFails, MainGoto
  <2>2. CASE Exit \/ Kill
    <3>1. log' = <<>> /\ hpc' = "ended" /\ agentOnline' = [b \in Agents |-> FALSE]
      BY <2>2 DEF Exit, Kill, AllGone
    <3>2. Alternates(a, log') /\ Said(a, log') = 0
      BY <3>1, NoStory
    <3>3. ~LastTold(a)'
      BY <3>1 DEF LastTold
    <3> QED BY <3>2, <3>3
  <2>3. CASE Start
    <3>1. UNCHANGED <<log, agentOnline>> /\ hpc = "ended" /\ hpc' = "poll"
      BY <2>3 DEF Start, DownIsStill
    <3> QED BY <1>3, <3>1 DEF LastTold
  <2> QED BY <1>8, <2>1, <2>2, <2>3 DEF Main
<1>9. CASE UNCHANGED vars
  BY <1>6, <1>9 DEF vars
<1> QED BY <1>4, <1>5, <1>7, <1>8, <1>9 DEF Next

\* The heartbeat tells of each agent that it came online and went offline in turn, and between
\* rounds the last it told is what the dashboard shows (warden/heartbeat.go), for any number of
\* agents and whatever the requests that store entries in between.
THEOREM AgentsTellTheirStory == Spec => []AgentStory
<1>1. Init => CarryInv /\ DownIsStill /\ StoryInv
  <2> SUFFICES ASSUME Init PROVE DownIsStill /\ StoryInv
    BY CarryInit
  <2>1. log = <<>> /\ hpc = "poll" /\ phase = "running" /\ agentOnline = [a \in Agents |-> FALSE]
    BY DEF Init
  <2>2. \A a \in Agents : Alternates(a, log) /\ Said(a, log) = 0 /\ ~LastTold(a)
    BY <2>1, NoStory DEF LastTold
  <2> QED BY <2>1, <2>2 DEF DownIsStill, StoryInv
<1>2. StoryInv => AgentStory
  <2> SUFFICES ASSUME StoryInv, NEW a \in Agents
               PROVE  /\ \A i \in AboutAgent(a, log) : log[i].event = Kind(Turn(a, log, i))
                      /\ hpc # "store" => (agentOnline[a] <=> Said(a, log) % 2 = 1)
    BY DEF AgentStory, Kind, Turn, Said
  <2> QED BY DEF StoryInv, Alternates, LastTold
<1>3. CarryInv /\ DownIsStill /\ StoryInv /\ StoreInv /\ [Next]_vars
        => CarryInv' /\ DownIsStill' /\ StoryInv'
  BY CarryStep, StillStep, StoryStep
<1> QED BY <1>1, <1>2, <1>3, InitInv, StepInv, PTL DEF Spec

--------------------------------------------------------------------------------
(* The agents' entries keep their order *)

Ordered(s) ==
    \A i, j \in DOMAIN s :
        i < j /\ s[i].machine # 0 /\ s[j].machine # 0 => s[i].number <= s[j].number

UpTo(s, n) == \A i \in DOMAIN s : s[i].machine # 0 => s[i].number <= n

\* What may be followed by an entry of the heartbeat with number n.
Told(s, n) == s \in Seq(Entry) /\ Ordered(s) /\ UpTo(s, n)

LEMMA ToldLater ==
    ASSUME NEW s, NEW m \in Nat, NEW n \in Nat, Told(s, m), m <= n
    PROVE  Told(s, n)
<1> SUFFICES ASSUME NEW i \in DOMAIN s, s[i].machine # 0 PROVE s[i].number <= n
  BY DEF Told, UpTo
<1>1. s[i] \in Entry /\ s[i].number <= m
  BY DEF Told, UpTo
<1>2. s[i].number \in Nat
  BY <1>1 DEF Entry
<1> QED BY <1>1, <1>2

LEMMA ToldNothing == ASSUME NEW n PROVE Told(<<>>, n)
BY DEF Told, Ordered, UpTo

LEMMA ToldNext ==
    ASSUME NEW s, NEW n \in Nat, Told(s, n), NEW e \in Entry, e.machine = 0 \/ e.number = n
    PROVE  Told(Append(s, e), n)
<1> DEFINE app == Append(s, e)
           last == Len(s) + 1
<1>1. s \in Seq(Entry)
  BY DEF Told
<1>2. /\ app \in Seq(Entry) /\ app[last] = e /\ DOMAIN app = 1 .. last
      /\ \A i \in 1 .. Len(s) : app[i] = s[i]
      /\ DOMAIN s = 1 .. Len(s) /\ Len(s) \in Nat
  BY <1>1
<1> HIDE DEF app
<1>3. ASSUME NEW i \in DOMAIN app, app[i].machine # 0 PROVE app[i].number <= n
  <2>1. CASE i = last
    BY <1>2, <1>3, <2>1
  <2>2. CASE i # last
    BY <1>2, <1>3, <2>2 DEF Told, UpTo
  <2> QED BY <2>1, <2>2
<1>4. ASSUME NEW i \in DOMAIN app, NEW j \in DOMAIN app, i < j,
             app[i].machine # 0, app[j].machine # 0
      PROVE  app[i].number <= app[j].number
  <2>1. CASE j = last
    BY <1>2, <1>3, <1>4, <2>1
  <2>2. CASE j # last
    <3>1. i \in DOMAIN s /\ j \in DOMAIN s /\ app[i] = s[i] /\ app[j] = s[j]
      BY <1>2, <1>4, <2>2
    <3> QED BY <1>4, <3>1 DEF Told, Ordered
  <2> QED BY <2>1, <2>2
<1> QED BY <1>2, <1>3, <1>4 DEF Told, Ordered, UpTo, app

\* A part of what was told, from some place on.
LEMMA ToldSuffix ==
    ASSUME NEW s, NEW n, Told(s, n), NEW t \in Seq(Entry), NEW k \in Nat,
           Len(t) + k = Len(s), \A i \in 1 .. Len(t) : t[i] = s[i + k]
    PROVE  Told(t, n)
<1>1. s \in Seq(Entry) /\ DOMAIN s = 1 .. Len(s) /\ DOMAIN t = 1 .. Len(t)
  BY DEF Told
<1>2. \A i \in DOMAIN t : i + k \in DOMAIN s /\ t[i] = s[i + k]
  BY <1>1
<1>3. \A i, j \in DOMAIN t : i < j => i + k < j + k
  BY <1>1
<1>4. UpTo(t, n)
  BY <1>2 DEF Told, UpTo
<1>5. Ordered(t)
  BY <1>2, <1>3 DEF Told, Ordered
<1> QED BY <1>4, <1>5 DEF Told

LEMMA ToldLatest ==
    ASSUME NEW s, NEW n, Told(s, n)
    PROVE  Told(EventsLog!Latest(s), n)
<1> RingSize \in Nat \ {0} /\ s \in Seq(Entry)
  BY WardenAssumption DEF Told
<1>1. CASE Len(s) <= RingSize
  BY <1>1 DEF EventsLog!Latest
<1>2. CASE Len(s) > RingSize
  <2> DEFINE k == Len(s) - RingSize
             t == SubSeq(s, k + 1, Len(s))
  <2>1. k \in Nat /\ EventsLog!Latest(s) = t
    BY <1>2 DEF EventsLog!Latest
  <2>2. t \in Seq(Entry) /\ Len(t) + k = Len(s) /\ \A i \in 1 .. Len(t) : t[i] = s[i + k]
    BY <1>2
  <2> HIDE DEF k, t
  <2>3. Told(t, n)
    BY <2>1, <2>2, ToldSuffix
  <2> QED BY <2>1, <2>3
<1> QED BY <1>1, <1>2

\* A stream is replayed the end of what the ring keeps.
LEMMA ToldReplay ==
    ASSUME RingOK, Filled, NEW n, Told(OldestFirst(RingSize), n)
    PROVE  Told(OldestFirst(ReplaySize), n)
<1> RingSize \in Nat \ {0} /\ ReplaySize \in 1 .. RingSize
  BY WardenAssumption
<1> DEFINE kept == OldestFirst(RingSize)
           recent == Recent(ReplaySize)
           replay == OldestFirst(ReplaySize)
           length == Len(recent)
           k == count - length
<1>1. count \in 0 .. RingSize /\ head \in Slots
  BY DEF RingOK
<1>2. /\ kept \in Seq(Entry) /\ Len(kept) = count
      /\ \A i \in 1 .. count : kept[i] = events[Slot(head, count + 1 - i)]
  <2>1. kept = Listed(events, head, count)
    BY <1>1, KeptIsListed
  <2>2. \A i \in 1 .. count : events[Slot(head, i)] \in Entry
    BY DEF Filled
  <2> HIDE DEF kept
  <2> QED BY <1>1, <2>1, <2>2, ListedIs
<1>3. /\ recent \in Seq(Entry)
      /\ length = IF ReplaySize > count THEN count ELSE ReplaySize
      /\ \A i \in 1 .. length : recent[i] = events[Slot(head, i)]
  BY RecentIs
<1>4. length \in Nat /\ k \in Nat
  BY <1>1, <1>3
<1>5. /\ replay \in Seq(Entry) /\ Len(replay) = length
      /\ \A i \in 1 .. length : replay[i] = recent[length + 1 - i]
  <2>1. replay = Reversed(recent)
    BY DEF OldestFirst
  <2> HIDE DEF recent, replay
  <2> QED BY <1>3, <2>1, ReversedIs
<1> HIDE DEF kept, recent, replay
<1>6. ASSUME NEW i \in 1 .. length PROVE replay[i] = kept[i + k]
  <2>1. length + 1 - i \in 1 .. length /\ i + k \in 1 .. count /\ count + 1 - (i + k) = length + 1 - i
    BY <1>1, <1>4
  <2> HIDE DEF length, k
  <2>2. replay[i] = events[Slot(head, length + 1 - i)]
    BY <1>3, <1>5, <2>1
  <2>3. kept[i + k] = events[Slot(head, length + 1 - i)]
    BY <1>2, <2>1
  <2> QED BY <2>2, <2>3
<1>7. Len(replay) + k = Len(kept)
  BY <1>1, <1>2, <1>4, <1>5
<1> HIDE DEF length, k
<1> QED BY <1>4, <1>5, <1>6, <1>7, ToldSuffix DEF kept, replay

--------------------------------------------------------------------------------

\* No entry of the heartbeat has a higher number, and its next one has no lower.
Top == IF hpc \in {"store", "broadcast"} THEN news.number ELSE made

ShownTo(c) == seen[c] \o channel[c]

OrderInv ==
    /\ \A c \in Clients : Told(ShownTo(c), Top)
    /\ \A c \in Clients \ clients : channel[c] = <<>>
    /\ Told(OldestFirst(RingSize), Top)
    /\ Told(saved, Top)
    /\ file # Broken => Told(file, Top)

LEMMA TopIs == ASSUME StoreInv PROVE Top \in Nat
BY DEF StoreInv, TypeOK, MainOK, Carried, Entry, Top

LEMMA TopGrows ==
    ASSUME StoreInv, CarryInv, DownIsStill, [Next]_vars
    PROVE  Top' \in Nat /\ Top <= Top'
<1>1. Top' \in Nat /\ StoreInv'
  <2>1. StoreInv'
    BY StepInv
  <2> QED BY <2>1 DEF StoreInv, TypeOK, MainOK, Carried, Entry, Top
<1>2. Top \in Nat /\ made \in Nat /\ Top <= made
  BY TopIs DEF Top, StoreInv, TypeOK, MainOK, CarryInv, NewsHolds, Carried, Entry
<1>3. ASSUME NEW r \in Requests, Ingest(r) PROVE Top <= Top'
  <2>1. /\ made' \in {made, made + 1} /\ UNCHANGED <<hpc, news>>
    BY <1>3 DEF Ingest, IngestReceives, IngestStores, IngestBroadcasts, heartVars
  <2> QED BY <1>2, <2>1 DEF Top
<1>4. CASE PollAnswers
  <2>1. PICK now \in BOOLEAN : Transition(now)
    BY <1>4 DEF PollAnswers
  <2>2. hpc = "poll" /\ Top = made
    BY <1>4 DEF PollAnswers, Top
  <2>3. Top' = made
    <3>1. \/ hpc' \in {"poll", "wait"} /\ made' = made
          \/ /\ hpc' = "store"
             /\ news' = [event |-> IF now THEN "agent_online" ELSE "agent_offline",
                         machine |-> at, number |-> made]
      BY <2>1, TransitionIs
    <3> QED BY <3>1 DEF Top
  <2> QED BY <1>2, <2>2, <2>3
<1>5. CASE HeartbeatStores
  <2>1. hpc = "store" /\ hpc' = "broadcast" /\ news' = news
    BY <1>5 DEF HeartbeatStores
  <2> QED BY <1>2, <2>1 DEF Top
<1>6. CASE HeartbeatBroadcasts \/ HeartbeatTicks \/ HeartbeatEnds
  <2>1. made' = made /\ hpc' \notin {"store", "broadcast"}
    BY <1>6 DEF HeartbeatBroadcasts, HeartbeatTicks, HeartbeatEnds, NextAgent
  <2> QED BY <1>2, <2>1 DEF Top
<1>7. ASSUME hpc' = hpc, news' = news, made' = made PROVE Top <= Top'
  BY <1>2, <1>7 DEF Top
<1>8. ASSUME NEW c \in Clients, Stream(c) PROVE Top <= Top'
  BY <1>7, <1>8 DEF Stream, StreamReplays, StreamChecks, StreamSubscribes, StreamRefused,
                    StreamWrites, StreamLeaves, heartVars
<1>9. CASE Main
  <2>1. CASE Signal \/ SaveReads \/ SaveOpens \/ SaveWrites \/ SaveFails
    <3>1. hpc' = hpc /\ news' = news /\ made' = made
      BY <2>1 DEF Signal, SaveReads, SaveOpens, SaveWrites, SaveFails, MainGoto, heartVars
    <3> QED BY <1>1, <1>7, <3>1
  <2>2. CASE Exit \/ Kill \/ Start
    <3>1. made' = made /\ hpc' \in {"ended", "poll"}
      BY <2>2 DEF Exit, Kill, AllGone, Start
    <3> QED BY <1>2, <3>1 DEF Top
  <2> QED BY <1>9, <2>1, <2>2 DEF Main
<1>10. CASE UNCHANGED vars
  <2>1. hpc' = hpc /\ news' = news /\ made' = made
    BY <1>10 DEF vars, heartVars
  <2> QED BY <1>1, <1>7, <2>1
<1> QED BY <1>1, <1>3, <1>4, <1>5, <1>6, <1>8, <1>9, <1>10 DEF Next, Heartbeat

\* A step of the ring that is not a store, and one that is.
LEMMA OrderedStep ==
    ASSUME StoreInv, CarryInv, DownIsStill, OrderInv, [Next]_vars,
           \A c \in Clients : ShownTo(c)' = ShownTo(c) \/ Told(ShownTo(c)', Top'),
           \A c \in Clients \ clients' : channel'[c] = <<>>,
           \/ OldestFirst(RingSize)' = OldestFirst(RingSize)
           \/ Told(OldestFirst(RingSize)', Top'),
           saved' = saved \/ Told(saved', Top'),
           file' = file \/ file' = Broken \/ Told(file', Top')
    PROVE  OrderInv'
<1>1. Top \in Nat /\ Top' \in Nat /\ Top <= Top'
  BY TopIs, TopGrows
<1>2. ASSUME NEW s, Told(s, Top) PROVE Told(s, Top')
  BY <1>1, <1>2, ToldLater
<1>3. \A c \in Clients : Told(ShownTo(c)', Top')
  BY <1>2 DEF OrderInv
<1>4. Told(OldestFirst(RingSize)', Top') /\ Told(saved', Top')
  BY <1>2 DEF OrderInv
<1>5. file' # Broken => Told(file', Top')
  BY <1>2 DEF OrderInv
<1> QED BY <1>3, <1>4, <1>5 DEF OrderInv, Told, Ordered, UpTo

\* An entry that is carried to the store or the hub may follow all that was told.
LEMMA StoreOrdered ==
    ASSUME StoreInv, CarryInv, DownIsStill, OrderInv, [Next]_vars,
           NEW e \in Entry, e.machine = 0 \/ e.number = Top', Store(e),
           UNCHANGED <<hubVars, seen, saved, file>>
    PROVE  OrderInv'
<1>1. RingOK /\ Filled
  BY DEF StoreInv, TypeOK
<1>2. OldestFirst(RingSize)' = EventsLog!Latest(Append(OldestFirst(RingSize), e))
  BY <1>1, KeptAfterStore
<1>3. Top \in Nat /\ Top' \in Nat /\ Top <= Top'
  BY TopIs, TopGrows
<1>4. Told(OldestFirst(RingSize), Top')
  BY <1>3, ToldLater DEF OrderInv
<1>5. Told(OldestFirst(RingSize)', Top')
  BY <1>2, <1>3, <1>4, ToldNext, ToldLatest
<1>6. /\ \A c \in Clients : ShownTo(c)' = ShownTo(c)
      /\ \A c \in Clients \ clients' : channel'[c] = <<>>
  BY DEF ShownTo, OrderInv, hubVars
<1> QED BY <1>5, <1>6, OrderedStep

LEMMA BroadcastOrdered ==
    ASSUME StoreInv, CarryInv, DownIsStill, OrderInv, [Next]_vars,
           NEW e \in Entry, e.machine = 0 \/ e.number = Top, Broadcast(e),
           UNCHANGED <<ringVars, seen, saved, file>>
    PROVE  OrderInv'
<1>1. Top \in Nat /\ Top' \in Nat /\ Top <= Top'
  BY TopIs, TopGrows
<1>2. seen \in [Clients -> Seq(Entry)] /\ channel \in [Clients -> Seq(Entry)]
  BY DEF StoreInv, TypeOK, StreamOK
<1>3. ASSUME NEW c \in Clients PROVE ShownTo(c)' = ShownTo(c) \/ Told(ShownTo(c)', Top')
  <2>1. CASE channel'[c] = channel[c]
    BY <2>1 DEF ShownTo
  <2>2. CASE channel'[c] = Append(channel[c], e)
    <3> DEFINE s == seen[c]
               q == channel[c]
    <3>1. s \in Seq(Entry) /\ q \in Seq(Entry)
      BY <1>2
    <3>2. ShownTo(c)' = s \o Append(q, e)
      BY <2>2 DEF ShownTo
    <3>3. ShownTo(c) = s \o q
      BY DEF ShownTo
    <3> HIDE DEF s, q
    <3>4. s \o Append(q, e) = Append(s \o q, e)
      BY <3>1
    <3>5. Told(Append(s \o q, e), Top)
      BY <1>1, <3>3, ToldNext DEF OrderInv
    <3> QED BY <1>1, <3>2, <3>4, <3>5, ToldLater
  <2> QED BY <2>1, <2>2 DEF Broadcast
<1>4. \A c \in Clients \ clients' : channel'[c] = <<>>
  BY DEF Broadcast, OrderInv
<1>5. OldestFirst(RingSize)' = OldestFirst(RingSize)
  BY SameRing
<1> QED BY <1>3, <1>4, <1>5, OrderedStep

\* The message that a stream takes from its channel is the next it is shown.
LEMMA ReceiveOrdered ==
    ASSUME StreamOK, NEW c \in Clients, channel[c] # <<>>,
           seen' = [seen EXCEPT ![c] = Append(@, Head(channel[c]))],
           channel' = [channel EXCEPT ![c] = Tail(@)]
    PROVE  \A d \in Clients : ShownTo(d)' = ShownTo(d)
<1> SUFFICES ASSUME NEW d \in Clients PROVE ShownTo(d)' = ShownTo(d)
  OBVIOUS
<1>1. CASE d # c
  BY <1>1 DEF ShownTo, StreamOK
<1>2. CASE d = c
  <2> DEFINE s == seen[c]
             q == channel[c]
  <2>1. s \in Seq(Entry) /\ q \in Seq(Entry) /\ q # <<>>
    BY DEF StreamOK
  <2>2. ShownTo(c)' = Append(s, Head(q)) \o Tail(q) /\ ShownTo(c) = s \o q
    BY DEF ShownTo, StreamOK
  <2> HIDE DEF s, q
  <2>3. Append(s, Head(q)) \o Tail(q) = s \o q
    BY <2>1
  <2> QED BY <1>2, <2>2, <2>3
<1> QED BY <1>1, <1>2

LEMMA StreamOrdered ==
    ASSUME StoreInv, CarryInv, DownIsStill, Registered, OrderInv, NEW c \in Clients, Stream(c)
    PROVE  OrderInv'
<1>1. UNCHANGED <<ringVars, saved, file>> /\ [Next]_vars
  BY DEF Stream, StreamReplays, StreamChecks, StreamSubscribes, StreamRefused, StreamWrites,
         StreamLeaves, mainVars, Next
<1>2. OldestFirst(RingSize)' = OldestFirst(RingSize)
  BY <1>1, SameRing
<1>3. Top \in Nat /\ Top' \in Nat /\ Top <= Top'
  BY <1>1, TopIs, TopGrows
<1>4. StreamOK /\ RingOK /\ Filled
  BY DEF StoreInv, TypeOK
<1>5. CASE StreamReplays(c)
  <2>1. /\ channel[c] = <<>> /\ UNCHANGED hubVars
        /\ seen' = [seen EXCEPT ![c] = OldestFirst(ReplaySize)]
    BY <1>5 DEF StreamReplays, Registered, OrderInv
  <2>2. Told(OldestFirst(ReplaySize), Top')
    BY <1>3, <1>4, ToldReplay, ToldLater DEF OrderInv
  <2>3. ShownTo(c)' = OldestFirst(ReplaySize) \o <<>>
    BY <1>4, <2>1 DEF ShownTo, StreamOK, hubVars
  <2>4. OldestFirst(ReplaySize) \o <<>> = OldestFirst(ReplaySize)
    BY <2>2 DEF Told
  <2>5. \A d \in Clients \ {c} : ShownTo(d)' = ShownTo(d)
    BY <1>4, <2>1 DEF ShownTo, StreamOK, hubVars
  <2>6. \A d \in Clients \ clients' : channel'[d] = <<>>
    BY <2>1 DEF OrderInv, hubVars
  <2>7. \A d \in Clients : ShownTo(d)' = ShownTo(d) \/ Told(ShownTo(d)', Top')
    BY <2>2, <2>3, <2>4, <2>5
  <2> QED BY <1>1, <1>2, <2>6, <2>7, OrderedStep
<1>6. CASE StreamChecks(c)
  <2>1. UNCHANGED <<hubVars, seen>>
    BY <1>6 DEF StreamChecks
  <2>2. /\ \A d \in Clients : ShownTo(d)' = ShownTo(d)
        /\ \A d \in Clients \ clients' : channel'[d] = <<>>
    BY <2>1 DEF ShownTo, OrderInv, hubVars
  <2> QED BY <1>1, <1>2, <2>2, OrderedStep
<1>7. CASE StreamSubscribes(c)
  <2>1. /\ channel' = [channel EXCEPT ![c] = <<>>] /\ seen' = seen
        /\ clients' = clients \union {c} /\ channel[c] = <<>>
    BY <1>7 DEF StreamSubscribes, Subscribe, Registered, OrderInv
  <2>2. channel' = channel
    BY <1>4, <2>1 DEF StreamOK
  <2>3. /\ \A d \in Clients : ShownTo(d)' = ShownTo(d)
        /\ \A d \in Clients \ clients' : channel'[d] = <<>>
    BY <2>1, <2>2 DEF ShownTo, OrderInv
  <2> QED BY <1>1, <1>2, <2>3, OrderedStep
<1>8. CASE StreamRefused(c) \/ StreamLeaves(c)
  <2>1. /\ seen' = [seen EXCEPT ![c] = <<>>]
        /\ channel' = [channel EXCEPT ![c] = <<>>]
        /\ clients' = clients \ {c}
    <3>1. CASE StreamRefused(c)
      <4>1. c \notin clients /\ UNCHANGED <<channel, clients>> /\ seen' = [seen EXCEPT ![c] = <<>>]
        BY <3>1 DEF StreamRefused, StreamGone, Registered, hubVars
      <4>2. channel[c] = <<>>
        BY <4>1 DEF OrderInv
      <4> QED BY <1>4, <4>1, <4>2 DEF StreamOK
    <3>2. CASE StreamLeaves(c)
      BY <3>2 DEF StreamLeaves, StreamGone, Unsubscribe
    <3> QED BY <1>8, <3>1, <3>2
  <2>2. ShownTo(c)' = <<>> \o <<>>
    BY <1>4, <2>1 DEF ShownTo, StreamOK
  <2>3. <<>> \o <<>> = <<>>
    OBVIOUS
  <2>4. Told(ShownTo(c)', Top')
    BY <2>2, <2>3, ToldNothing
  <2>5. \A d \in Clients \ {c} : ShownTo(d)' = ShownTo(d)
    BY <1>4, <2>1 DEF ShownTo, StreamOK
  <2>6. \A d \in Clients \ clients' : channel'[d] = <<>>
    BY <1>4, <2>1 DEF OrderInv, StreamOK
  <2>7. \A d \in Clients : ShownTo(d)' = ShownTo(d) \/ Told(ShownTo(d)', Top')
    BY <2>4, <2>5
  <2> QED BY <1>1, <1>2, <2>6, <2>7, OrderedStep
<1>9. CASE StreamWrites(c)
  <2>1. /\ channel[c] # <<>> /\ c \in clients /\ clients' = clients
        /\ seen' = [seen EXCEPT ![c] = Append(@, Head(channel[c]))]
        /\ channel' = [channel EXCEPT ![c] = Tail(@)]
    BY <1>9 DEF StreamWrites, Receive
  <2>2. \A d \in Clients : ShownTo(d)' = ShownTo(d)
    BY <1>4, <2>1, ReceiveOrdered
  <2>3. \A d \in Clients \ clients' : channel'[d] = <<>>
    BY <1>4, <2>1 DEF OrderInv, StreamOK
  <2> QED BY <1>1, <1>2, <2>2, <2>3, OrderedStep
<1> QED BY <1>5, <1>6, <1>7, <1>8, <1>9 DEF Stream

LEMMA OrderStep ==
    StoreInv /\ CarryInv /\ DownIsStill /\ Registered /\ OrderInv /\ [Next]_vars => OrderInv'
<1> SUFFICES ASSUME StoreInv, CarryInv, DownIsStill, Registered, OrderInv, [Next]_vars
             PROVE  OrderInv'
  OBVIOUS
\* The steps that show nobody anything and leave the ring.
<1>1. ASSUME UNCHANGED <<hubVars, ringVars, seen>>,
             saved' = saved \/ Told(saved', Top'),
             file' = file \/ file' = Broken \/ Told(file', Top')
      PROVE  OrderInv'
  <2>1. /\ \A c \in Clients : ShownTo(c)' = ShownTo(c)
        /\ \A c \in Clients \ clients' : channel'[c] = <<>>
    BY <1>1 DEF ShownTo, OrderInv, hubVars
  <2>2. OldestFirst(RingSize)' = OldestFirst(RingSize)
    BY <1>1, SameRing
  <2> QED BY <1>1, <2>1, <2>2, OrderedStep
<1>2. Top \in Nat /\ Top' \in Nat /\ Top <= Top'
  BY TopIs, TopGrows
<1>3. ASSUME NEW r \in Requests, Ingest(r) PROVE OrderInv'
  <2>1. CASE IngestReceives(r)
    <3>1. UNCHANGED <<hubVars, ringVars, seen>> /\ saved' = saved /\ file' = file
      BY <2>1 DEF IngestReceives, streamVars, mainVars
    <3> QED BY <1>1, <3>1
  <2>2. CASE IngestStores(r)
    <3>1. posted[r] \in Entry /\ posted[r].machine = 0
      BY <2>2 DEF IngestStores, StoreInv, Carried, CarryInv, PushesAnonymous
    <3>2. Store(posted[r]) /\ UNCHANGED <<hubVars, seen, saved, file>>
      BY <2>2 DEF IngestStores, streamVars, mainVars
    <3> QED BY <3>1, <3>2, StoreOrdered
  <2>3. CASE IngestBroadcasts(r)
    <3>1. posted[r] \in Entry /\ posted[r].machine = 0
      BY <2>3 DEF IngestBroadcasts, StoreInv, Carried, CarryInv, PushesAnonymous
    <3>2. Broadcast(posted[r]) /\ UNCHANGED <<ringVars, seen, saved, file>>
      BY <2>3 DEF IngestBroadcasts, streamVars, mainVars
    <3> QED BY <3>1, <3>2, BroadcastOrdered
  <2> QED BY <1>3, <2>1, <2>2, <2>3 DEF Ingest
<1>4. CASE Heartbeat
  <2>1. CASE PollAnswers \/ HeartbeatTicks \/ HeartbeatEnds
    <3>1. UNCHANGED <<hubVars, ringVars, seen>> /\ saved' = saved /\ file' = file
      BY <2>1 DEF PollAnswers, HeartbeatTicks, HeartbeatEnds, streamVars, mainVars
    <3> QED BY <1>1, <3>1
  <2>2. CASE HeartbeatStores
    <3>1. news \in Entry /\ news.number = Top'
      BY <2>2 DEF HeartbeatStores, StoreInv, Carried, Top
    <3>2. Store(news) /\ UNCHANGED <<hubVars, seen, saved, file>>
      BY <2>2 DEF HeartbeatStores, streamVars, mainVars
    <3> QED BY <3>1, <3>2, StoreOrdered
  <2>3. CASE HeartbeatBroadcasts
    <3>1. news \in Entry /\ news.number = Top
      BY <2>3 DEF HeartbeatBroadcasts, StoreInv, Carried, Top
    <3>2. Broadcast(news) /\ UNCHANGED <<ringVars, seen, saved, file>>
      BY <2>3 DEF HeartbeatBroadcasts, streamVars, mainVars
    <3> QED BY <3>1, <3>2, BroadcastOrdered
  <2> QED BY <1>4, <2>1, <2>2, <2>3 DEF Heartbeat
<1>5. ASSUME NEW c \in Clients, Stream(c) PROVE OrderInv'
  BY <1>5, StreamOrdered
<1>6. CASE Main
  <2>1. CASE Signal \/ SaveReads \/ SaveOpens \/ SaveWrites \/ SaveFails
    <3>1. UNCHANGED <<hubVars, ringVars, seen>>
      BY <2>1 DEF Signal, SaveReads, SaveOpens, SaveWrites, SaveFails, MainGoto, streamVars
    <3>2. saved' \in {saved, OldestFirst(RingSize)} /\ file' \in {file, Broken, saved}
      BY <2>1 DEF Signal, SaveReads, SaveOpens, SaveWrites, SaveFails
    <3>3. Told(OldestFirst(RingSize), Top') /\ Told(saved, Top')
      BY <1>2, ToldLater DEF OrderInv
    <3> QED BY <1>1, <3>1, <3>2, <3>3
  <2>2. CASE Exit \/ Kill
    <3>1. /\ seen' = [c \in Clients |-> <<>>] /\ channel' = [c \in Clients |-> <<>>]
          /\ UNCHANGED <<ringVars, saved, file>>
      BY <2>2 DEF Exit, Kill, AllGone
    <3>2. OldestFirst(RingSize)' = OldestFirst(RingSize)
      BY <3>1, SameRing
    <3>3. \A c \in Clients : ShownTo(c)' = <<>> \o <<>>
      BY <3>1 DEF ShownTo
    <3>4. <<>> \o <<>> = <<>>
      OBVIOUS
    <3>5. \A c \in Clients : Told(ShownTo(c)', Top')
      BY <3>3, <3>4, ToldNothing
    <3>6. \A c \in Clients \ clients' : channel'[c] = <<>>
      BY <3>1
    <3> QED BY <3>1, <3>2, <3>5, <3>6, OrderedStep
  <2>3. CASE Start
    <3> DEFINE entries == IF file = Broken THEN <<>> ELSE file
    <3>1. LoadState /\ UNCHANGED <<hubVars, seen, file>> /\ saved' = <<>>
      BY <2>3 DEF Start, streamVars
    <3>2. Told(entries, Top')
      BY <1>2, ToldLater, ToldNothing DEF OrderInv
    <3>3. entries \in Seq(Entry) /\ Len(entries) <= RingSize
      BY WardenAssumption DEF StoreInv, Fits, TypeOK, MainOK
    <3> HIDE DEF entries
    <3>4. OldestFirst(RingSize)' = entries
      BY <3>1, <3>3, KeptAfterLoad DEF entries
    <3>5. /\ \A c \in Clients : ShownTo(c)' = ShownTo(c)
          /\ \A c \in Clients \ clients' : channel'[c] = <<>>
      BY <3>1 DEF ShownTo, OrderInv, hubVars
    <3>6. Told(saved', Top')
      BY <3>1, ToldNothing
    <3> QED BY <3>1, <3>2, <3>4, <3>5, <3>6, OrderedStep
  <2> QED BY <1>6, <2>1, <2>2, <2>3 DEF Main
<1>7. CASE UNCHANGED vars
  <2>1. UNCHANGED <<hubVars, ringVars, seen>> /\ saved' = saved /\ file' = file
    BY <1>7 DEF vars, streamVars, mainVars
  <2> QED BY <1>1, <2>1
<1> QED BY <1>3, <1>4, <1>5, <1>6, <1>7 DEF Next

\* What a client is shown of an agent never goes back in time (warden/sse.go replays before it
\* subscribes, warden/heartbeat.go stores before it broadcasts), through saves, kills and starts.
THEOREM AgentsInOrder == Spec => []AgentEventsInOrder
<1>1. Init => CarryInv /\ DownIsStill /\ OrderInv
  <2> SUFFICES ASSUME Init PROVE DownIsStill /\ OrderInv
    BY CarryInit
  <2>1. DownIsStill
    BY DEF Init, DownIsStill
  <2>2. /\ seen = [c \in Clients |-> <<>>] /\ channel = [c \in Clients |-> <<>>]
        /\ saved = <<>> /\ file = <<>>
    BY DEF Init, HubInit
  <2>3. <<>> \o <<>> = <<>>
    OBVIOUS
  <2>4. \A c \in Clients : ShownTo(c) = <<>>
    BY <2>2, <2>3 DEF ShownTo
  <2>5. OldestFirst(RingSize) = <<>>
    BY InitInv DEF EventsLog!Init
  <2> QED BY <2>1, <2>2, <2>4, <2>5, ToldNothing DEF OrderInv
<1>2. StoreInv /\ OrderInv => AgentEventsInOrder
  <2> SUFFICES ASSUME StoreInv, OrderInv, NEW c \in clients, NEW a \in Agents,
                      NEW i \in AboutAgent(a, ShownTo(c)), NEW j \in AboutAgent(a, ShownTo(c)),
                      i < j
               PROVE  ShownTo(c)[i].number <= ShownTo(c)[j].number
    BY DEF AgentEventsInOrder, ShownTo
  <2>1. c \in Clients /\ a # 0
    BY WardenAssumption DEF StoreInv, TypeOK, StreamOK, Agents
  <2> QED BY <2>1 DEF OrderInv, Told, Ordered, AboutAgent
<1>3. StoreInv /\ HubInv /\ CarryInv /\ DownIsStill /\ OrderInv /\ [Next]_vars
        => CarryInv' /\ DownIsStill' /\ OrderInv'
  BY CarryStep, StillStep, OrderStep DEF HubInv
<1> QED BY <1>1, <1>2, <1>3, InitInv, StepInv, InitHub, StepHub, PTL DEF Spec
================================================================================
