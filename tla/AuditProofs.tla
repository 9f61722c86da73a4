----------------------------- MODULE AuditProofs -----------------------------
(***************************************************************************)
(* Proofs about AuditLog, for every value of the constants.                *)
(*                                                                         *)
(* The lemmas that a step keeps something are about AuditStep, a step of   *)
(* the log alone or among the streams, so that StreamsProofs can use them. *)
(* What is shown: the bound of the file from the lock and the count        *)
(* (LockHolds, CountHolds); what reading a file back returns; that the     *)
(* file holds the last entries that were acknowledged, each once           *)
(* (WrittenOnce, Newest); and that the archives hold those before them:    *)
(* no two rotations fall into one second (Crowd, Paced), so that no        *)
(* archive is overwritten, and the archives are in order (Journal).        *)
(***************************************************************************)
EXTENDS AuditLog, FiniteSetTheorems, WellFoundedInduction, TLAPS

USE AuditAssumption
USE DEF auditVars, fileVars, handleVars, readVars, taskVars, procVars

LogLines == Entries \union {Torn}

\* The things that an append makes of a sequence.
LEMMA SequencesTyped ==
  ASSUME NEW S, NEW s \in Seq(S), NEW x \in S
  PROVE  /\ <<>> \in Seq(S) /\ Append(s, x) \in Seq(S)
         /\ [s EXCEPT ![Len(s)] = x] \in Seq(S)
<1>1. <<>> \in Seq(S) /\ Append(s, x) \in Seq(S)
  OBVIOUS
<1>2. [s EXCEPT ![Len(s)] = x] \in Seq(S)
  <2>1. PICK n \in Nat : s \in [1 .. n -> S]
    OBVIOUS
  <2>2. \A i : [s EXCEPT ![i] = x] \in [1 .. n -> S]
    BY <2>1
  <2> QED
    BY <2>2
<1> QED
  BY <1>1, <1>2

LEMMA LinesTyped ==
  ASSUME NEW s \in Seq(LogLines), NEW x \in LogLines
  PROVE  /\ <<>> \in Seq(LogLines) /\ Append(s, x) \in Seq(LogLines)
         /\ [s EXCEPT ![Len(s)] = x] \in Seq(LogLines)
BY SequencesTyped

--------------------------------------------------------------------------------
(* Types *)

\* What New counts is all the lines, when none is too long for the scanner.
LEMMA CountedIs ==
  ASSUME AuditTypeOK
  PROVE  /\ CountedLines \in Nat /\ CountedLines <= Len(log)
         /\ Lines \cap Long = {} => CountedLines = Len(log)
<1> DEFINE counted == {i \in DOMAIN log : \A j \in 1 .. i : log[j] \notin Long}
<1>1. Len(log) \in Nat /\ DOMAIN log = 1 .. Len(log)
  BY DEF AuditTypeOK
<1>2. IsFiniteSet(1 .. Len(log)) /\ Cardinality(1 .. Len(log)) = Len(log)
  <2>1. /\ IsFiniteSet(1 .. Len(log))
        /\ Cardinality(1 .. Len(log)) = IF 1 > Len(log) THEN 0 ELSE Len(log) - 1 + 1
    <3>1. 1 \in Int /\ Len(log) \in Int
      BY <1>1
    <3> QED
      BY <3>1, FS_Interval, Zenon
  <2> QED
    BY <1>1, <2>1
<1>3. IsFiniteSet(counted) /\ Cardinality(counted) <= Len(log) /\ Cardinality(counted) \in Nat
  <2>1. counted \subseteq 1 .. Len(log)
    BY <1>1
  <2>2. IsFiniteSet(counted) /\ Cardinality(counted) <= Cardinality(1 .. Len(log))
    BY <1>2, <2>1, FS_Subset, Zenon
  <2>3. Cardinality(counted) \in Nat
    BY <2>2, FS_CardinalityType, Zenon
  <2> QED
    BY <1>2, <2>2, <2>3, Zenon
<1>4. ASSUME Lines \cap Long = {} PROVE counted = 1 .. Len(log)
  <2>1. \A j \in 1 .. Len(log) : log[j] \notin Long
    BY <1>1, <1>4 DEF Lines
  <2>2. \A i \in 1 .. Len(log) : \A j \in 1 .. i : j \in 1 .. Len(log)
    BY <1>1
  <2> QED
    BY <1>1, <2>1, <2>2
<1> QED
  BY <1>2, <1>3, <1>4 DEF CountedLines

LEMMA NewStarts ==
  ASSUME AuditTypeOK, New
  PROVE  /\ UNCHANGED <<log, archives, now, pace, write, acked>>
         /\ up' = TRUE /\ file' = "open" /\ present' = TRUE
         /\ eventCount' \in Nat /\ eventCount' <= Len(log)
         /\ faulted \subseteq faulted' /\ faulted' \subseteq faulted \union {"count"}
         /\ "count" \notin faulted' => eventCount' = Len(log)
<1>1. Len(log) \in Nat
  BY DEF AuditTypeOK
<1> QED
  BY <1>1, CountedIs DEF New

\* A step of the log, alone or among the streams.
AuditStep == [AuditNext]_auditVars \/ \E w \in Entries : BroadcastDone(w)

LEMMA AuditTypeStep ==
  ASSUME AuditTypeOK, AuditStep
  PROVE  AuditTypeOK'
<1> USE DEF AuditTypeOK
<1>1. ASSUME NEW w \in Entries, WriteStart(w) PROVE AuditTypeOK'
  BY <1>1 DEF WriteStart
<1>2. ASSUME NEW w \in Entries, Rename(w) PROVE AuditTypeOK'
  <2>1. now \in 0 .. now
    OBVIOUS
  <2>2. DOMAIN archives' \subseteq 0 .. now' /\ \A s \in DOMAIN archives' : archives'[s] \in Seq(LogLines)
    BY <1>2, <2>1 DEF Rename, ArchiveSecond, LogLines
  <2>3. log' \in Seq(LogLines)
    <3>1. log' = <<>> \/ log' = log
      BY <1>2 DEF Rename
    <3>2. log \in Seq(LogLines) /\ w \in LogLines
      BY DEF LogLines
    <3> HIDE DEF AuditTypeOK
    <3> QED
      BY <3>1, <3>2, LinesTyped, Zenon
  <2>4. {present', torn', up'} \subseteq BOOLEAN
    BY <1>2 DEF Rename, Reopen
  <2>5. faulted' \subseteq Faults \union {"count"}
    BY <1>2 DEF Rename, Reopen
  <2>6. /\ reading' \in [Readers -> {"idle", "reading", "opened", "apart", "panicked"}]
        /\ held' \in [Readers -> Seq(LogLines)]
    BY <1>2 DEF Rename, Detach, readVars, LogLines
  <2> QED
    BY <1>2, <2>2, <2>3, <2>4, <2>5, <2>6 DEF Rename, Reopen, LogLines
<1>3. ASSUME NEW w \in Entries, OpenNew(w) PROVE AuditTypeOK'
  <2>1. DOMAIN archives' \subseteq 0 .. now' /\ \A s \in DOMAIN archives' : archives'[s] \in Seq(LogLines)
    BY <1>3 DEF OpenNew, CleanOldArchives, LogLines
  <2>2. {present', torn', up'} \subseteq BOOLEAN /\ faulted' \subseteq Faults \union {"count"}
    BY <1>3 DEF OpenNew
  <2>3. UNCHANGED <<log, lock, readVars, taskVars, crashes, now, pace, acked>> /\ eventCount' \in Nat
    BY <1>3 DEF OpenNew
  <2>4. file' \in {"open", "closed", "nil"}
    BY <1>3 DEF OpenNew
  <2>5. write' = [write EXCEPT ![w] = "rotated"]
    BY <1>3 DEF OpenNew
  <2> QED
    BY <2>1, <2>2, <2>3, <2>4, <2>5 DEF LogLines
<1>4. ASSUME NEW w \in Entries, WriteLine(w) PROVE AuditTypeOK'
  <2>1. log' \in Seq(LogLines)
    <3>1. log' \in {log, Append(log, w), Append(log, Torn), [log EXCEPT ![Len(log)] = Torn]}
      BY <1>4 DEF WriteLine, AppendLine
    <3>2. log \in Seq(LogLines) /\ w \in LogLines /\ Torn \in LogLines
      BY DEF LogLines
    <3> HIDE DEF AuditTypeOK
    <3> QED
      BY <3>1, <3>2, LinesTyped
  <2>2. pushing' \union casting' \union arrived' \subseteq Entries
    BY <1>4 DEF WriteLine, AppendLine, Announce, Spawn
  <2>3. faulted' \subseteq Faults \union {"count"}
    <3>1. faulted' \in {faulted, faulted \union {"torn"}, faulted \union {"write"}}
          /\ (faulted' = faulted \/ faulted' \subseteq faulted \union Faults)
      BY <1>4 DEF WriteLine, AppendLine
    <3> QED
      BY <3>1
  <2>4. acked' \in Seq(Entries)
    <3>1. acked' = acked \/ acked' = Append(acked, w)
      BY <1>4 DEF WriteLine, AppendLine
    <3>2. acked \in Seq(Entries)
      OBVIOUS
    <3> HIDE DEF AuditTypeOK
    <3> QED
      BY <3>1, <3>2, SequencesTyped
  <2>5. torn' \in BOOLEAN
    BY <1>4 DEF WriteLine, AppendLine
  <2>7. /\ UNCHANGED <<present, up, crashes, now, archives, file, readVars>>
        /\ \/ UNCHANGED <<eventCount, pace>>
           \/ eventCount' = eventCount + 1 /\ pace' \in {MaxEvents, pace + 1}
    BY <1>4 DEF WriteLine, AppendLine
  <2>6. /\ write' \in [Entries -> {"new", "writing", "renamed", "rotated", "acked", "failed", "ignored", "lost"}]
        /\ lock' \in Entries \union {Free, Gone}
    BY <1>4 DEF WriteLine, AppendLine, Unlock
  <2>8. {eventCount', crashes', now', pace'} \subseteq Nat
    BY <2>7
  <2> QED
    BY <2>1, <2>2, <2>3, <2>4, <2>5, <2>6, <2>7, <2>8 DEF LogLines
<1>5. ASSUME NEW r \in Readers, Reading(r) PROVE AuditTypeOK'
  <2>1. /\ UNCHANGED <<fileVars, handleVars, write, taskVars, procVars, pace, acked>>
        /\ lock' \in {lock, Gone}
        /\ \E s \in {"idle", "reading", "opened", "apart", "panicked"} : reading' = [reading EXCEPT ![r] = s]
        /\ held' = held \/ held' = [held EXCEPT ![r] = <<>>]
    BY <1>5 DEF Reading, RecentStart, RecentOpen, RecentRead
  <2>2. <<>> \in Seq(Entries \union {Torn})
    OBVIOUS
  <2>3. reading' \in [Readers -> {"idle", "reading", "opened", "apart", "panicked"}]
    BY <2>1
  <2>4. held' \in [Readers -> Seq(Entries \union {Torn})]
    BY <2>1, <2>2
  <2>5. lock' \in Entries \union {Free, Gone}
    BY <2>1
  <2> QED
    BY <2>1, <2>3, <2>4, <2>5
<1>6. ASSUME NEW w \in Entries, Send(w) PROVE AuditTypeOK'
  BY <1>6 DEF Send
<1>7. CASE Tick
  BY <1>7 DEF Tick
<1>8. CASE Exit
  <2>1. /\ write' \in [Entries -> {"new", "writing", "renamed", "rotated", "acked", "failed", "ignored", "lost"}]
        /\ reading' \in [Readers -> {"idle", "reading", "opened", "apart", "panicked"}]
    BY <1>8 DEF Exit
  <2>7. held' \in [Readers -> Seq(LogLines)]
    <3>1. <<>> \in Seq(LogLines)
      OBVIOUS
    <3> QED
      BY <1>8, <3>1 DEF Exit
  <2>2. pushing' \union casting' \union arrived' \subseteq Entries
    BY <1>8 DEF Exit
  <2>3. UNCHANGED <<present, torn>> /\ up' = FALSE
    BY <1>8 DEF Exit
  <2>5. {eventCount', crashes', now', pace'} \subseteq Nat
    BY <1>8 DEF Exit
  <2>6. {present', torn', up'} \subseteq BOOLEAN
    BY <2>3
  <2>4. UNCHANGED <<log, archives, now, acked, faulted>> /\ file' = "closed" /\ lock' = Free
    BY <1>8 DEF Exit
  <2> QED
    BY <2>1, <2>2, <2>4, <2>5, <2>6, <2>7 DEF LogLines
<1>9. CASE New
  <2>1. /\ UNCHANGED <<log, torn, archives, lock, write, readVars, taskVars, crashes, now, pace, acked>>
        /\ up' = TRUE /\ file' = "open" /\ present' = TRUE
    BY <1>9 DEF New
  <2>2. eventCount' \in Nat /\ faulted' \subseteq Faults \union {"count"}
    BY <1>9, NewStarts
  <2> QED
    BY <2>1, <2>2
<1>10. CASE UNCHANGED auditVars
  BY <1>10
<1>11. ASSUME NEW w \in Entries, BroadcastDone(w) PROVE AuditTypeOK'
  BY <1>11 DEF BroadcastDone
<1> QED
  BY <1>1, <1>2, <1>3, <1>4, <1>5, <1>6, <1>7, <1>8, <1>9, <1>10, <1>11 DEF AuditStep, AuditNext, Writing

\* Every variable stays in its range (AuditLog, AuditTypeOK).
THEOREM TypeCorrect == AuditSpec => []AuditTypeOK
<1>1. AuditInit => AuditTypeOK
  <2> SUFFICES ASSUME AuditInit PROVE AuditTypeOK
    OBVIOUS
  <2> USE DEF AuditInit
  <2>1. {present, torn, up} \subseteq BOOLEAN
    BY Zenon
  <2>2. DOMAIN archives = {}
    OBVIOUS
  <2> QED
    BY <2>1, <2>2 DEF AuditTypeOK
<1>2. AuditTypeOK /\ [AuditNext]_auditVars => AuditTypeOK'
  BY AuditTypeStep DEF AuditStep
<1> QED
  BY <1>1, <1>2, PTL DEF AuditSpec

--------------------------------------------------------------------------------
(* Announcements *)

LEMMA AnnouncedStep ==
  ASSUME AuditTypeOK, OnlyAcknowledged, AuditStep
  PROVE  OnlyAcknowledged'
<1> USE DEF AuditTypeOK, OnlyAcknowledged
<1>1. ASSUME NEW w \in Entries, WriteLine(w) PROVE OnlyAcknowledged'
  <2>1. CASE acked' = Append(acked, w) /\ Announce(w, TRUE)
    <3>1. \A i \in DOMAIN acked : i \in DOMAIN acked' /\ acked'[i] = acked[i]
      BY <2>1
    <3>2. Len(acked) + 1 \in DOMAIN acked' /\ acked'[Len(acked) + 1] = w
      BY <2>1
    <3>3. pushing' \union casting' \union arrived' \subseteq {w} \union pushing \union casting \union arrived
      BY <2>1 DEF Announce, Spawn
    <3> QED
      BY <3>1, <3>2, <3>3
  <2>2. CASE UNCHANGED <<acked, taskVars>>
    BY <2>2
  <2> QED
    BY <1>1, <2>1, <2>2 DEF WriteLine, AppendLine, Announce
<1>2. ASSUME NEW w \in Entries, Send(w) PROVE OnlyAcknowledged'
  BY <1>2 DEF Send
<1>3. CASE Exit
  BY <1>3 DEF Exit
<1>4. CASE UNCHANGED <<acked, taskVars>>
  BY <1>4
<1>5. /\ \A w \in Entries : WriteStart(w) \/ Rename(w) \/ OpenNew(w) => UNCHANGED <<acked, taskVars>>
      /\ \A r \in Readers : Reading(r) => UNCHANGED <<acked, taskVars>>
      /\ Tick \/ New => UNCHANGED <<acked, taskVars>>
  BY DEF WriteStart, Rename, OpenNew, Reading, RecentStart, RecentOpen, RecentRead, Tick, New
<1>6. ASSUME NEW w \in Entries, BroadcastDone(w) PROVE OnlyAcknowledged'
  BY <1>6 DEF BroadcastDone
<1> QED
  BY <1>1, <1>2, <1>3, <1>4, <1>5, <1>6 DEF AuditStep, AuditNext, Writing

\* A piece of an entry that was not acknowledged is never announced, through any
\* faults and restarts (AuditLog, OnlyAcknowledged).
THEOREM AnnouncedIsAcknowledged == AuditSpec => []OnlyAcknowledged
<1>1. AuditInit => OnlyAcknowledged
  BY DEF AuditInit, OnlyAcknowledged
<1>2. AuditTypeOK /\ OnlyAcknowledged /\ [AuditNext]_auditVars => OnlyAcknowledged'
  BY AnnouncedStep DEF AuditStep
<1> QED
  BY <1>1, <1>2, TypeCorrect, PTL DEF AuditSpec

--------------------------------------------------------------------------------
(* The bound of the file *)

TornLines(s) == {i \in DOMAIN s : s[i] = Torn}

LEMMA TornFinite ==
  ASSUME NEW s \in Seq(LogLines)
  PROVE  IsFiniteSet(TornLines(s)) /\ Cardinality(TornLines(s)) \in Nat
<1>1. IsFiniteSet(1 .. Len(s))
  BY FS_Interval
<1>2. TornLines(s) \subseteq 1 .. Len(s)
  BY DEF TornLines
<1> QED
  BY <1>1, <1>2, FS_Subset, FS_CardinalityType

\* An entry adds no torn line, and a piece of a line adds one.
LEMMA TornOfAppend ==
  ASSUME NEW s \in Seq(LogLines), NEW x \in LogLines
  PROVE  Cardinality(TornLines(Append(s, x))) = Cardinality(TornLines(s)) + IF x = Torn THEN 1 ELSE 0
<1>1. CASE x = Torn
  <2>1. TornLines(Append(s, x)) = TornLines(s) \union {Len(s) + 1}
    BY <1>1 DEF TornLines
  <2>2. Len(s) + 1 \notin TornLines(s)
    BY DEF TornLines
  <2> QED
    BY <1>1, <2>1, <2>2, TornFinite, FS_AddElement
<1>2. CASE x # Torn
  <2>1. TornLines(Append(s, x)) = TornLines(s)
    BY <1>2 DEF TornLines
  <2> QED
    BY <1>2, <2>1, TornFinite
<1> QED
  BY <1>1, <1>2

Whole(s) == Len(s) - Cardinality(TornLines(s))

LEMMA WholeOfAppend ==
  ASSUME NEW s \in Seq(LogLines), NEW x \in LogLines
  PROVE  /\ Whole(s) \in Int
         /\ Whole(Append(s, x)) = Whole(s) + IF x = Torn THEN 0 ELSE 1
BY TornOfAppend, TornFinite DEF Whole

LEMMA WholeEmpty == Whole(<<>>) = 0
<1>1. TornLines(<<>>) = {}
  BY DEF TornLines
<1>2. Cardinality(TornLines(<<>>)) = 0
  BY <1>1, FS_EmptySet, Zenon
<1> QED
  BY <1>2 DEF Whole

LEMMA WholeAtMostLen ==
  ASSUME NEW s \in Seq(LogLines)
  PROVE  Whole(s) <= Len(s)
BY TornFinite DEF Whole

\* The goroutine that rotates holds the lock; the last line is torn when the
\* file says so; there are no lines without a file, and no write without a process.
LockHolds ==
  /\ \A w \in Entries : write[w] \in {"renamed", "rotated"} => lock = w
  /\ torn => log # <<>> /\ log[Len(log)] = Torn
  /\ ~present => log = <<>>
  /\ file = "open" => present
  /\ \A w \in Entries : write[w] = "renamed" => log = <<>> /\ file = "closed"
  /\ ~up => \A w \in Entries : write[w] \notin {"writing", "renamed", "rotated"}

\* Unless a start counted too few, the count is never less than the whole lines; a
\* rotation leaves none unless a rename failed, and so they never pass the limit.
CountHolds ==
  /\ "count" \notin faulted => Whole(log) <= eventCount
  /\ faulted \cap {"rename", "count"} = {} =>
        /\ Whole(log) <= MaxEvents
        /\ \A w \in Entries : write[w] = "rotated" => log = <<>> \/ file = "nil"

LEMMA LockStep ==
  ASSUME AuditTypeOK, LockHolds, AuditStep
  PROVE  LockHolds'
<1> USE DEF AuditTypeOK, LockHolds
<1>1. ASSUME NEW w \in Entries, WriteStart(w) PROVE LockHolds'
  BY <1>1 DEF WriteStart
<1>2. ASSUME NEW w \in Entries, Rename(w) PROVE LockHolds'
  <2>1. \A v \in Entries : v # w => write[v] \notin {"renamed", "rotated"}
    BY <1>2 DEF Rename
  <2> QED
    BY <1>2, <2>1 DEF Rename, Reopen
<1>3. ASSUME NEW w \in Entries, OpenNew(w) PROVE LockHolds'
  <2>1. \A v \in Entries : v # w => write[v] \notin {"renamed", "rotated"}
    BY <1>3 DEF OpenNew
  <2> QED
    BY <1>3, <2>1 DEF OpenNew
<1>4. ASSUME NEW w \in Entries, WriteLine(w) PROVE LockHolds'
  <2>1. \A v \in Entries : v # w => write[v] \notin {"renamed", "rotated"}
    BY <1>4 DEF WriteLine
  <2>2. \A v \in Entries : write'[v] \notin {"renamed", "rotated"}
    <3>1. \E s \in {"acked", "failed"} : write' = [write EXCEPT ![w] = s]
      BY <1>4 DEF WriteLine, AppendLine
    <3> QED
      BY <2>1, <3>1
  <2>3. torn' => log' # <<>> /\ log'[Len(log')] = Torn
    <3>1. torn' => (torn /\ log' = log) \/ log' = Append(log, Torn)
      BY <1>4 DEF WriteLine, AppendLine
    <3>2. /\ Append(log, Torn) # <<>>
          /\ Append(log, Torn)[Len(Append(log, Torn))] = Torn
      <4>1. log \in Seq(LogLines) /\ Torn \in LogLines
        BY DEF LogLines
      <4> HIDE DEF AuditTypeOK
      <4> QED
        BY <4>1
    <3> QED
      BY <3>1, <3>2, Zenon
  <2>5. up' = up /\ \A v \in Entries : v # w => write'[v] = write[v]
    BY <1>4 DEF WriteLine, AppendLine
  <2>4. (~present' => log' = <<>>) /\ (file' = "open" => present')
    BY <1>4 DEF WriteLine, AppendLine
  <2>6. \A v \in Entries : write'[v] # "renamed"
    BY <2>2
  <2>7. ~up' => \A v \in Entries : write'[v] \notin {"writing", "renamed", "rotated"}
    BY <1>4, <2>5 DEF WriteLine
  <2> QED
    BY <2>2, <2>3, <2>4, <2>6, <2>7
<1>5. ASSUME NEW r \in Readers, Reading(r) PROVE LockHolds'
  BY <1>5 DEF Reading, RecentStart, RecentOpen, RecentRead
<1>6. ASSUME NEW w \in Entries, Send(w) \/ BroadcastDone(w) PROVE LockHolds'
  BY <1>6 DEF Send, BroadcastDone
<1>7. CASE Tick
  BY <1>7 DEF Tick
<1>8. CASE Exit
  <2>1. \A w \in Entries : write'[w] \notin {"writing", "renamed", "rotated"}
    BY <1>8 DEF Exit, InFlight
  <2>2. UNCHANGED <<log, torn, present>> /\ file' = "closed"
    BY <1>8 DEF Exit
  <2> QED
    BY <2>1, <2>2
<1>9. CASE New
  BY <1>9 DEF New
<1>10. CASE UNCHANGED auditVars
  BY <1>10
<1> QED
  BY <1>1, <1>2, <1>3, <1>4, <1>5, <1>6, <1>7, <1>8, <1>9, <1>10 DEF AuditStep, AuditNext, Writing

\* What the steps of a writer do to the lines: it appends to an open file below
\* its limit, or to the empty one that a rotation left.
LEMMA WriteLineCounts ==
  ASSUME AuditTypeOK, LockHolds, CountHolds, NEW w \in Entries, WriteLine(w)
  PROVE  CountHolds'
<1>1. log \in Seq(LogLines) /\ w \in LogLines /\ w # Torn /\ Torn \in LogLines
  BY DEF AuditTypeOK, LogLines
<1>2. eventCount \in Nat /\ MaxEvents \in Nat /\ 1 <= MaxEvents
  BY DEF AuditTypeOK
<1>3. \A v \in Entries : v # w => write[v] # "rotated"
  BY DEF WriteLine, LockHolds
<1>4. \A v \in Entries : write'[v] # "rotated"
  BY <1>3 DEF WriteLine, AppendLine, AuditTypeOK
<1>5. torn => [log EXCEPT ![Len(log)] = Torn] = log
  BY <1>1 DEF LockHolds
<1>6. \/ log' = Append(log, w) /\ eventCount' = eventCount + 1 /\ file = "open" /\ faulted' = faulted
      \/ log' = log /\ eventCount' \in {eventCount, eventCount + 1} /\ faulted \subseteq faulted'
      \/ log' = Append(log, Torn) /\ eventCount' = eventCount /\ faulted \subseteq faulted'
  BY <1>5 DEF WriteLine, AppendLine
<1>7. Whole(log) \in Int /\ Whole(Append(log, w)) = Whole(log) + 1 /\ Whole(Append(log, Torn)) = Whole(log)
  BY <1>1, WholeOfAppend
<1>8. \/ Whole(log') = Whole(log) + 1 /\ eventCount' = eventCount + 1 /\ file = "open" /\ faulted' = faulted
      \/ Whole(log') = Whole(log) /\ eventCount' >= eventCount /\ faulted \subseteq faulted'
  <2>1. CASE log' = Append(log, w) /\ eventCount' = eventCount + 1 /\ file = "open" /\ faulted' = faulted
    BY <1>7, <2>1
  <2>2. CASE log' = log /\ eventCount' \in {eventCount, eventCount + 1} /\ faulted \subseteq faulted'
    BY <1>2, <2>2
  <2>3. CASE log' = Append(log, Torn) /\ eventCount' = eventCount /\ faulted \subseteq faulted'
    BY <1>2, <1>7, <2>3
  <2> QED
    BY <1>6, <2>1, <2>2, <2>3
<1>9. "count" \notin faulted => Whole(log) <= eventCount
  BY DEF CountHolds
<1>10. "count" \notin faulted' => Whole(log') <= eventCount'
  <2>1. eventCount' \in Nat
    BY <1>2, <1>6
  <2> QED
    BY <1>2, <1>7, <1>8, <1>9, <2>1
<1>11. ASSUME faulted' \cap {"rename", "count"} = {} PROVE Whole(log') <= MaxEvents
  <2>1. Whole(log) <= MaxEvents /\ (write[w] = "rotated" => log = <<>> \/ file = "nil")
    BY <1>8, <1>11 DEF CountHolds
  <2>2. ASSUME file = "open" PROVE Whole(log) < MaxEvents
    <3>1. CASE write[w] = "rotated"
      <4>1. Whole(log) = 0
        BY <2>1, <2>2, <3>1, WholeEmpty
      <4> QED
        BY <1>2, <4>1
    <3>2. CASE write[w] # "rotated"
      <4>1. eventCount < MaxEvents
        BY <1>2, <2>2, <3>2 DEF WriteLine, ShouldRotate
      <4> QED
        BY <1>2, <1>7, <1>8, <1>9, <1>11, <4>1
    <3> QED
      BY <3>1, <3>2
  <2> QED
    BY <1>2, <1>7, <1>8, <2>1, <2>2
<1> QED
  BY <1>4, <1>10, <1>11 DEF CountHolds

LEMMA CountStep ==
  ASSUME AuditTypeOK, LockHolds, CountHolds, AuditStep
  PROVE  CountHolds'
<1>1. eventCount \in Nat /\ MaxEvents \in Nat /\ 1 <= MaxEvents /\ log \in Seq(LogLines)
  BY DEF AuditTypeOK, LogLines
<1>2. ASSUME NEW w \in Entries, Rename(w) PROVE CountHolds'
  <2>1. \A v \in Entries : v # w => write'[v] # "rotated"
    BY <1>2 DEF Rename, LockHolds, AuditTypeOK
  <2>2. eventCount' = eventCount /\ faulted \subseteq faulted'
    BY <1>2 DEF Rename, Reopen
  <2>3. \/ log' = <<>> /\ write'[w] = "renamed"
        \/ log' = log
    BY <1>2 DEF Rename, AuditTypeOK
  <2>4. /\ "count" \notin faulted' => Whole(log') <= eventCount'
        /\ faulted' \cap {"rename", "count"} = {} => Whole(log') <= MaxEvents
    BY <1>1, <2>2, <2>3, WholeEmpty DEF CountHolds
  <2>5. ASSUME write'[w] = "rotated", "rename" \notin faulted' PROVE log' = <<>> \/ file' = "nil"
    <3>1. Reopen /\ log' = log
      BY <1>2, <2>5 DEF Rename, AuditTypeOK
    <3>2. file' = "open" => ~present
      BY <2>5, <3>1 DEF Reopen
    <3>3. file' \in {"open", "nil"}
      BY <3>1 DEF Reopen
    <3> QED
      BY <3>1, <3>2, <3>3 DEF LockHolds
  <2> QED
    BY <2>1, <2>4, <2>5 DEF CountHolds
<1>3. ASSUME NEW w \in Entries, OpenNew(w) PROVE CountHolds'
  <2>1. log = <<>> /\ log' = <<>> /\ eventCount' \in Nat
    BY <1>1, <1>3 DEF OpenNew, LockHolds
  <2> QED
    BY <1>1, <2>1, WholeEmpty DEF CountHolds
<1>4. ASSUME NEW w \in Entries, WriteLine(w) PROVE CountHolds'
  BY <1>4, WriteLineCounts
<1>5. CASE New
  <2>1. UNCHANGED <<log, write>> /\ faulted \subseteq faulted'
        /\ ("count" \notin faulted' => eventCount' = Len(log))
    BY <1>5, NewStarts
  <2>2. \A w \in Entries : write[w] # "rotated"
    BY <1>5 DEF New, LockHolds
  <2> QED
    BY <1>1, <2>1, <2>2, WholeAtMostLen DEF CountHolds
<1>6. CASE Exit
  <2>1. UNCHANGED <<log, eventCount, faulted>>
    BY <1>6 DEF Exit
  <2>2. \A w \in Entries : write'[w] # "rotated"
    BY <1>6 DEF Exit, InFlight
  <2> QED
    BY <2>1, <2>2 DEF CountHolds
<1>7. ASSUME UNCHANGED <<log, eventCount, faulted, file>>,
             \A w \in Entries : write'[w] = "rotated" => write[w] = "rotated"
      PROVE  CountHolds'
  BY <1>7 DEF CountHolds
<1>8. /\ \A w \in Entries : WriteStart(w) \/ Send(w) \/ BroadcastDone(w) => UNCHANGED <<log, eventCount, faulted, file>>
      /\ \A r \in Readers : Reading(r) => UNCHANGED <<log, eventCount, faulted, file>>
      /\ Tick \/ UNCHANGED auditVars => UNCHANGED <<log, eventCount, faulted, file>>
  BY DEF WriteStart, Send, BroadcastDone, Reading, RecentStart, RecentOpen, RecentRead, Tick
<1>9. ASSUME NEW v \in Entries, write'[v] = "rotated",
             \/ Tick \/ UNCHANGED auditVars
             \/ \E w \in Entries : WriteStart(w) \/ Send(w) \/ BroadcastDone(w)
             \/ \E r \in Readers : Reading(r)
      PROVE  write[v] = "rotated"
  BY <1>9 DEF WriteStart, Send, BroadcastDone, Reading, RecentStart, RecentOpen, RecentRead, Tick, AuditTypeOK
<1> QED
  BY <1>2, <1>3, <1>4, <1>5, <1>6, <1>7, <1>8, <1>9 DEF AuditStep, AuditNext, Writing

LEMMA BoundMeans == AuditTypeOK /\ CountHolds => FileBounded
<1> SUFFICES ASSUME AuditTypeOK, CountHolds, faulted \cap {"rename", "count"} = {}
             PROVE  Len(log) <= MaxEvents + Cardinality(TornLines(log))
  BY DEF FileBounded, TornLines
<1>1. log \in Seq(LogLines) /\ MaxEvents \in Nat
  BY DEF AuditTypeOK, LogLines
<1> QED
  BY <1>1, TornFinite DEF CountHolds, Whole

\* The current file holds at most MaxEvents whole lines unless a rename failed or a
\* start counted too few, through restarts, failed writes and rotations that stop
\* half way (AuditLog, FileBounded).
THEOREM FileAlwaysBounded == AuditSpec => []FileBounded
<1>1. AuditInit => LockHolds /\ CountHolds
  BY WholeEmpty DEF AuditInit, LockHolds, CountHolds
<1>2. AuditTypeOK /\ LockHolds /\ [AuditNext]_auditVars => LockHolds'
  BY LockStep DEF AuditStep
<1>3. AuditTypeOK /\ LockHolds /\ CountHolds /\ [AuditNext]_auditVars => CountHolds'
  BY CountStep DEF AuditStep
<1> QED
  BY <1>1, <1>2, <1>3, BoundMeans, TypeCorrect, PTL DEF AuditSpec

--------------------------------------------------------------------------------
(* What is read back *)

\* The least-number principle, and induction from it: the library's induction
\* theorems are about operators, these about sets.
LEMMA Least ==
  ASSUME NEW T \in SUBSET Nat, T # {}
  PROVE \E x \in T : \A y \in T : x <= y
<1> DEFINE R == {ss \in Nat \X Nat : ss[1] < ss[2]}
<1>1. IsWellFoundedOn(R, Nat)
  BY NatLessThanWellFounded DEF OpToRel
<1>2. \A y, x \in Nat : <<y, x>> \in R <=> y < x
  OBVIOUS
<1> HIDE DEF R
<1>3. PICK x \in T : \A y \in T : ~(<<y, x>> \in R)
  BY <1>1, WFMin
<1>4. ASSUME NEW y \in T PROVE x <= y
  <2>1. x \in Nat /\ y \in Nat
    OBVIOUS
  <2>2. ~(y < x)
    BY <1>2, <1>3, <2>1
  <2> QED BY <2>1, <2>2
<1> QED BY <1>4

LEMMA Induct ==
  ASSUME NEW T, 0 \in T, \A n \in Nat : n \in T => n + 1 \in T
  PROVE Nat \subseteq T
<1> SUFFICES ASSUME Nat \ T # {} PROVE FALSE
  OBVIOUS
<1>1. PICK x \in Nat \ T : \A y \in Nat \ T : x <= y
  BY Least
<1>2. x # 0 /\ x - 1 \in Nat /\ (x-1)+1 = x /\ x-1 < x
  BY <1>1
<1> QED BY <1>1, <1>2

\* One more line: it follows those before it unless it is a piece.
WithLine(done, line) == IF line = Torn THEN done ELSE Append(done, line)

\* f tells what the first lines become.
Parses(lines, n, f) ==
    /\ f = [i \in 0 .. n |-> f[i]]
    /\ f[0] = <<>>
    /\ \A i \in 1 .. n : f[i] = WithLine(f[i - 1], lines[i])

LEMMA ParserExists ==
    ASSUME NEW lines, NEW n \in Nat
    PROVE  \E f : Parses(lines, n, f)
<1> DEFINE T == {m \in Nat : \E f : Parses(lines, m, f)}
<1>1. 0 \in T
  <2>1. Parses(lines, 0, [i \in 0 .. 0 |-> <<>>])
    BY DEF Parses
  <2> QED BY <2>1
<1>2. ASSUME NEW m \in Nat, m \in T PROVE m + 1 \in T
  <2>1. PICK f : Parses(lines, m, f)
    BY <1>2
  <2> DEFINE g == [i \in 0 .. m + 1 |-> IF i = m + 1 THEN WithLine(f[m], lines[m + 1]) ELSE f[i]]
  <2>2. g[m + 1] = WithLine(f[m], lines[m + 1]) /\ g = [i \in 0 .. m + 1 |-> g[i]]
    OBVIOUS
  <2>3. \A i \in 0 .. m : g[i] = f[i]
    OBVIOUS
  <2> HIDE DEF g
  <2>4. ASSUME NEW i \in 1 .. m + 1 PROVE g[i] = WithLine(g[i - 1], lines[i])
    <3>1. CASE i = m + 1
      <4>1. i - 1 = m /\ m \in 0 .. m
        BY <3>1
      <4> QED BY <2>2, <2>3, <3>1, <4>1
    <3>2. CASE i # m + 1
      <4>1. i \in 1 .. m /\ i \in 0 .. m /\ i - 1 \in 0 .. m
        BY <3>2
      <4> QED BY <2>1, <2>3, <4>1 DEF Parses
    <3> QED BY <3>1, <3>2
  <2>5. g[0] = <<>>
    BY <2>1, <2>3 DEF Parses
  <2>6. Parses(lines, m + 1, g)
    BY <2>2, <2>4, <2>5 DEF Parses
  <2> QED BY <2>6
<1>3. n \in T
  <2> HIDE DEF T
  <2> QED BY <1>1, <1>2, Induct
<1> QED BY <1>3

LEMMA ParsedIs ==
    ASSUME NEW S, NEW lines \in Seq(S)
    PROVE  \E f : Parses(lines, Len(lines), f) /\ Parsed(lines) = f[Len(lines)]
<1> DEFINE n == Len(lines)
           Step(f, i) == IF i = 0 THEN <<>>
                         ELSE IF lines[i] = Torn THEN f[i - 1] ELSE Append(f[i - 1], lines[i])
           Is(f) == f = [i \in 0 .. n |-> Step(f, i)]
<1>1. n \in Nat
  OBVIOUS
<1>2. ASSUME NEW f PROVE Parses(lines, n, f) <=> Is(f)
  <2>1. ASSUME Parses(lines, n, f) PROVE Is(f)
    <3>1. ASSUME NEW i \in 0 .. n PROVE f[i] = Step(f, i)
      <4>1. CASE i = 0
        BY <2>1, <4>1 DEF Parses
      <4>2. CASE i # 0
        <5>1. i \in 1 .. n
          BY <1>1, <4>2
        <5> QED BY <2>1, <4>2, <5>1 DEF Parses, WithLine
      <4> QED BY <4>1, <4>2
    <3>2. f = [i \in 0 .. n |-> f[i]]
      BY <2>1 DEF Parses
    <3> HIDE DEF Step
    <3> QED BY <3>1, <3>2, Zenon
  <2>2. ASSUME Is(f) PROVE Parses(lines, n, f)
    <3>1. \A i \in 0 .. n : f[i] = Step(f, i)
      <4> HIDE DEF Step
      <4> QED BY <2>2, Zenon
    <3>2. f = [i \in 0 .. n |-> f[i]]
      BY <2>2
    <3>3. f[0] = <<>>
      BY <1>1, <3>1
    <3>4. ASSUME NEW i \in 1 .. n PROVE f[i] = WithLine(f[i - 1], lines[i])
      <4>1. i \in 0 .. n /\ i # 0
        BY <1>1
      <4> QED BY <3>1, <4>1 DEF WithLine
    <3> QED BY <3>2, <3>3, <3>4 DEF Parses
  <2> QED BY <2>1, <2>2
<1>3. PICK g : Parses(lines, n, g)
  BY <1>1, ParserExists
<1> DEFINE f == CHOOSE f : Is(f)
<1>4. Parses(lines, n, f)
  <2>1. \E h : Is(h)
    BY <1>2, <1>3
  <2> HIDE DEF Is
  <2>2. Is(f)
    BY <2>1, Zenon
  <2> QED BY <1>2, <2>2
<1>5. Parsed(lines) = f[n]
  BY DEF Parsed
<1> QED BY <1>4, <1>5

\* What parsed lines are: entries that stand in the lines, each as often as there
\* at most, and all of them when no line is a piece.
Faithful(lines, i, done) ==
    /\ done \in Seq(Entries)
    /\ \A k \in DOMAIN done : \E j \in 1 .. i : lines[j] = done[k]
    /\ (\A j, k \in DOMAIN lines : lines[j] = lines[k] /\ lines[j] # Torn => j = k)
       => \A j, k \in DOMAIN done : done[j] = done[k] => j = k
    /\ (\A j \in DOMAIN lines : lines[j] # Torn)
       => Len(done) = i /\ \A j \in 1 .. i : done[j] = lines[j]

LEMMA FaithfulStep ==
    ASSUME NEW lines \in Seq(LogLines), NEW i \in Nat, i + 1 \in DOMAIN lines,
           NEW done, Faithful(lines, i, done)
    PROVE  Faithful(lines, i + 1, WithLine(done, lines[i + 1]))
<1> DEFINE x == lines[i + 1]
<1>1. x \in LogLines /\ done \in Seq(Entries)
  BY DEF Faithful
<1>2. CASE x = Torn
  <2>1. WithLine(done, x) = done
    BY <1>2 DEF WithLine
  <2>2. \A k \in DOMAIN done : \E j \in 1 .. i + 1 : lines[j] = done[k]
    BY DEF Faithful
  <2>3. ~(\A j \in DOMAIN lines : lines[j] # Torn)
    BY <1>2
  <2> QED BY <2>1, <2>2, <2>3 DEF Faithful
<1>3. CASE x # Torn
  <2> DEFINE more == Append(done, x)
  <2>1. WithLine(done, x) = more
    BY <1>3 DEF WithLine
  <2>2. /\ more \in Seq(Entries) /\ Len(more) = Len(done) + 1 /\ DOMAIN more = 1 .. Len(done) + 1
        /\ Len(done) \in Nat /\ DOMAIN done = 1 .. Len(done)
        /\ more[Len(done) + 1] = x /\ \A k \in 1 .. Len(done) : more[k] = done[k]
    BY <1>1, <1>3 DEF LogLines
  <2> HIDE DEF more
  <2>3. ASSUME NEW k \in DOMAIN more PROVE \E j \in 1 .. i + 1 : lines[j] = more[k]
    <3>1. CASE k = Len(done) + 1
      BY <2>2, <3>1
    <3>2. CASE k # Len(done) + 1
      <4>1. k \in DOMAIN done /\ more[k] = done[k]
        BY <2>2, <3>2
      <4> QED BY <4>1 DEF Faithful
    <3> QED BY <3>1, <3>2
  <2>4. ASSUME \A j, k \in DOMAIN lines : lines[j] = lines[k] /\ lines[j] # Torn => j = k,
               NEW j \in DOMAIN more, NEW k \in DOMAIN more, more[j] = more[k]
        PROVE  j = k
    <3>1. ASSUME NEW l \in DOMAIN done PROVE done[l] # x
      <4>1. PICK h \in 1 .. i : lines[h] = done[l]
        BY <3>1 DEF Faithful
      <4>2. h \in DOMAIN lines /\ h # i + 1
        OBVIOUS
      <4> QED BY <1>3, <2>4, <4>1, <4>2
    <3>2. \A l, h \in DOMAIN done : done[l] = done[h] => l = h
      BY <2>4 DEF Faithful
    <3> QED BY <2>2, <2>4, <3>1, <3>2
  <2>5. ASSUME \A j \in DOMAIN lines : lines[j] # Torn
        PROVE  Len(more) = i + 1 /\ \A j \in 1 .. i + 1 : more[j] = lines[j]
    <3>1. Len(done) = i /\ \A j \in 1 .. i : done[j] = lines[j]
      BY <2>5 DEF Faithful
    <3> QED BY <2>2, <3>1
  <2>6. Faithful(lines, i + 1, more)
    BY <2>2, <2>3, <2>4, <2>5 DEF Faithful
  <2> QED BY <2>1, <2>6
<1> QED BY <1>2, <1>3

LEMMA ParsedFaithful ==
    ASSUME NEW lines \in Seq(LogLines)
    PROVE  Faithful(lines, Len(lines), Parsed(lines))
<1> DEFINE n == Len(lines)
<1>1. n \in Nat /\ DOMAIN lines = 1 .. n
  OBVIOUS
<1>2. PICK f : Parses(lines, n, f) /\ Parsed(lines) = f[n]
  BY ParsedIs
<1> HIDE DEF n
<1> DEFINE T == {i \in Nat : i <= n => Faithful(lines, i, f[i])}
<1>3. 0 \in T
  <2>1. Faithful(lines, 0, <<>>)
    BY DEF Faithful
  <2> QED BY <1>2, <2>1 DEF Parses
<1>4. ASSUME NEW i \in Nat, i \in T PROVE i + 1 \in T
  <2> SUFFICES ASSUME i + 1 <= n PROVE Faithful(lines, i + 1, f[i + 1])
    OBVIOUS
  <2>1. Faithful(lines, i, f[i])
    BY <1>1, <1>4
  <2>2. i + 1 \in 1 .. n /\ (i + 1) - 1 = i
    BY <1>1
  <2>3. f[i + 1] = WithLine(f[i], lines[i + 1])
    BY <1>2, <2>2 DEF Parses
  <2> QED BY <1>1, <2>1, <2>2, <2>3, FaithfulStep
<1>5. n \in T
  <2> HIDE DEF T
  <2> QED BY <1>1, <1>3, <1>4, Induct
<1>6. Faithful(lines, n, f[n])
  BY <1>1, <1>5
<1> QED BY <1>2, <1>6 DEF n

--------------------------------------------------------------------------------
(* What the file holds of what was acknowledged *)

\* No entry is acknowledged twice, and the file has no entry twice and none that
\* was not acknowledged.
WrittenOnce ==
  /\ \A i \in DOMAIN acked : write[acked[i]] = "acked"
  /\ \A i, j \in DOMAIN acked : acked[i] = acked[j] => i = j
  /\ \A i \in DOMAIN log : log[i] # Torn => \E k \in DOMAIN acked : acked[k] = log[i]
  /\ \A i, j \in DOMAIN log : log[i] = log[j] /\ log[i] # Torn => i = j

\* Unless a piece of a line was left, the file holds the last that were acknowledged.
Newest ==
  "torn" \notin faulted =>
    /\ ~torn /\ Len(log) <= Len(acked)
    /\ \A i \in DOMAIN log : log[i] = acked[Len(acked) - Len(log) + i]

\* An entry becomes part of the log, or a piece of it.
Written(w) ==
  /\ write[w] # "acked" /\ write' = [write EXCEPT ![w] = "acked"]
  /\ acked' = Append(acked, w)
  /\ log' = (IF torn THEN [log EXCEPT ![Len(log)] = Torn] ELSE Append(log, w))
  /\ torn' = FALSE /\ faulted' = faulted

Spoiled ==
  /\ log' = (IF torn THEN log ELSE Append(log, Torn))
  /\ "torn" \in faulted'

AckedStays ==
  /\ acked' = acked /\ faulted \subseteq faulted'
  /\ \A w \in Entries : write[w] = "acked" => write'[w] = "acked"

LEMMA WhatIsWritten ==
  ASSUME AuditTypeOK, AuditStep
  PROVE  \/ \E w \in Entries : Written(w)
         \/ AckedStays /\ Spoiled
         \/ AckedStays /\ log' = <<>> /\ torn' = FALSE
         \/ AckedStays /\ log' = log /\ torn' = torn
<1> USE DEF AuditTypeOK, AckedStays
<1>1. ASSUME NEW w \in Entries, WriteLine(w)
      PROVE  Written(w) \/ (AckedStays /\ Spoiled) \/ (AckedStays /\ log' = log /\ torn' = torn)
  <2>1. write[w] # "acked" /\ AppendLine(w)
    BY <1>1 DEF WriteLine
  <2>2. \/ /\ acked' = Append(acked, w) /\ write' = [write EXCEPT ![w] = "acked"]
           /\ log' = (IF torn THEN [log EXCEPT ![Len(log)] = Torn] ELSE Append(log, w))
           /\ torn' = FALSE /\ faulted' = faulted
        \/ /\ acked' = acked /\ write' = [write EXCEPT ![w] = "failed"]
           /\ log' = (IF torn THEN log ELSE Append(log, Torn))
           /\ faulted' = faulted \union {"torn"}
        \/ /\ acked' = acked /\ write' = [write EXCEPT ![w] = "failed"]
           /\ log' = log /\ torn' = torn /\ faulted \subseteq faulted'
    <3> HIDE DEF AuditTypeOK
    <3> QED BY <2>1 DEF AppendLine
  <2>3. write' = [write EXCEPT ![w] = "failed"]
        => \A v \in Entries : write[v] = "acked" => write'[v] = "acked"
    BY <2>1
  <2>4. (acked' = acked /\ write' = [write EXCEPT ![w] = "failed"] /\ faulted \subseteq faulted') => AckedStays
    BY <2>3
  <2> HIDE DEF AuditTypeOK, AckedStays
  <2>5. CASE /\ acked' = Append(acked, w) /\ write' = [write EXCEPT ![w] = "acked"]
             /\ log' = (IF torn THEN [log EXCEPT ![Len(log)] = Torn] ELSE Append(log, w))
             /\ torn' = FALSE /\ faulted' = faulted
    BY <2>1, <2>5 DEF Written
  <2>6. CASE /\ acked' = acked /\ write' = [write EXCEPT ![w] = "failed"]
             /\ log' = (IF torn THEN log ELSE Append(log, Torn))
             /\ faulted' = faulted \union {"torn"}
    BY <2>4, <2>6 DEF Spoiled
  <2>7. CASE /\ acked' = acked /\ write' = [write EXCEPT ![w] = "failed"]
             /\ log' = log /\ torn' = torn /\ faulted \subseteq faulted'
    BY <2>4, <2>7
  <2> QED
    BY <2>2, <2>5, <2>6, <2>7
<1>2. ASSUME NEW w \in Entries, Rename(w)
      PROVE  AckedStays /\ ((log' = <<>> /\ torn' = FALSE) \/ (log' = log /\ torn' = torn))
  <2>1. write[w] = "writing" /\ acked' = acked /\ faulted \subseteq faulted'
    BY <1>2 DEF Rename, Reopen
  <2>2. \E p \in {"renamed", "rotated"} : write' = [write EXCEPT ![w] = p]
    BY <1>2 DEF Rename
  <2>3. \A v \in Entries : write[v] = "acked" => write'[v] = "acked"
    BY <2>1, <2>2
  <2>4. (log' = <<>> /\ torn' = FALSE) \/ (log' = log /\ torn' = torn)
    BY <1>2 DEF Rename
  <2> QED
    BY <2>1, <2>3, <2>4
<1>3. ASSUME NEW w \in Entries, WriteStart(w) \/ OpenNew(w) \/ Send(w) \/ BroadcastDone(w)
      PROVE  AckedStays /\ log' = log /\ torn' = torn
  BY <1>3 DEF WriteStart, OpenNew, Send, BroadcastDone
<1>4. ASSUME NEW r \in Readers, Reading(r)
      PROVE  AckedStays /\ log' = log /\ torn' = torn
  BY <1>4 DEF Reading, RecentStart, RecentOpen, RecentRead
<1>5. ASSUME Tick \/ Exit \/ New \/ UNCHANGED auditVars
      PROVE  AckedStays /\ log' = log /\ torn' = torn
  BY <1>5 DEF Tick, Exit, New, InFlight
<1> QED
  BY <1>1, <1>2, <1>3, <1>4, <1>5 DEF AuditStep, AuditNext, Writing

\* An entry that is written comes after those that were.
LEMMA WrittenLast ==
  ASSUME AuditTypeOK, NEW w \in Entries, Written(w)
  PROVE  /\ Len(acked) \in Nat /\ DOMAIN acked = 1 .. Len(acked)
         /\ Len(acked') = Len(acked) + 1 /\ DOMAIN acked' = 1 .. Len(acked) + 1
         /\ acked'[Len(acked) + 1] = w
         /\ \A i \in DOMAIN acked : acked'[i] = acked[i]
         /\ Len(log) \in Nat /\ DOMAIN log = 1 .. Len(log)
         /\ torn => DOMAIN log' = DOMAIN log /\ \A i \in DOMAIN log : log'[i] \in {log[i], Torn}
         /\ ~torn => /\ Len(log') = Len(log) + 1 /\ DOMAIN log' = 1 .. Len(log) + 1
                     /\ log'[Len(log) + 1] = w /\ \A i \in DOMAIN log : log'[i] = log[i]
<1>1. acked \in Seq(Entries) /\ log \in Seq(LogLines)
  BY DEF AuditTypeOK, LogLines
<1>2. acked' = Append(acked, w)
  BY DEF Written
<1>3. torn => log' = [log EXCEPT ![Len(log)] = Torn]
  BY DEF Written
<1>4. ~torn => log' = Append(log, w)
  BY DEF Written
<1>5. /\ Len(acked) \in Nat /\ DOMAIN acked = 1 .. Len(acked)
      /\ Len(acked') = Len(acked) + 1 /\ DOMAIN acked' = 1 .. Len(acked) + 1
      /\ acked'[Len(acked) + 1] = w
      /\ \A i \in DOMAIN acked : acked'[i] = acked[i]
  BY <1>1, <1>2
<1>6. Len(log) \in Nat /\ DOMAIN log = 1 .. Len(log)
  BY <1>1
<1>7. ASSUME torn PROVE DOMAIN log' = DOMAIN log /\ \A i \in DOMAIN log : log'[i] \in {log[i], Torn}
  <2>1. log' = [log EXCEPT ![Len(log)] = Torn]
    BY <1>3, <1>7
  <2> QED BY <1>6, <2>1
<1>8. ASSUME ~torn
      PROVE  /\ Len(log') = Len(log) + 1 /\ DOMAIN log' = 1 .. Len(log) + 1
             /\ log'[Len(log) + 1] = w /\ \A i \in DOMAIN log : log'[i] = log[i]
  <2>1. w \in LogLines
    BY DEF LogLines
  <2> QED BY <1>1, <1>4, <1>8, <2>1
<1> QED
  BY <1>5, <1>6, <1>7, <1>8

LEMMA WrittenOnceStep ==
  ASSUME AuditTypeOK, WrittenOnce, AuditStep
  PROVE  WrittenOnce'
<1>1. ASSUME NEW w \in Entries, Written(w) PROVE WrittenOnce'
  <2>1. /\ DOMAIN acked = 1 .. Len(acked) /\ Len(acked) \in Nat
        /\ DOMAIN acked' = 1 .. Len(acked) + 1
        /\ acked'[Len(acked) + 1] = w
        /\ \A i \in DOMAIN acked : acked'[i] = acked[i]
    BY <1>1, WrittenLast
  <2>2. /\ DOMAIN log = 1 .. Len(log) /\ Len(log) \in Nat
        /\ torn => DOMAIN log' = DOMAIN log /\ \A i \in DOMAIN log : log'[i] \in {log[i], Torn}
        /\ ~torn => /\ DOMAIN log' = 1 .. Len(log) + 1
                    /\ log'[Len(log) + 1] = w /\ \A i \in DOMAIN log : log'[i] = log[i]
    BY <1>1, WrittenLast
  <2>3. \A i \in DOMAIN acked : acked[i] # w
    BY <1>1 DEF Written, WrittenOnce
  <2>4. \A i \in DOMAIN log : log[i] # w
    BY <2>3 DEF WrittenOnce
  <2>5. acked \in Seq(Entries) /\ write \in [Entries -> {"new", "writing", "renamed", "rotated",
                                                          "acked", "failed", "ignored", "lost"}]
    BY DEF AuditTypeOK
  <2>6. ASSUME NEW i \in DOMAIN acked' PROVE write'[acked'[i]] = "acked"
    <3>1. i \in DOMAIN acked => acked[i] \in Entries /\ write[acked[i]] = "acked"
      BY <2>5 DEF WrittenOnce
    <3>2. i \notin DOMAIN acked => acked'[i] = w
      BY <2>1
    <3> QED
      BY <1>1, <2>1, <2>5, <3>1, <3>2 DEF Written
  <2>7. ASSUME NEW i \in DOMAIN acked', NEW j \in DOMAIN acked', acked'[i] = acked'[j] PROVE i = j
    BY <2>1, <2>3, <2>7 DEF WrittenOnce
  <2>8. ASSUME NEW i \in DOMAIN log', log'[i] # Torn PROVE \E k \in DOMAIN acked' : acked'[k] = log'[i]
    <3>1. CASE i \in DOMAIN log /\ log'[i] = log[i]
      <4>1. PICK k \in DOMAIN acked : acked[k] = log[i]
        BY <2>8, <3>1 DEF WrittenOnce
      <4>2. k \in DOMAIN acked' /\ acked'[k] = log'[i]
        BY <2>1, <3>1, <4>1
      <4> QED BY <4>2
    <3>2. CASE log'[i] = w
      BY <2>1, <3>2
    <3>3. log'[i] = w \/ (i \in DOMAIN log /\ log'[i] = log[i])
      <4>1. CASE torn
        BY <2>2, <2>8, <4>1
      <4>2. CASE ~torn
        <5>1. /\ DOMAIN log' = 1 .. Len(log) + 1
              /\ log'[Len(log) + 1] = w /\ \A l \in DOMAIN log : log'[l] = log[l]
          BY <2>2, <4>2, Zenon
        <5>2. i \in 1 .. Len(log) + 1
          BY <2>8, <5>1, Zenon
        <5>3. i = Len(log) + 1 \/ i \in DOMAIN log
          BY <2>2, <5>2
        <5> QED BY <5>1, <5>3
      <4> QED BY <4>1, <4>2
    <3> QED BY <3>1, <3>2, <3>3
  <2>9. ASSUME NEW i \in DOMAIN log', NEW j \in DOMAIN log', log'[i] = log'[j], log'[i] # Torn PROVE i = j
    <3> DEFINE Same(k, l) == log[k] = log[l] /\ log[k] # Torn => k = l
    <3>3. \A k, l \in DOMAIN log : Same(k, l)
      BY DEF WrittenOnce
    <3>1. CASE torn
      BY <2>2, <2>9, <3>1, <3>3
    <3>2. CASE ~torn
      <4>1. /\ DOMAIN log' = 1 .. Len(log) + 1
            /\ log'[Len(log) + 1] = w /\ \A l \in DOMAIN log : log'[l] = log[l]
        BY <2>2, <3>2, Zenon
      <4>2. i \in 1 .. Len(log) + 1 /\ j \in 1 .. Len(log) + 1
        BY <2>9, <4>1, Zenon
      <4> HIDE DEF Same
      <4>3. ASSUME NEW h \in 1 .. Len(log) + 1, h # Len(log) + 1 PROVE log'[h] # w
        <5>1. h \in DOMAIN log
          BY <2>2, <4>3
        <5> QED BY <2>4, <4>1, <5>1
      <4>4. CASE i = Len(log) + 1 \/ j = Len(log) + 1
        <5>1. log'[i] = w /\ log'[j] = w
          BY <2>9, <4>1, <4>4
        <5> QED BY <4>2, <4>3, <5>1
      <4>5. CASE i # Len(log) + 1 /\ j # Len(log) + 1
        <5>1. i \in DOMAIN log /\ j \in DOMAIN log
          BY <2>2, <4>2, <4>5
        <5>2. log[i] = log[j] /\ log[i] # Torn
          BY <2>9, <4>1, <5>1
        <5> QED BY <3>3, <5>1, <5>2 DEF Same
      <4> QED BY <4>4, <4>5
    <3> QED BY <3>1, <3>2
  <2> QED
    BY <2>6, <2>7, <2>8, <2>9 DEF WrittenOnce
<1>2. ASSUME AckedStays, \A i \in DOMAIN log' : log'[i] = Torn \/ (i \in DOMAIN log /\ log'[i] = log[i])
      PROVE  WrittenOnce'
  <2>1. \A i \in DOMAIN acked : acked[i] \in Entries
    BY DEF AuditTypeOK
  <2> QED
    BY <1>2, <2>1 DEF WrittenOnce, AckedStays
<1>3. ASSUME AckedStays, Spoiled PROVE WrittenOnce'
  <2>1. \A i \in DOMAIN Append(log, Torn) :
            Append(log, Torn)[i] = Torn \/ (i \in DOMAIN log /\ Append(log, Torn)[i] = log[i])
    <3>1. log \in Seq(LogLines) /\ Torn \in LogLines
      BY DEF AuditTypeOK, LogLines
    <3> HIDE DEF LogLines
    <3> QED
      BY <3>1
  <2>2. log' = log \/ log' = Append(log, Torn)
    BY <1>3 DEF Spoiled
  <2> QED
    BY <1>2, <1>3, <2>1, <2>2
<1>4. ASSUME AckedStays, log' = <<>> PROVE WrittenOnce'
  BY <1>2, <1>4
<1>5. ASSUME AckedStays, log' = log PROVE WrittenOnce'
  BY <1>2, <1>5
<1> QED
  BY <1>1, <1>3, <1>4, <1>5, WhatIsWritten

LEMMA NewestStep ==
  ASSUME AuditTypeOK, Newest, AuditStep
  PROVE  Newest'
<1> SUFFICES ASSUME "torn" \notin faulted'
             PROVE  /\ ~torn' /\ Len(log') <= Len(acked')
                    /\ \A i \in DOMAIN log' : log'[i] = acked'[Len(acked') - Len(log') + i]
  BY DEF Newest
<1>1. Len(acked) \in Nat /\ Len(log) \in Nat /\ DOMAIN log = 1 .. Len(log) /\ DOMAIN acked = 1 .. Len(acked)
  BY DEF AuditTypeOK
<1>2. ASSUME faulted \subseteq faulted'
      PROVE  /\ ~torn /\ Len(log) <= Len(acked)
             /\ \A i \in DOMAIN log : log[i] = acked[Len(acked) - Len(log) + i]
  BY <1>2 DEF Newest
<1>3. ASSUME NEW w \in Entries, Written(w)
      PROVE  /\ ~torn' /\ Len(log') <= Len(acked')
             /\ \A i \in DOMAIN log' : log'[i] = acked'[Len(acked') - Len(log') + i]
  <2>1. /\ ~torn /\ Len(log) <= Len(acked)
        /\ \A i \in DOMAIN log : log[i] = acked[Len(acked) - Len(log) + i]
    BY <1>2, <1>3 DEF Written
  <2>2. /\ Len(acked') = Len(acked) + 1
        /\ acked'[Len(acked) + 1] = w
        /\ \A i \in DOMAIN acked : acked'[i] = acked[i]
        /\ Len(log') = Len(log) + 1 /\ DOMAIN log' = 1 .. Len(log) + 1
        /\ log'[Len(log) + 1] = w /\ \A i \in DOMAIN log : log'[i] = log[i]
    BY <1>3, <2>1, WrittenLast
  <2>3. ASSUME NEW i \in DOMAIN log' PROVE log'[i] = acked'[Len(acked') - Len(log') + i]
    <3>1. Len(acked') - Len(log') = Len(acked) - Len(log)
      BY <1>1, <2>2
    <3>2. CASE i = Len(log) + 1
      <4>1. Len(acked) - Len(log) + i = Len(acked) + 1
        BY <1>1, <3>2
      <4> QED BY <2>2, <3>1, <3>2, <4>1
    <3>3. CASE i # Len(log) + 1
      <4>1. i \in DOMAIN log /\ Len(acked) - Len(log) + i \in DOMAIN acked
        BY <1>1, <2>1, <2>2, <3>3
      <4> QED BY <2>1, <2>2, <3>1, <4>1
    <3> QED BY <3>2, <3>3
  <2>4. ~torn'
    BY <1>3 DEF Written
  <2> QED
    BY <1>1, <2>1, <2>2, <2>3, <2>4
<1>4. ASSUME AckedStays, log' = <<>> /\ torn' = FALSE
      PROVE  /\ ~torn' /\ Len(log') <= Len(acked')
             /\ \A i \in DOMAIN log' : log'[i] = acked'[Len(acked') - Len(log') + i]
  BY <1>1, <1>4 DEF AckedStays
<1>5. ASSUME AckedStays, log' = log /\ torn' = torn
      PROVE  /\ ~torn' /\ Len(log') <= Len(acked')
             /\ \A i \in DOMAIN log' : log'[i] = acked'[Len(acked') - Len(log') + i]
  BY <1>2, <1>5 DEF AckedStays
<1>6. ~Spoiled
  BY DEF Spoiled
<1> QED
  BY <1>3, <1>4, <1>5, <1>6, WhatIsWritten, Zenon

--------------------------------------------------------------------------------
(* Rotations in one second *)

\* Whether something was lost to the two faults that JournalKept excepts.
Unharmed == faulted \cap {"torn", "open"} = {}

\* What is being written in a second fits, with what was, into one file.
Crowd ==
  /\ IsFiniteSet(InFlight)
  /\ pace + Cardinality(InFlight) <= MaxEvents
  /\ InFlight \cap Big # {} => \E b \in Entries : InFlight = {b}

\* The file that a rotation of this second began holds nothing but what was
\* written since, so it is not full.
Paced ==
  Unharmed =>
    /\ file = "closed" /\ up => \E w \in Entries : write[w] = "renamed"
    /\ now \in DOMAIN archives =>
        /\ Len(log) <= pace
        /\ file = "open" => eventCount <= pace
        /\ Lines \cap Big # {} => pace = MaxEvents

LEMMA CrowdStep ==
  ASSUME AuditTypeOK, Crowd, AuditStep
  PROVE  Crowd'
<1> DEFINE n == Cardinality(InFlight)
<1>1. n \in Nat /\ pace \in Nat /\ MaxEvents \in Nat /\ 1 <= MaxEvents
  BY FS_CardinalityType DEF Crowd, AuditTypeOK
<1>2. ASSUME InFlight' = InFlight, pace' \in {0, pace} PROVE Crowd'
  BY <1>1, <1>2 DEF Crowd
<1>3. ASSUME NEW w \in Entries, w \notin InFlight, InFlight' = InFlight \union {w},
             (InFlight \union {w}) \cap Big # {} => InFlight = {},
             n + pace < MaxEvents, pace' = pace
      PROVE  Crowd'
  <2>1. IsFiniteSet(InFlight') /\ Cardinality(InFlight') = n + 1
    BY <1>3, FS_AddElement DEF Crowd
  <2>2. InFlight' \cap Big # {} => InFlight' = {w}
    BY <1>3
  <2> QED BY <1>1, <1>3, <2>1, <2>2 DEF Crowd
<1>4. ASSUME NEW w \in Entries, w \in InFlight, InFlight' = InFlight \ {w},
             \/ pace' = pace
             \/ w \notin Big /\ pace' = pace + 1
             \/ w \in Big /\ pace' = MaxEvents
      PROVE  Crowd'
  <2>1. IsFiniteSet(InFlight') /\ Cardinality(InFlight') = n - 1
    BY <1>4, FS_RemoveElement DEF Crowd
  <2>2. InFlight' \cap Big # {} => \E b \in Entries : InFlight' = {b}
    BY <1>4 DEF Crowd
  <2>3. w \in Big => InFlight' = {}
    BY <1>4 DEF Crowd
  <2>4. InFlight' = {} => Cardinality(InFlight') = 0
    BY FS_EmptySet
  <2>5. pace' + Cardinality(InFlight') <= MaxEvents
    BY <1>1, <1>4, <2>1, <2>3, <2>4 DEF Crowd
  <2> QED BY <2>1, <2>2, <2>5 DEF Crowd
<1>5. ASSUME NEW w \in Entries, WriteStart(w) PROVE Crowd'
  <2>1. /\ w \notin InFlight /\ pace' = pace
        /\ InFlight' \in {InFlight, InFlight \union {w}}
    BY <1>5 DEF WriteStart, InFlight, AuditTypeOK
  <2>2. n + pace < MaxEvents /\ ((InFlight \union {w}) \cap Big # {} => InFlight = {})
    BY <1>1, <1>5 DEF WriteStart
  <2> QED BY <1>2, <1>3, <2>1, <2>2
<1>6. ASSUME NEW w \in Entries, Rename(w) \/ OpenNew(w) \/ Send(w) \/ BroadcastDone(w) PROVE Crowd'
  <2>1. InFlight' = InFlight /\ pace' = pace
    BY <1>6 DEF Rename, OpenNew, Send, BroadcastDone, InFlight, AuditTypeOK
  <2> QED BY <1>2, <2>1
<1>7. ASSUME NEW w \in Entries, WriteLine(w) PROVE Crowd'
  <2>1. w \in InFlight
    BY <1>7 DEF WriteLine, InFlight
  <2>2. \E p \in {"acked", "failed"} : write' = [write EXCEPT ![w] = p]
    BY <1>7 DEF WriteLine, AppendLine
  <2>3. InFlight' = InFlight \ {w}
    BY <2>2 DEF InFlight, AuditTypeOK
  <2>4. \/ pace' = pace
        \/ w \notin Big /\ pace' = pace + 1
        \/ w \in Big /\ pace' = MaxEvents
    BY <1>7 DEF WriteLine, AppendLine
  <2> QED BY <1>4, <2>1, <2>3, <2>4
<1>8. ASSUME NEW r \in Readers, Reading(r) PROVE Crowd'
  <2>1. InFlight' = InFlight /\ pace' = pace
    BY <1>8 DEF Reading, RecentStart, RecentOpen, RecentRead, InFlight
  <2> QED BY <1>2, <2>1
<1>9. CASE Exit
  <2>1. InFlight' = {} /\ pace' = pace
    BY <1>9 DEF Exit, InFlight
  <2> QED BY <1>1, <2>1, FS_EmptySet DEF Crowd
<1>10. CASE Tick \/ New \/ UNCHANGED auditVars
  <2>1. InFlight' = InFlight /\ pace' \in {0, pace}
    BY <1>10 DEF Tick, New, InFlight
  <2> QED BY <1>2, <2>1
<1> QED
  BY <1>5, <1>6, <1>7, <1>8, <1>9, <1>10 DEF AuditStep, AuditNext, Writing

\* A rotation that moves the file makes the first archive of its second.
LEMMA OneRotation ==
  ASSUME AuditTypeOK, LockHolds, Crowd, Paced, Unharmed, NEW w \in Entries, Rename(w)
  PROVE  file = "open" /\ now \notin DOMAIN archives
<1>1. write[w] = "writing" /\ lock = Free /\ ShouldRotate
  BY DEF Rename
<1>2. up /\ \A v \in Entries : write[v] # "renamed"
  BY <1>1 DEF LockHolds
<1>3. file = "open"
  BY <1>1, <1>2 DEF Paced, ShouldRotate, AuditTypeOK
<1>4. pace < MaxEvents
  <2>1. w \in InFlight
    BY <1>1 DEF InFlight
  <2>2. Cardinality(InFlight) \in Nat /\ Cardinality(InFlight) # 0
    BY <2>1, FS_CardinalityType, FS_EmptySet DEF Crowd
  <2> QED BY <2>2 DEF Crowd, AuditTypeOK
<1> QED
  BY <1>1, <1>3, <1>4 DEF Paced, ShouldRotate, AuditTypeOK

LEMMA PacedStep ==
  ASSUME AuditTypeOK, LockHolds, Crowd, Paced, AuditStep
  PROVE  Paced'
<1> SUFFICES ASSUME Unharmed'
             PROVE  /\ file' = "closed" /\ up' => \E w \in Entries : write'[w] = "renamed"
                    /\ now' \in DOMAIN archives' =>
                        /\ Len(log') <= pace'
                        /\ file' = "open" => eventCount' <= pace'
                        /\ Lines' \cap Big # {} => pace' = MaxEvents
  BY DEF Paced
<1>0. /\ now \in Nat /\ DOMAIN archives \subseteq 0 .. now /\ pace \in Nat /\ MaxEvents \in Nat
      /\ log \in Seq(LogLines) /\ Len(log) \in Nat /\ eventCount \in Nat
  BY DEF AuditTypeOK, LogLines
<1>1. ASSUME faulted \subseteq faulted'
      PROVE  /\ Unharmed
             /\ file = "closed" /\ up => \E w \in Entries : write[w] = "renamed"
             /\ now \in DOMAIN archives =>
                  /\ Len(log) <= pace
                  /\ file = "open" => eventCount <= pace
                  /\ Lines \cap Big # {} => pace = MaxEvents
  BY <1>1 DEF Paced, Unharmed
<1>2. ASSUME UNCHANGED <<log, pace, now, faulted, eventCount, file, up, archives>>,
             \A w \in Entries : write[w] = "renamed" => write'[w] = "renamed"
      PROVE  /\ file' = "closed" /\ up' => \E w \in Entries : write'[w] = "renamed"
             /\ now' \in DOMAIN archives' =>
                  /\ Len(log') <= pace'
                  /\ file' = "open" => eventCount' <= pace'
                  /\ Lines' \cap Big # {} => pace' = MaxEvents
  BY <1>1, <1>2 DEF Lines
<1>3. ASSUME NEW w \in Entries, WriteStart(w) \/ Send(w) \/ BroadcastDone(w)
      PROVE  /\ UNCHANGED <<log, pace, now, faulted, eventCount, file, up, archives>>
             /\ \A v \in Entries : write[v] = "renamed" => write'[v] = "renamed"
  BY <1>3 DEF WriteStart, Send, BroadcastDone, AuditTypeOK
<1>4. ASSUME NEW r \in Readers, Reading(r)
      PROVE  /\ UNCHANGED <<log, pace, now, faulted, eventCount, file, up, archives>>
             /\ \A v \in Entries : write[v] = "renamed" => write'[v] = "renamed"
  BY <1>4 DEF Reading, RecentStart, RecentOpen, RecentRead
<1>5. ASSUME NEW w \in Entries, Rename(w)
      PROVE  /\ file' = "closed" /\ up' => \E v \in Entries : write'[v] = "renamed"
             /\ now' \in DOMAIN archives' =>
                  /\ Len(log') <= pace'
                  /\ file' = "open" => eventCount' <= pace'
                  /\ Lines' \cap Big # {} => pace' = MaxEvents
  <2>1. Unharmed /\ faulted \subseteq faulted'
    BY <1>5 DEF Rename, Reopen, Unharmed
  <2>2. file = "open" /\ now \notin DOMAIN archives
    BY <1>5, <2>1, OneRotation
  <2>3. UNCHANGED <<now, pace, eventCount>>
    BY <1>5 DEF Rename
  <2>4. CASE log' = <<>> /\ file' = "closed" /\ write' = [write EXCEPT ![w] = "renamed"]
    <3>1. write'[w] = "renamed"
      BY <2>4 DEF AuditTypeOK
    <3>2. Lines' = {} /\ Len(log') = 0
      BY <2>4 DEF Lines
    <3> QED BY <1>0, <2>3, <2>4, <3>1, <3>2
  <2>5. CASE Reopen /\ archives' = archives
    <3>1. file' # "closed"
      BY <2>5 DEF Reopen
    <3> QED BY <2>2, <2>3, <2>5, <3>1
  <2> QED BY <1>5, <2>4, <2>5 DEF Rename
<1>6. ASSUME NEW w \in Entries, OpenNew(w)
      PROVE  /\ file' = "closed" /\ up' => \E v \in Entries : write'[v] = "renamed"
             /\ now' \in DOMAIN archives' =>
                  /\ Len(log') <= pace'
                  /\ file' = "open" => eventCount' <= pace'
                  /\ Lines' \cap Big # {} => pace' = MaxEvents
  <2>1. file' = "open" /\ eventCount' = 0
    BY <1>6 DEF OpenNew, Unharmed
  <2>2. log' = <<>> /\ pace' = pace
    BY <1>6 DEF OpenNew, LockHolds
  <2>3. Lines' = {}
    BY <2>2 DEF Lines
  <2> QED BY <1>0, <2>1, <2>2, <2>3
<1>7. ASSUME NEW w \in Entries, WriteLine(w)
      PROVE  /\ file' = "closed" /\ up' => \E v \in Entries : write'[v] = "renamed"
             /\ now' \in DOMAIN archives' =>
                  /\ Len(log') <= pace'
                  /\ file' = "open" => eventCount' <= pace'
                  /\ Lines' \cap Big # {} => pace' = MaxEvents
  <2>0. faulted \subseteq faulted' /\ UNCHANGED <<now, archives, file, up>>
    BY <1>7 DEF WriteLine, AppendLine
  <2>1. pace < MaxEvents
    <3>1. w \in InFlight
      BY <1>7 DEF WriteLine, InFlight
    <3>2. Cardinality(InFlight) \in Nat /\ Cardinality(InFlight) # 0
      BY <3>1, FS_CardinalityType, FS_EmptySet DEF Crowd
    <3> QED BY <3>2 DEF Crowd, AuditTypeOK
  <2>2. \E p \in {"acked", "failed"} : write' = [write EXCEPT ![w] = p]
    BY <1>7 DEF WriteLine, AppendLine
  <2>3. write[w] # "renamed" /\ \A v \in Entries : write[v] = "renamed" => write'[v] = "renamed"
    BY <1>7, <2>2 DEF WriteLine, AuditTypeOK
  <2>4. file' = "closed" /\ up' => \E v \in Entries : write'[v] = "renamed"
    BY <1>1, <2>0, <2>3
  <2>5. CASE UNCHANGED <<log, eventCount, pace>>
    BY <1>1, <2>0, <2>4, <2>5 DEF Lines
  <2>6. CASE log' = (IF torn THEN [log EXCEPT ![Len(log)] = Torn] ELSE Append(log, w))
             /\ eventCount' = eventCount + 1 /\ pace' = (IF w \in Big THEN MaxEvents ELSE pace + 1)
    <3>1. w \in LogLines /\ Torn \in LogLines /\ Torn \notin Big
      BY DEF LogLines
    <3>2. /\ Len(log') <= Len(log) + 1
          /\ Lines' \subseteq Lines \union {w, Torn}
      <4>1. CASE torn
        <5>1. log' = [log EXCEPT ![Len(log)] = Torn]
          BY <2>6, <4>1
        <5>2. PICK k \in Nat : log \in [1 .. k -> LogLines] /\ Len(log) = k
          BY <1>0
        <5>3. DOMAIN log' = 1 .. k /\ \A i \in 1 .. k : log'[i] \in {log[i], Torn}
          BY <5>1, <5>2
        <5>5. log' \in [1 .. k -> LogLines]
          BY <3>1, <5>1, <5>2
        <5>4. Len(log') = k
          BY <5>2, <5>5
        <5> QED BY <5>2, <5>3, <5>4 DEF Lines
      <4>2. CASE ~torn
        <5>1. log' = Append(log, w)
          BY <2>6, <4>2
        <5>2. /\ Len(log') = Len(log) + 1 /\ DOMAIN log' = 1 .. Len(log) + 1
              /\ log'[Len(log) + 1] = w /\ \A i \in DOMAIN log : log'[i] = log[i]
              /\ DOMAIN log = 1 .. Len(log)
          BY <1>0, <3>1, <5>1
        <5>3. Lines' \subseteq Lines \union {w}
          BY <1>0, <5>2 DEF Lines
        <5> QED BY <1>0, <5>2, <5>3
      <4> QED BY <4>1, <4>2
    <3>3. ASSUME now \in DOMAIN archives
          PROVE  /\ Len(log') <= pace' /\ (file' = "open" => eventCount' <= pace')
                 /\ (Lines' \cap Big # {} => pace' = MaxEvents)
      <4>1. Len(log) <= pace /\ (file = "open" => eventCount <= pace) /\ Lines \cap Big = {}
        BY <1>0, <1>1, <2>0, <2>1, <3>3
      <4>2. Len(log') \in Nat
        BY <2>6, <1>0, <3>1
      <4>3. pace + 1 <= pace' /\ pace' \in Nat
        BY <1>0, <2>1, <2>6
      <4>4. Len(log') <= pace' /\ (file' = "open" => eventCount' <= pace')
        BY <1>0, <2>0, <2>6, <3>2, <4>1, <4>2, <4>3
      <4>5. Lines' \cap Big # {} => w \in Big
        BY <3>1, <3>2, <4>1
      <4> QED BY <2>6, <4>4, <4>5
    <3> QED BY <2>0, <2>4, <3>3
  <2>7. UNCHANGED <<log, eventCount, pace>>
        \/ (/\ log' = (IF torn THEN [log EXCEPT ![Len(log)] = Torn] ELSE Append(log, w))
            /\ eventCount' = eventCount + 1 /\ pace' = (IF w \in Big THEN MaxEvents ELSE pace + 1))
    BY <1>7 DEF WriteLine, AppendLine, Unharmed
  <2> QED BY <2>5, <2>6, <2>7
<1>8. CASE Tick
  <2>1. now' = now + 1 /\ UNCHANGED <<archives, file, up, write, faulted>>
    BY <1>8 DEF Tick
  <2>2. now' \notin DOMAIN archives'
    BY <1>0, <2>1
  <2> QED BY <1>1, <2>1, <2>2
<1>9. CASE Exit
  <2>1. up' = FALSE /\ file' = "closed" /\ UNCHANGED <<log, archives, now, pace, faulted>>
    BY <1>9 DEF Exit
  <2> QED BY <1>1, <2>1 DEF Lines
<1>10. CASE New
  <2>1. /\ file' = "open" /\ eventCount' \in Nat /\ eventCount' <= Len(log)
        /\ UNCHANGED <<log, archives, now, pace>> /\ faulted \subseteq faulted'
    BY <1>10, NewStarts
  <2> QED BY <1>0, <1>1, <2>1 DEF Lines
<1>11. CASE UNCHANGED auditVars
  BY <1>2, <1>11
<1> QED
  BY <1>2, <1>3, <1>4, <1>5, <1>6, <1>7, <1>8, <1>9, <1>10, <1>11 DEF AuditStep, AuditNext, Writing

--------------------------------------------------------------------------------
(* The journal: archives and file *)

After(D, t) == {u \in D : u > t}

\* What cleanOldArchives leaves is the newest, and either everything or a full set.
LEMMA CleanLeavesNewest ==
  ASSUME NEW n \in Nat, NEW a, DOMAIN a \subseteq 0 .. n
  PROVE  LET b == CleanOldArchives(a)
         IN  /\ DOMAIN b \subseteq DOMAIN a
             /\ \A s \in DOMAIN b : b[s] = a[s]
             /\ \A s \in DOMAIN b, t \in DOMAIN a : s < t => t \in DOMAIN b
             /\ DOMAIN b = DOMAIN a \/ Cardinality(DOMAIN b) >= KeepArchives
<1> DEFINE D == DOMAIN a
           b == CleanOldArchives(a)
           E == {t \in D : Cardinality(After(D, t)) < KeepArchives}
<1>1. DOMAIN b = E /\ \A s \in E : b[s] = a[s]
  <2>1. b = [s \in E |-> a[s]]
    BY DEF CleanOldArchives, After
  <2> HIDE DEF b, E
  <2> QED BY <2>1
<1> HIDE DEF b
<1>2. IsFiniteSet(D) /\ D \subseteq Nat
  <2>1. IsFiniteSet(0 .. n) /\ 0 .. n \subseteq Nat
    BY FS_Interval
  <2> QED BY <2>1, FS_Subset
<1>3. ASSUME NEW t \in D
      PROVE  IsFiniteSet(After(D, t)) /\ Cardinality(After(D, t)) \in Nat
  <2>1. After(D, t) \subseteq D
    BY DEF After
  <2> QED BY <1>2, <2>1, FS_Subset, FS_CardinalityType
<1>4. ASSUME NEW s \in E, NEW t \in D, s < t PROVE t \in E
  <2>1. After(D, t) \subseteq After(D, s)
    BY <1>2, <1>4 DEF After
  <2>2. Cardinality(After(D, t)) <= Cardinality(After(D, s))
    BY <1>3, <2>1, FS_Subset
  <2> QED BY <1>3, <2>2
<1>5. ASSUME NEW x \in D \ E PROVE Cardinality(E) >= KeepArchives
  <2> DEFINE T == {k \in Nat : n - k \in D \ E}
  <2>1. n - x \in T
    BY <1>2
  <2>2. PICK k \in T : \A m \in T : k <= m
    BY <2>1, Least
  <2>3. n - k \in D \ E /\ k \in Nat /\ n - k \in Nat
    BY <1>2, <2>2
  <2>4. ASSUME NEW u \in After(D, n - k) PROVE u \in E
    <3>1. u \in D /\ u \in Nat /\ u <= n /\ u > n - k
      BY <1>2 DEF After
    <3>2. CASE u \notin E
      <4>1. n - u \in Nat /\ n - (n - u) = u
        BY <3>1
      <4>2. n - u \in T
        BY <3>1, <3>2, <4>1
      <4> QED BY <2>2, <2>3, <3>1, <4>2
    <3> QED BY <3>2
  <2>5. IsFiniteSet(E) /\ Cardinality(E) \in Nat
    <3>1. E \subseteq D
      OBVIOUS
    <3> QED BY <1>2, <3>1, FS_Subset, FS_CardinalityType
  <2>6. Cardinality(After(D, n - k)) <= Cardinality(E)
    BY <2>4, <2>5, FS_Subset
  <2>7. Cardinality(After(D, n - k)) >= KeepArchives
    BY <1>3, <2>3
  <2> QED BY <1>3, <2>3, <2>5, <2>6, <2>7
<1>6. DOMAIN b = D \/ Cardinality(DOMAIN b) >= KeepArchives
  BY <1>1, <1>5
<1> QED BY <1>1, <1>4, <1>6 DEF b

\* What a step does to files and archives.
Moves ==
  /\ AckedStays /\ log' = <<>>
  /\ archives' = [s \in DOMAIN archives \union {now} |-> IF s = now THEN log ELSE archives[s]]

Cleans == AckedStays /\ log' = log /\ archives' = CleanOldArchives(archives)

LEMMA JournalKinds ==
  ASSUME AuditTypeOK, AuditStep
  PROVE  \/ archives' = archives /\ \E w \in Entries : Written(w)
         \/ archives' = archives /\ AckedStays /\ (Spoiled \/ log' = log)
         \/ Moves /\ now' = now /\ \E w \in Entries : Rename(w)
         \/ Cleans
<1> DEFINE Goal ==
         \/ archives' = archives /\ \E w \in Entries : Written(w)
         \/ archives' = archives /\ AckedStays /\ (Spoiled \/ log' = log)
         \/ Moves /\ now' = now /\ \E w \in Entries : Rename(w)
         \/ Cleans
<1>1. ASSUME NEW w \in Entries, Rename(w) PROVE Goal
  <2>1. AckedStays
    <3>1. acked' = acked /\ faulted \subseteq faulted'
      BY <1>1 DEF Rename, Reopen
    <3>2. \A v \in Entries : write[v] = "acked" => write'[v] = "acked"
      BY <1>1 DEF Rename, AuditTypeOK
    <3> QED BY <3>1, <3>2 DEF AckedStays
  <2>2. now' = now
    BY <1>1 DEF Rename
  <2>3. \/ log' = <<>> /\ archives' = [s \in DOMAIN archives \union {now} |->
                                          IF s = now THEN log ELSE archives[s]]
        \/ log' = log /\ archives' = archives
    BY <1>1 DEF Rename, ArchiveSecond
  <2> QED BY <1>1, <2>1, <2>2, <2>3 DEF Moves
<1>2. ASSUME NEW w \in Entries, OpenNew(w) PROVE Goal
  <2>1. AckedStays
    <3>1. acked' = acked /\ faulted \subseteq faulted'
      BY <1>2 DEF OpenNew
    <3>2. \A v \in Entries : write[v] = "acked" => write'[v] = "acked"
      BY <1>2 DEF OpenNew, AuditTypeOK
    <3> QED BY <3>1, <3>2 DEF AckedStays
  <2>2. log' = log /\ archives' \in {archives, CleanOldArchives(archives)}
    BY <1>2 DEF OpenNew
  <2> QED BY <2>1, <2>2 DEF Cleans
<1>3. CASE archives' = archives
  <2>1. CASE AckedStays /\ log' = <<>> /\ torn' = FALSE
    <3>1. \/ \E w \in Entries : Rename(w)
          \/ log' = log
          \/ \E w \in Entries : WriteLine(w)
      BY DEF AuditStep, AuditNext, Writing, WriteStart, OpenNew, Send, BroadcastDone, Reading,
             RecentStart, RecentOpen, RecentRead, Tick, Exit, New
    <3>2. ASSUME NEW w \in Entries, WriteLine(w) PROVE Goal
      <4>1. \/ acked' = Append(acked, w)
            \/ log' = log
            \/ "torn" \in faulted' /\ log' = Append(log, Torn)
        BY <3>2 DEF WriteLine, AppendLine
      <4>2. acked' = acked /\ Append(acked, w) # acked /\ Append(log, Torn) # <<>>
        <5>1. acked \in Seq(Entries) /\ log \in Seq(LogLines) /\ Torn \in LogLines
          BY DEF AuditTypeOK, LogLines
        <5>2. Append(acked, w) # acked /\ Append(log, Torn) # <<>>
          BY <5>1
        <5> QED BY <2>1, <5>2 DEF AckedStays
      <4>3. log' = log
        BY <2>1, <4>1, <4>2, Zenon
      <4> QED BY <1>3, <2>1, <4>3
    <3> QED BY <1>1, <1>3, <2>1, <3>1, <3>2
  <2> QED BY <1>3, <2>1, WhatIsWritten
<1>4. archives' = archives \/ \E w \in Entries : Rename(w) \/ OpenNew(w)
  BY DEF AuditStep, AuditNext, Writing, WriteStart, WriteLine, Send, BroadcastDone, Reading,
         RecentStart, RecentOpen, RecentRead, Tick, Exit, New
<1> QED BY <1>1, <1>2, <1>3, <1>4

\* Whether archive s of a has the i-th entry of q, and whether one has.
In(a, q, i, s) == \E k \in DOMAIN a[s] : a[s][k] = q[i]
Put(a, q, i) == \E s \in DOMAIN a : In(a, q, i, s)

\* The first out entries of q left the file: those the archives have are the last
\* of them, in the order of the archives, and some are missing only when the
\* archives are a full set.
Journal(a, q, out) ==
  /\ \A s \in DOMAIN a, i \in DOMAIN q : In(a, q, i, s) => i <= out
  /\ \A s, t \in DOMAIN a, i, j \in DOMAIN q : In(a, q, i, s) /\ In(a, q, j, t) /\ s < t => i < j
  /\ \A i, j \in DOMAIN q : i < j /\ j <= out /\ Put(a, q, i) => Put(a, q, j)
  /\ \A i \in DOMAIN q : i <= out => Put(a, q, i) \/ Cardinality(DOMAIN a) >= KeepArchives

LEMMA JournalGrows ==
  ASSUME NEW a, NEW q \in Seq(Entries), NEW w \in Entries, NEW out \in Nat, out <= Len(q),
         Journal(a, q, out),
         \A s \in DOMAIN a : \A k \in DOMAIN a[s] : a[s][k] # w
  PROVE  Journal(a, Append(q, w), out)
<1> DEFINE r == Append(q, w)
<1>1. /\ Len(q) \in Nat /\ DOMAIN q = 1 .. Len(q) /\ DOMAIN r = 1 .. Len(q) + 1
      /\ r[Len(q) + 1] = w /\ \A i \in DOMAIN q : r[i] = q[i]
  OBVIOUS
<1> HIDE DEF r
<1>2. ASSUME NEW i \in DOMAIN r, i \notin DOMAIN q
      PROVE  i = Len(q) + 1 /\ (\A s \in DOMAIN a : ~In(a, r, i, s)) /\ ~Put(a, r, i) /\ ~(i <= out)
  <2>1. i = Len(q) + 1
    BY <1>1, <1>2
  <2>2. \A s \in DOMAIN a : ~In(a, r, i, s)
    BY <1>1, <2>1 DEF In
  <2> QED BY <1>1, <2>1, <2>2 DEF Put
<1>3. ASSUME NEW i \in DOMAIN q
      PROVE  (\A s \in DOMAIN a : In(a, r, i, s) <=> In(a, q, i, s)) /\ (Put(a, r, i) <=> Put(a, q, i))
  <2>1. \A s \in DOMAIN a : In(a, r, i, s) <=> In(a, q, i, s)
    BY <1>1 DEF In
  <2> QED BY <2>1 DEF Put
<1>4. \A s \in DOMAIN a, i \in DOMAIN r : In(a, r, i, s) => i <= out
  BY <1>2, <1>3 DEF Journal
<1>5. \A s, t \in DOMAIN a, i, j \in DOMAIN r : In(a, r, i, s) /\ In(a, r, j, t) /\ s < t => i < j
  BY <1>2, <1>3 DEF Journal
<1>6. \A i, j \in DOMAIN r : i < j /\ j <= out /\ Put(a, r, i) => Put(a, r, j)
  BY <1>2, <1>3 DEF Journal
<1>7. \A i \in DOMAIN r : i <= out => Put(a, r, i) \/ Cardinality(DOMAIN a) >= KeepArchives
  BY <1>2, <1>3 DEF Journal
<1> QED BY <1>4, <1>5, <1>6, <1>7 DEF Journal, r

LEMMA JournalMoves ==
  ASSUME NEW n \in Nat, NEW a, DOMAIN a \subseteq 0 .. n, n \notin DOMAIN a,
         NEW q \in Seq(Entries), NEW out \in Nat, out <= Len(q), Journal(a, q, out),
         NEW l, \A i \in DOMAIN q : (\E k \in DOMAIN l : l[k] = q[i]) <=> i > out,
         NEW b, DOMAIN b = DOMAIN a \union {n}, b[n] = l, \A s \in DOMAIN a : b[s] = a[s]
  PROVE  Journal(b, q, Len(q))
<1>1. DOMAIN b = DOMAIN a \union {n} /\ b[n] = l /\ \A s \in DOMAIN a : b[s] = a[s]
  OBVIOUS
<1>2. Len(q) \in Nat /\ DOMAIN q = 1 .. Len(q)
  OBVIOUS
<1>3. \A i \in DOMAIN q : In(b, q, i, n) <=> i > out
  BY <1>1 DEF In
<1>4. \A i \in DOMAIN q, s \in DOMAIN a : In(b, q, i, s) <=> In(a, q, i, s)
  BY <1>1 DEF In
<1>5. \A i \in DOMAIN q : Put(b, q, i) <=> Put(a, q, i) \/ i > out
  BY <1>1, <1>3, <1>4 DEF Put
<1>6. ASSUME NEW s \in DOMAIN b, NEW t \in DOMAIN b, NEW i \in DOMAIN q, NEW j \in DOMAIN q,
             In(b, q, i, s), In(b, q, j, t), s < t
      PROVE  i < j
  <2>1. s \in DOMAIN a
    BY <1>1, <1>6
  <2>2. i <= out /\ In(a, q, i, s)
    BY <1>4, <1>6, <2>1 DEF Journal
  <2>3. CASE t = n
    <3>1. j > out
      BY <1>3, <1>6, <2>3
    <3> QED BY <1>2, <2>2, <3>1
  <2>4. CASE t \in DOMAIN a
    BY <1>4, <1>6, <2>1, <2>2, <2>4 DEF Journal
  <2> QED BY <1>1, <2>3, <2>4
<1>7. ASSUME NEW i \in DOMAIN q, NEW j \in DOMAIN q, i < j, Put(b, q, i) PROVE Put(b, q, j)
  <2>1. CASE j > out
    BY <1>5, <2>1
  <2>2. CASE ~(j > out)
    <3>1. j <= out /\ ~(i > out)
      BY <1>2, <1>7, <2>2
    <3> QED BY <1>5, <1>7, <3>1 DEF Journal
  <2> QED BY <2>1, <2>2
<1>8. ASSUME NEW i \in DOMAIN q PROVE Put(b, q, i) \/ Cardinality(DOMAIN b) >= KeepArchives
  <2>1. i <= out \/ i > out
    BY <1>2
  <2>2. IsFiniteSet(DOMAIN b) /\ Cardinality(DOMAIN a) <= Cardinality(DOMAIN b)
        /\ Cardinality(DOMAIN a) \in Nat /\ Cardinality(DOMAIN b) \in Nat
    <3>1. DOMAIN b \subseteq 0 .. n /\ DOMAIN a \subseteq DOMAIN b
      BY <1>1
    <3>3. IsFiniteSet(0 .. n)
      <4>1. 0 \in Int /\ n \in Int
        OBVIOUS
      <4> QED BY <4>1, FS_Interval
    <3>2. IsFiniteSet(DOMAIN b)
      BY <3>1, <3>3, FS_Subset
    <3> QED BY <3>1, <3>2, FS_Subset, FS_CardinalityType
  <2>3. Put(a, q, i) \/ i > out \/ Cardinality(DOMAIN a) >= KeepArchives
    BY <2>1 DEF Journal
  <2>4. KeepArchives \in Nat
    OBVIOUS
  <2>5. Cardinality(DOMAIN a) >= KeepArchives => Cardinality(DOMAIN b) >= KeepArchives
    BY <2>2, <2>4
  <2> QED BY <1>5, <2>3, <2>5
<1>9. \A i \in DOMAIN q : i <= Len(q)
  BY <1>2
<1> QED BY <1>6, <1>7, <1>8, <1>9 DEF Journal

LEMMA JournalCleaned ==
  ASSUME NEW n \in Nat, NEW a, DOMAIN a \subseteq 0 .. n, NEW q \in Seq(Entries), NEW out \in Nat,
         Journal(a, q, out)
  PROVE  Journal(CleanOldArchives(a), q, out)
<1> DEFINE b == CleanOldArchives(a)
<1>1. /\ DOMAIN b \subseteq DOMAIN a
      /\ \A s \in DOMAIN b : b[s] = a[s]
      /\ \A s \in DOMAIN b, t \in DOMAIN a : s < t => t \in DOMAIN b
      /\ DOMAIN b = DOMAIN a \/ Cardinality(DOMAIN b) >= KeepArchives
  BY CleanLeavesNewest
<1> HIDE DEF b
<1>2. DOMAIN q \subseteq Nat
  OBVIOUS
<1>3. \A i \in DOMAIN q, s \in DOMAIN b : In(b, q, i, s) <=> In(a, q, i, s)
  BY <1>1 DEF In
<1>4. ASSUME NEW i \in DOMAIN q, NEW j \in DOMAIN q, i < j, j <= out, Put(b, q, i) PROVE Put(b, q, j)
  <2>1. PICK s \in DOMAIN b : In(a, q, i, s)
    BY <1>3, <1>4 DEF Put
  <2>2. s \in DOMAIN a
    BY <1>1
  <2>3. PICK t \in DOMAIN a : In(a, q, j, t)
    BY <1>4, <2>1, <2>2 DEF Journal, Put
  <2>4. ~(t < s)
    <3>1. t < s => j < i
      BY <2>1, <2>2, <2>3 DEF Journal
    <3> QED BY <1>2, <1>4, <3>1
  <2>5. t = s \/ s < t
    BY <2>2, <2>4
  <2>6. t \in DOMAIN b
    BY <1>1, <2>5
  <2> QED BY <1>3, <2>3, <2>6 DEF Put
<1>5. ASSUME NEW i \in DOMAIN q, i <= out PROVE Put(b, q, i) \/ Cardinality(DOMAIN b) >= KeepArchives
  <2>1. CASE DOMAIN b = DOMAIN a
    <3>1. Put(a, q, i) => Put(b, q, i)
      BY <1>3, <2>1 DEF Put
    <3> QED BY <1>5, <2>1, <3>1 DEF Journal
  <2> QED BY <1>1, <2>1
<1>6. \A s \in DOMAIN b, i \in DOMAIN q : In(b, q, i, s) => i <= out
  BY <1>1, <1>3 DEF Journal
<1>7. \A s, t \in DOMAIN b, i, j \in DOMAIN q : In(b, q, i, s) /\ In(b, q, j, t) /\ s < t => i < j
  BY <1>1, <1>3 DEF Journal
<1> QED BY <1>4, <1>5, <1>6, <1>7 DEF Journal, b

\* Archives hold what was acknowledged, or pieces of lines.
Stored ==
  \A s \in DOMAIN archives : \A k \in DOMAIN archives[s] :
    archives[s][k] = Torn \/ \E i \in DOMAIN acked : acked[i] = archives[s][k]

JournalHolds == Unharmed => Journal(archives, acked, Len(acked) - Len(log))

LEMMA StoredStep ==
  ASSUME AuditTypeOK, WrittenOnce, Stored, AuditStep
  PROVE  Stored'
<1>1. ASSUME NEW w \in Entries, Written(w), archives' = archives PROVE Stored'
  <2>1. DOMAIN acked \subseteq DOMAIN acked' /\ \A i \in DOMAIN acked : acked'[i] = acked[i]
    BY <1>1, WrittenLast
  <2> QED BY <1>1, <2>1 DEF Stored
<1>2. ASSUME AckedStays, archives' = archives PROVE Stored'
  BY <1>2 DEF Stored, AckedStays
<1>3. ASSUME Moves PROVE Stored'
  <2>1. acked' = acked /\ DOMAIN archives' = DOMAIN archives \union {now}
        /\ \A s \in DOMAIN archives' : archives'[s] = IF s = now THEN log ELSE archives[s]
    BY <1>3 DEF Moves, AckedStays
  <2>2. \A k \in DOMAIN log : log[k] = Torn \/ \E i \in DOMAIN acked : acked[i] = log[k]
    BY DEF WrittenOnce
  <2> QED BY <2>1, <2>2 DEF Stored
<1>4. ASSUME Cleans PROVE Stored'
  <2>1. acked' = acked /\ archives' = CleanOldArchives(archives)
    BY <1>4 DEF Cleans, AckedStays
  <2>2. DOMAIN archives' \subseteq DOMAIN archives /\ \A s \in DOMAIN archives' : archives'[s] = archives[s]
    BY <2>1, CleanLeavesNewest DEF AuditTypeOK
  <2> QED BY <2>1, <2>2 DEF Stored
<1> QED BY <1>1, <1>2, <1>3, <1>4, JournalKinds

\* What of the acknowledged is in the file.
LEMMA InTheFile ==
  ASSUME AuditTypeOK, WrittenOnce, Newest, Unharmed, NEW i \in DOMAIN acked
  PROVE  /\ Len(acked) - Len(log) \in Nat /\ Len(acked) - Len(log) <= Len(acked)
         /\ (\E k \in DOMAIN log : log[k] = acked[i]) <=> i > Len(acked) - Len(log)
<1>1. /\ Len(log) \in Nat /\ DOMAIN log = 1 .. Len(log)
      /\ Len(acked) \in Nat /\ DOMAIN acked = 1 .. Len(acked)
  BY DEF AuditTypeOK
<1>2. Len(log) <= Len(acked) /\ \A k \in DOMAIN log : log[k] = acked[Len(acked) - Len(log) + k]
  BY DEF Newest, Unharmed
<1>3. ASSUME NEW k \in DOMAIN log, log[k] = acked[i] PROVE i > Len(acked) - Len(log)
  <2>1. Len(acked) - Len(log) + k \in DOMAIN acked /\ k >= 1 /\ k \in Nat
    BY <1>1, <1>2
  <2>2. acked[Len(acked) - Len(log) + k] = acked[i]
    BY <1>2, <1>3
  <2>3. Len(acked) - Len(log) + k = i
    BY <2>1, <2>2 DEF WrittenOnce
  <2> QED BY <1>1, <1>2, <2>1, <2>3
<1>4. ASSUME i > Len(acked) - Len(log) PROVE \E k \in DOMAIN log : log[k] = acked[i]
  <2> DEFINE k == i - (Len(acked) - Len(log))
  <2>1. k \in DOMAIN log /\ Len(acked) - Len(log) + k = i
    BY <1>1, <1>2, <1>4
  <2>2. log[k] = acked[i]
    BY <1>2, <2>1
  <2> QED BY <2>1, <2>2
<1> QED BY <1>1, <1>2, <1>3, <1>4

LEMMA JournalStep ==
  ASSUME AuditTypeOK, LockHolds, Crowd, Paced, WrittenOnce, Newest, Stored, JournalHolds, AuditStep
  PROVE  JournalHolds'
<1> SUFFICES ASSUME Unharmed' PROVE Journal(archives', acked', Len(acked') - Len(log'))
  BY DEF JournalHolds
<1> DEFINE out == Len(acked) - Len(log)
<1>1. /\ acked \in Seq(Entries) /\ Len(acked) \in Nat /\ Len(log) \in Nat
      /\ now \in Nat /\ DOMAIN archives \subseteq 0 .. now
  BY DEF AuditTypeOK
<1>2. ASSUME faulted \subseteq faulted'
      PROVE  /\ Unharmed /\ ~torn /\ out \in Nat /\ out <= Len(acked) /\ Journal(archives, acked, out)
  <2>1. Unharmed /\ "torn" \notin faulted
    BY <1>2 DEF Unharmed
  <2>2. ~torn /\ Len(log) <= Len(acked)
    BY <2>1 DEF Newest
  <2> QED BY <1>1, <2>1, <2>2 DEF JournalHolds
<1>3. ASSUME NEW w \in Entries, Written(w), archives' = archives
      PROVE  Journal(archives', acked', Len(acked') - Len(log'))
  <2>1. faulted \subseteq faulted' /\ acked' = Append(acked, w) /\ write[w] # "acked"
    BY <1>3 DEF Written
  <2>2. Len(acked') = Len(acked) + 1 /\ Len(log') = Len(log) + 1
    BY <1>2, <1>3, <2>1, WrittenLast
  <2>3. \A s \in DOMAIN archives : \A k \in DOMAIN archives[s] : archives[s][k] # w
    <3>1. \A i \in DOMAIN acked : acked[i] # w
      BY <2>1 DEF WrittenOnce
    <3>2. w # Torn
      OBVIOUS
    <3> QED BY <3>1, <3>2 DEF Stored
  <2>4. Journal(archives, Append(acked, w), out)
    BY <1>1, <1>2, <2>1, <2>3, JournalGrows
  <2>5. Len(acked') - Len(log') = out
    BY <1>1, <2>2
  <2> QED BY <1>3, <2>1, <2>4, <2>5
<1>4. ASSUME archives' = archives, AckedStays, Spoiled \/ log' = log
      PROVE  Journal(archives', acked', Len(acked') - Len(log'))
  <2>1. faulted \subseteq faulted' /\ acked' = acked /\ log' = log
    BY <1>4 DEF AckedStays, Spoiled, Unharmed
  <2> QED BY <1>2, <1>4, <2>1
<1>5. ASSUME Moves, now' = now, NEW w \in Entries, Rename(w)
      PROVE  Journal(archives', acked', Len(acked') - Len(log'))
  <2>1. /\ faulted \subseteq faulted' /\ acked' = acked /\ log' = <<>>
        /\ archives' = [s \in DOMAIN archives \union {now} |-> IF s = now THEN log ELSE archives[s]]
    BY <1>5 DEF Moves, AckedStays
  <2>2. now \notin DOMAIN archives
    BY <1>2, <1>5, <2>1, OneRotation
  <2>3. \A i \in DOMAIN acked : (\E k \in DOMAIN log : log[k] = acked[i]) <=> i > out
    BY <1>2, <2>1, InTheFile
  <2>4. Len(acked') - Len(log') = Len(acked)
    BY <1>1, <2>1
  <2> HIDE DEF out
  <2>6. out \in Nat /\ out <= Len(acked) /\ Journal(archives, acked, out)
    BY <1>2, <2>1
  <2>5. /\ DOMAIN archives' = DOMAIN archives \union {now} /\ archives'[now] = log
        /\ \A s \in DOMAIN archives : archives'[s] = archives[s]
    BY <2>1, <2>2
  <2>7. Journal(archives', acked, Len(acked))
    <3>1. now \in Nat /\ DOMAIN archives \subseteq 0 .. now /\ acked \in Seq(Entries)
      BY <1>1
    <3> QED BY <2>2, <2>3, <2>5, <2>6, <3>1, JournalMoves
  <2> QED BY <2>1, <2>4, <2>7
<1>6. ASSUME Cleans PROVE Journal(archives', acked', Len(acked') - Len(log'))
  <2>1. faulted \subseteq faulted' /\ acked' = acked /\ log' = log /\ archives' = CleanOldArchives(archives)
    BY <1>6 DEF Cleans, AckedStays
  <2> HIDE DEF out
  <2>2. Journal(CleanOldArchives(archives), acked, out)
    BY <1>1, <1>2, <2>1, JournalCleaned
  <2> QED BY <2>1, <2>2 DEF out
<1> QED BY <1>3, <1>4, <1>5, <1>6, JournalKinds

\* What is true of the log at all times, besides its types.
LogInv ==
  /\ LockHolds /\ CountHolds /\ Crowd /\ Paced
  /\ WrittenOnce /\ Newest /\ Stored /\ JournalHolds

LEMMA LogInit == AuditInit => LogInv
<1> SUFFICES ASSUME AuditInit PROVE LogInv
  OBVIOUS
<1>0. CountHolds
  BY WholeEmpty DEF AuditInit, CountHolds
<1>1. LockHolds /\ WrittenOnce /\ Newest
  BY DEF AuditInit, LockHolds, WrittenOnce, Newest
<1>2. InFlight = {}
  BY DEF AuditInit, InFlight
<1>3. Crowd
  BY <1>2, FS_EmptySet DEF AuditInit, Crowd
<1>4. DOMAIN archives = {}
  BY DEF AuditInit
<1>5. Paced /\ Stored
  BY <1>4 DEF AuditInit, Paced, Stored
<1>6. JournalHolds
  <2>1. DOMAIN acked = {}
    BY DEF AuditInit
  <2> QED BY <1>4, <2>1 DEF JournalHolds, Journal
<1> QED BY <1>0, <1>1, <1>3, <1>5, <1>6 DEF LogInv

LEMMA LogStep ==
  ASSUME AuditTypeOK, LogInv, AuditStep
  PROVE  LogInv'
BY LockStep, CountStep, CrowdStep, PacedStep, WrittenOnceStep, NewestStep, StoredStep, JournalStep
   DEF LogInv

LEMMA JournalMeans == AuditTypeOK /\ LogInv => JournalKept
<1> SUFFICES ASSUME AuditTypeOK, WrittenOnce, Newest, JournalHolds, Unharmed
             PROVE  /\ \A i, j \in DOMAIN acked : i < j /\ Kept(acked[i]) => Kept(acked[j])
                    /\ \A i \in DOMAIN acked :
                          Kept(acked[i]) \/ Cardinality(DOMAIN archives) >= KeepArchives
  BY DEF JournalKept, Unharmed, LogInv
<1> DEFINE out == Len(acked) - Len(log)
<1>1. \A i \in DOMAIN acked : Kept(acked[i]) <=> Put(archives, acked, i) \/ i > out
  <2> SUFFICES ASSUME NEW i \in DOMAIN acked
               PROVE  Kept(acked[i]) <=> Put(archives, acked, i) \/ i > out
    OBVIOUS
  <2>1. acked[i] \in Lines <=> i > out
    <3>1. acked[i] \in Lines <=> \E k \in DOMAIN log : log[k] = acked[i]
      BY DEF Lines
    <3> QED BY <3>1, InTheFile
  <2>2. Archived(acked[i]) <=> Put(archives, acked, i)
    BY DEF Archived, Put, In
  <2> QED BY <2>1, <2>2 DEF Kept
<1>2. DOMAIN acked \subseteq Nat /\ out \in Int
  BY DEF AuditTypeOK
<1>3. Journal(archives, acked, out)
  BY DEF JournalHolds
<1> HIDE DEF out
<1>4. ASSUME NEW i \in DOMAIN acked, NEW j \in DOMAIN acked, i < j, Kept(acked[i]) PROVE Kept(acked[j])
  <2>1. j <= out \/ j > out
    BY <1>2
  <2>2. j <= out => ~(i > out)
    BY <1>2, <1>4
  <2> QED BY <1>1, <1>3, <1>4, <2>1, <2>2 DEF Journal
<1>5. ASSUME NEW i \in DOMAIN acked PROVE Kept(acked[i]) \/ Cardinality(DOMAIN archives) >= KeepArchives
  <2>1. i <= out \/ i > out
    BY <1>2
  <2> QED BY <1>1, <1>3, <2>1 DEF Journal
<1> QED BY <1>4, <1>5

\* What was acknowledged is kept, the newest of it in the file and what is older in
\* the archives, with nothing missing in between, for any number of entries, any
\* limits and every fault but the two that lose some (AuditLog, JournalKept).
THEOREM JournalAlwaysKept == AuditSpec => []JournalKept
<1>1. AuditTypeOK /\ LogInv /\ [AuditNext]_auditVars => LogInv'
  BY LogStep DEF AuditStep
<1> QED
  BY <1>1, LogInit, JournalMeans, TypeCorrect, PTL DEF AuditSpec

--------------------------------------------------------------------------------
(* Nobody holds the lock for nothing *)

\* The holder of the lock is a write in its rotation or between that and its line,
\* whose next step waits for nobody, or the lock is that of a reader that panicked.
HolderActs ==
  /\ lock \in Entries => write[lock] \in {"renamed", "rotated"}
  /\ lock = Gone => \E r \in Readers : reading[r] = "panicked"

LEMMA HolderStep ==
  ASSUME AuditTypeOK, LockHolds, HolderActs, AuditStep
  PROVE  HolderActs'
<1> USE DEF AuditTypeOK, HolderActs
<1>1. ASSUME NEW w \in Entries, WriteStart(w) PROVE HolderActs'
  BY <1>1 DEF WriteStart
<1>2. ASSUME NEW w \in Entries, Rename(w) \/ OpenNew(w) PROVE HolderActs'
  <2>1. lock' = w
    BY <1>2 DEF Rename, OpenNew, LockHolds
  <2>2. write'[w] \in {"renamed", "rotated"}
    BY <1>2 DEF Rename, OpenNew
  <2>3. w # Gone
    OBVIOUS
  <2> QED BY <2>1, <2>2, <2>3
<1>3. ASSUME NEW w \in Entries, WriteLine(w) PROVE HolderActs'
  <2>1. lock' = Free
    BY <1>3 DEF WriteLine, AppendLine, Unlock
  <2> QED BY <2>1
<1>4. ASSUME NEW r \in Readers, RecentStart(r) \/ RecentRead(r) PROVE HolderActs'
  <2>1. \A q \in Readers : reading[q] = "panicked" => reading'[q] = "panicked"
    BY <1>4 DEF RecentStart, RecentRead
  <2>2. UNCHANGED <<lock, write>>
    BY <1>4 DEF Reading, RecentStart, RecentOpen, RecentRead
  <2> QED BY <2>1, <2>2
<1>5. ASSUME NEW r \in Readers, RecentOpen(r) PROVE HolderActs'
  <2>1. lock = Free /\ write' = write
    BY <1>5 DEF RecentOpen
  <2>2. (lock' = Gone /\ reading'[r] = "panicked") \/ lock' = lock
    BY <1>5 DEF RecentOpen
  <2> QED BY <2>1, <2>2
<1>6. ASSUME NEW w \in Entries, Send(w) \/ BroadcastDone(w) PROVE HolderActs'
  BY <1>6 DEF Send, BroadcastDone
<1>7. CASE Exit
  BY <1>7 DEF Exit
<1>8. CASE Tick \/ New \/ UNCHANGED auditVars
  BY <1>8 DEF Tick, New
<1> QED
  BY <1>1, <1>2, <1>3, <1>4, <1>5, <1>6, <1>7, <1>8 DEF AuditStep, AuditNext, Writing, Reading

\* The lock of the log is always on its way back, whatever fails, unless a reader
\* panicked with it: the part of WriteReturns that needs no fairness.
THEOREM LockIsReleased == AuditSpec => []HolderActs
<1>1. AuditInit => LockHolds /\ HolderActs
  BY DEF AuditInit, LockHolds, HolderActs
<1>2. AuditTypeOK /\ LockHolds /\ HolderActs /\ [AuditNext]_auditVars => LockHolds' /\ HolderActs'
  BY LockStep, HolderStep DEF AuditStep
<1> QED
  BY <1>1, <1>2, TypeCorrect, PTL DEF AuditSpec
================================================================================
