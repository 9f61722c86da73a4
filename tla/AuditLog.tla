-------------------------------- MODULE AuditLog --------------------------------
(***************************************************************************)
(* The audit log: audit/audit.go and push/push.go.                         *)
(*                                                                         *)
(* Any goroutine may write an entry.  Write looks at the file without the  *)
(* lock, takes the lock, moves the current file to an archive named after  *)
(* the second when it is full, appends one line, releases the lock, and    *)
(* leaves two goroutines behind: one pushes the entry to the warden, once, *)
(* and one broadcasts it to the event streams (module ApiStreams).  Recent *)
(* opens the current file under the lock and reads it after.  Every file   *)
(* operation may fail, and the process may end between any two of them and *)
(* start again.                                                            *)
(*                                                                         *)
(* A line is the entry it holds, or Torn when a write that failed left a   *)
(* piece of a line: the next line continues it and cannot be parsed.  The  *)
(* size limit is abstracted by the entries in Big, with which the file     *)
(* reaches it.  The scanner that reads the lines gives up at one of 64 KB, *)
(* as an entry with the output of compose may be: these are in Long.       *)
(***************************************************************************)
EXTENDS Naturals, Sequences, FiniteSets

CONSTANTS
    Entries,       \* audit entries, each written once
    Big,           \* those with which the file reaches the size limit
    Long,          \* lines longer than the scanner takes
    Readers,       \* goroutines that read the log
    Torn,          \* a line that cannot be parsed
    Free, Gone,    \* the lock is free; its holder panicked and never releases it
    MaxEvents,     \* entries in a file before it is rotated
    KeepArchives,  \* archives kept
    PushEnabled,       \* a warden is configured
    BroadcastEnabled,  \* a hub is attached
    Faults,        \* operations that may fail
    MaxSecond, MaxCrashes

ASSUME AuditAssumption ==
    /\ Big \subseteq Entries /\ Long \subseteq Entries \union {Torn}
    /\ Torn \notin Entries /\ Free \notin Entries /\ Gone \notin Entries /\ Free # Gone
    /\ {MaxEvents, KeepArchives} \subseteq Nat \ {0}
    /\ {PushEnabled, BroadcastEnabled} \subseteq BOOLEAN
    /\ Faults \subseteq {"rename", "reopen", "open", "write", "torn", "count", "push"}
    /\ {MaxSecond, MaxCrashes} \subseteq Nat

VARIABLES
    log,         \* lines of the file at the configured path
    present,     \* whether there is such a file
    torn,        \* whether its last line has no end
    archives,    \* lines of each archive, by the second of its name
    file,        \* l.file: "open", "closed" or "nil"
    eventCount,
    lock,        \* l.mu: Free, the entry being written, or Gone
    write,       \* how far the write of each entry is
    reading,     \* how far each reader is
    held,        \* lines of the file that a reader opened, once that is not the current one
    pushing, casting,  \* entries whose goroutines have still to push, broadcast
    arrived,     \* entries the warden has taken
    up, crashes, now,
    pace,        \* entries appended in this second; MaxEvents after one of Big
    acked,       \* history: entries whose Write returned nil, in order
    faulted      \* history: the faults met

fileVars == <<log, present, torn, archives>>
handleVars == <<file, eventCount>>
readVars == <<reading, held>>
taskVars == <<pushing, casting, arrived>>
procVars == <<up, crashes, now, faulted>>
auditVars == <<fileVars, handleVars, lock, write, readVars, taskVars, procVars, pace, acked>>

Lines == {log[i] : i \in DOMAIN log}
InFlight == {w \in Entries : write[w] \in {"writing", "renamed", "rotated"}}

AuditInit ==
    /\ log = <<>> /\ present = TRUE /\ torn = FALSE
    /\ archives = <<>>
    /\ file = "open" /\ eventCount = 0
    /\ lock = Free
    /\ write = [w \in Entries |-> "new"]
    /\ reading = [r \in Readers |-> "idle"]
    /\ held = [r \in Readers |-> <<>>]
    /\ pushing = {} /\ casting = {} /\ arrived = {}
    /\ up = TRUE /\ crashes = 0 /\ now = 0 /\ pace = 0
    /\ acked = <<>> /\ faulted = {}

--------------------------------------------------------------------------------
(* Write *)

\* The look at the file before the lock: a disabled logger reports success.
\* Bound: what is written in one second fills no file, so that the names of
\* archives differ; the real limits are 10000 entries and 100 MB.  An entry that
\* fills the file alone is the last of its second.
WriteStart(w) ==
    /\ up /\ write[w] = "new"
    /\ pace + Cardinality(InFlight) < MaxEvents
    /\ (InFlight \union {w}) \cap Big # {} => InFlight = {}
    /\ write' = [write EXCEPT ![w] = IF file = "nil" THEN "ignored" ELSE "writing"]
    /\ UNCHANGED <<fileVars, handleVars, lock, readVars, taskVars, procVars, pace, acked>>

ShouldRotate ==
    /\ file # "nil"
    /\ \/ eventCount >= MaxEvents
       \/ file = "open" /\ Lines \cap Big # {}

\* The rename failed: the file is opened again, and created if it is not there.
Reopen ==
    \/ /\ file' = "open" /\ present' = TRUE
       /\ faulted' = IF present THEN faulted \union {"rename"} ELSE faulted
    \/ /\ "reopen" \in Faults
       /\ file' = "nil"
       /\ faulted' = faulted \union {"reopen"}
       /\ UNCHANGED present

\* Mutant: the archive is named after the next second.
ArchiveSecondAhead == now + 1

ArchiveSecond == now

\* The file is renamed under the readers that have it open.
Detach ==
    /\ reading' = [r \in Readers |-> IF reading[r] = "opened" THEN "apart" ELSE reading[r]]
    /\ held' = [r \in Readers |-> IF reading[r] = "opened" THEN log ELSE held[r]]

\* First half of rotate: the file is closed and renamed; an archive of the same
\* second is overwritten.
Rename(w) ==
    /\ write[w] = "writing" /\ lock = Free /\ ShouldRotate
    /\ lock' = w
    /\ \/ /\ present
          /\ archives' = [s \in DOMAIN archives \union {ArchiveSecond} |->
                            IF s = ArchiveSecond THEN log ELSE archives[s]]
          /\ log' = <<>> /\ present' = FALSE /\ torn' = FALSE
          /\ file' = "closed"
          /\ write' = [write EXCEPT ![w] = "renamed"]
          /\ Detach
          /\ UNCHANGED faulted
       \/ /\ ~present \/ "rename" \in Faults
          /\ Reopen
          /\ write' = [write EXCEPT ![w] = "rotated"]
          /\ UNCHANGED <<log, torn, archives, readVars>>
    /\ UNCHANGED <<eventCount, taskVars, up, crashes, now, pace, acked>>

\* Mutant: the oldest are kept.
CleanOldArchivesKeepsOldest(a) ==
    [s \in {t \in DOMAIN a : Cardinality({u \in DOMAIN a : u < t}) < KeepArchives} |-> a[s]]

CleanOldArchives(a) ==
    [s \in {t \in DOMAIN a : Cardinality({u \in DOMAIN a : u > t}) < KeepArchives} |-> a[s]]

\* Second half of rotate.  When the new file cannot be opened the count keeps
\* its value and l.file is a closed file.
OpenNew(w) ==
    /\ write[w] = "renamed"
    /\ \/ /\ file' = "open" /\ present' = TRUE /\ eventCount' = 0
          /\ archives' = CleanOldArchives(archives)
          /\ UNCHANGED faulted
       \/ /\ "open" \in Faults
          /\ faulted' = faulted \union {"open"}
          /\ UNCHANGED <<file, present, eventCount, archives>>
    /\ write' = [write EXCEPT ![w] = "rotated"]
    /\ UNCHANGED <<log, torn, lock, readVars, taskVars, up, crashes, now, pace, acked>>

Spawn(w) ==
    /\ pushing' = IF PushEnabled THEN pushing \union {w} ELSE pushing
    /\ casting' = IF BroadcastEnabled THEN casting \union {w} ELSE casting
    /\ UNCHANGED arrived

\* Mutant: the early return after a failed write is missing.
AnnounceAnyway(w, ok) == Spawn(w)

\* The goroutines that Write leaves behind.
Announce(w, ok) == IF ok THEN Spawn(w) ELSE UNCHANGED taskVars

\* Mutant: the error path returns with the lock held.
UnlockForgotten(w, ok) == lock' = IF ok THEN Free ELSE Gone

Unlock(w, ok) == lock' = Free

\* The line is appended, or only a piece of it, or nothing.
AppendLine(w) ==
    \/ /\ file = "open"
       /\ log' = IF torn THEN [log EXCEPT ![Len(log)] = Torn] ELSE Append(log, w)
       /\ torn' = FALSE
       /\ eventCount' = eventCount + 1
       /\ pace' = IF w \in Big THEN MaxEvents ELSE pace + 1
       /\ acked' = Append(acked, w)
       /\ write' = [write EXCEPT ![w] = "acked"]
       /\ Announce(w, TRUE) /\ Unlock(w, TRUE)
       /\ UNCHANGED faulted
    \/ /\ file = "open" /\ "torn" \in Faults
       /\ log' = IF torn THEN log ELSE Append(log, Torn)
       /\ torn' = TRUE
       /\ faulted' = faulted \union {"torn"}
       /\ write' = [write EXCEPT ![w] = "failed"]
       /\ Announce(w, FALSE) /\ Unlock(w, FALSE)
       /\ UNCHANGED <<eventCount, pace, acked>>
    \/ /\ file # "open" \/ "write" \in Faults
       /\ faulted' = IF file = "open" THEN faulted \union {"write"} ELSE faulted
       /\ write' = [write EXCEPT ![w] = "failed"]
       /\ Announce(w, FALSE) /\ Unlock(w, FALSE)
       /\ UNCHANGED <<log, torn, eventCount, pace, acked>>

\* The rest of Write, after rotate or without it.
WriteLine(w) ==
    /\ \/ write[w] = "rotated"
       \/ write[w] = "writing" /\ lock = Free /\ ~ShouldRotate
    /\ AppendLine(w)
    /\ UNCHANGED <<present, archives, file, readVars, up, crashes, now>>

--------------------------------------------------------------------------------
(* Recent *)

\* The look at the file before the lock: nothing is read from a disabled logger.
RecentStart(r) ==
    /\ up /\ reading[r] = "idle" /\ file # "nil"
    /\ reading' = [reading EXCEPT ![r] = "reading"]
    /\ UNCHANGED <<fileVars, handleVars, lock, write, held, taskVars, procVars, pace, acked>>

\* Under the lock the file is opened by the name that l.file tells; an error, where
\* there is none, reads nothing.  l.file that became nil since panics, and the
\* server's recovery does not release the lock.
RecentOpen(r) ==
    /\ reading[r] = "reading" /\ lock = Free
    /\ \/ /\ file = "nil"
          /\ lock' = Gone /\ reading' = [reading EXCEPT ![r] = "panicked"]
       \/ /\ file # "nil" /\ UNCHANGED lock
          /\ reading' = [reading EXCEPT ![r] = IF present THEN "opened" ELSE "apart"]
    /\ UNCHANGED <<fileVars, handleVars, write, held, taskVars, procVars, pace, acked>>

\* After the unlock the lines are read, as they are then.
RecentRead(r) ==
    /\ reading[r] \in {"opened", "apart"}
    /\ reading' = [reading EXCEPT ![r] = "idle"]
    /\ held' = [held EXCEPT ![r] = <<>>]
    /\ UNCHANGED <<fileVars, handleVars, lock, write, taskVars, procVars, pace, acked>>

LinesFor(r) == IF reading[r] = "opened" THEN log ELSE held[r]

\* The lines that can be parsed, one after the other.
Parsed(lines) ==
    LET upTo[i \in 0 .. Len(lines)] ==
            IF i = 0 THEN <<>>
            ELSE IF lines[i] = Torn THEN upTo[i - 1] ELSE Append(upTo[i - 1], lines[i])
    IN  upTo[Len(lines)]

\* The last n lines without those that cannot be parsed, or none: one long line,
\* the last n or not, is an error.
Recent(lines, n) ==
    IF \E i \in DOMAIN lines : lines[i] \in Long THEN <<>>
    ELSE Parsed(SubSeq(lines, IF Len(lines) > n THEN Len(lines) - n + 1 ELSE 1, Len(lines)))

--------------------------------------------------------------------------------
(* The goroutines, and the process *)

\* Send tries once: the warden takes the entry, whatever the answer becomes, or does not.
Send(w) ==
    /\ w \in pushing
    /\ pushing' = pushing \ {w}
    /\ arrived' \in {arrived \union {w}} \union IF "push" \in Faults THEN {arrived} ELSE {}
    /\ UNCHANGED <<fileVars, handleVars, lock, write, readVars, casting, procVars, pace, acked>>

\* Part of a step of the module that has the hub (ApiStreams).
BroadcastDone(w) ==
    /\ w \in casting
    /\ casting' = casting \ {w}
    /\ UNCHANGED <<fileVars, handleVars, lock, write, readVars, pushing, arrived, procVars,
                   pace, acked>>

Tick ==
    /\ now < MaxSecond
    /\ now' = now + 1 /\ pace' = 0
    /\ UNCHANGED <<fileVars, handleVars, lock, write, readVars, taskVars, up, crashes, acked,
                   faulted>>

\* The process ends, at the end of a shutdown or not: only the files remain.
Exit ==
    /\ up /\ crashes < MaxCrashes
    /\ up' = FALSE /\ crashes' = crashes + 1
    /\ lock' = Free
    /\ file' = "closed"
    /\ write' = [w \in Entries |-> IF w \in InFlight THEN "lost" ELSE write[w]]
    /\ reading' = [r \in Readers |-> "idle"] /\ held' = [r \in Readers |-> <<>>]
    /\ pushing' = {} /\ casting' = {}
    /\ UNCHANGED <<fileVars, eventCount, arrived, now, pace, acked, faulted>>

\* Mutant: the lines already in the file are not counted.
CountedLinesNone == 0

\* The scanner stops at a line that is too long, and its error is not asked for.
CountedLines == Cardinality({i \in DOMAIN log : \A j \in 1 .. i : log[j] \notin Long})

\* New: the file is opened or created and its lines are counted, unless it cannot be
\* opened a second time to read them.
New ==
    /\ ~up
    /\ up' = TRUE
    /\ file' = "open" /\ present' = TRUE
    /\ \/ /\ eventCount' = CountedLines
          /\ faulted' = IF Lines \cap Long = {} THEN faulted ELSE faulted \union {"count"}
       \/ /\ "count" \in Faults
          /\ eventCount' = 0 /\ faulted' = faulted \union {"count"}
    /\ UNCHANGED <<log, torn, archives, lock, write, readVars, taskVars, crashes, now, pace, acked>>

Writing(w) == Rename(w) \/ OpenNew(w) \/ WriteLine(w)
Reading(r) == RecentStart(r) \/ RecentOpen(r) \/ RecentRead(r)

AuditNext ==
    \/ \E w \in Entries : WriteStart(w) \/ Writing(w) \/ Send(w)
    \/ \E r \in Readers : Reading(r)
    \/ Tick \/ Exit \/ New

AuditSpec ==
    /\ AuditInit /\ [][AuditNext]_auditVars
    /\ \A w \in Entries : WF_auditVars(Writing(w))

--------------------------------------------------------------------------------
(* Properties *)

AuditTypeOK ==
    /\ log \in Seq(Entries \union {Torn})
    /\ {present, torn, up} \subseteq BOOLEAN
    /\ DOMAIN archives \subseteq 0 .. now
    /\ \A s \in DOMAIN archives : archives[s] \in Seq(Entries \union {Torn})
    /\ file \in {"open", "closed", "nil"}
    /\ {eventCount, crashes, now, pace} \subseteq Nat
    /\ lock \in Entries \union {Free, Gone}
    /\ write \in [Entries -> {"new", "writing", "renamed", "rotated", "acked", "failed",
                              "ignored", "lost"}]
    /\ reading \in [Readers -> {"idle", "reading", "opened", "apart", "panicked"}]
    /\ held \in [Readers -> Seq(Entries \union {Torn})]
    /\ pushing \union casting \union arrived \subseteq Entries
    /\ acked \in Seq(Entries)
    /\ faulted \subseteq Faults \union {"count"}

Archived(e) == \E s \in DOMAIN archives : \E i \in DOMAIN archives[s] : archives[s][i] = e
Kept(e) == e \in Lines \/ Archived(e)

\* The entries that Write acknowledged and that are still in the files are the
\* last ones, and any is missing only because a full set of archives is newer,
\* across rotations, exits and restarts.  A piece of a line (Fprintf) spoils the
\* next entry, and a new file that cannot be opened (rotate) makes a rotation
\* repeat within the second and overwrite the archive; no other fault loses one.
JournalKept ==
    faulted \cap {"torn", "open"} = {} =>
        /\ \A i, j \in DOMAIN acked : i < j /\ Kept(acked[i]) => Kept(acked[j])
        /\ \A i \in DOMAIN acked :
            Kept(acked[i]) \/ Cardinality(DOMAIN archives) >= KeepArchives

\* The current file outgrows the limit only after a rename that failed or a start
\* whose count fell short (a line too long for the scanner, a file that could not be
\* opened twice): no other restart starts the count again, and a write that failed
\* leaves it wrong by no more than the piece of a line that it left.
FileBounded ==
    faulted \cap {"rename", "count"} = {} =>
        Len(log) <= MaxEvents + Cardinality({i \in DOMAIN log : log[i] = Torn})

\* What the warden or a stream is told was acknowledged to the writer before: an
\* entry that could not be written is never announced.
OnlyAcknowledged ==
    \A w \in pushing \union casting \union arrived : \E i \in DOMAIN acked : acked[i] = w

\* A Write that was begun returns, although rotations and writes fail, unless
\* a reader panicked with the lock.
WriteReturns ==
    \A w \in Entries : w \in InFlight ~> (w \notin InFlight \/ \E r \in Readers : reading[r] = "panicked")
================================================================================
