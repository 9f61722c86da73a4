\* Four entries, one that fills the file and one too long to be read, and one reader; the file operations may fail, a
\* write with a piece of its line left or because the file is closed.
CONSTANTS
    Entries = {e1, e2, e3, e4}
    Big = {e4}
    Long = {e3}
    Readers = {r1}
    Torn = Torn
    Free = Free
    Gone = Gone
    MaxEvents = 2
    KeepArchives = 1
    PushEnabled = TRUE
    BroadcastEnabled = FALSE
    Faults = {"rename", "reopen", "open", "torn", "count"}
    MaxSecond = 2
    MaxCrashes = 1
SPECIFICATION AuditSpec
INVARIANTS AuditTypeOK JournalKept FileBounded OnlyAcknowledged
PROPERTIES WriteReturns
CHECK_DEADLOCK FALSE
