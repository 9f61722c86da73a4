\* Two services, API changes, failed saves, kills, restarts and a wizard session.
CONSTANTS
    a = a
    ab = ab
    Names = {a, ab}
    Prefixes <- MCPrefixes
    Torn = Torn
    NoConfig = NoConfig
    PollIntervals = {7}
    StatsIntervals = {0}
    MinPoll = 10
    MaxPoll = 86400
    MinStats = 5
    DefaultPoll = 300
    Movable = {a}
    Definitions = {"valid"}
    MaxChanges = 2
    MaxStarts = 2
    MaxSessions = 1
SPECIFICATION Spec
INVARIANTS TypeOK AcknowledgedStored
PROPERTIES FileWhole EntriesLeave
CHECK_DEADLOCK FALSE
