\* Two operations, a client and another reader of the log.
CONSTANTS
    here = here
    Entries = {e1, e2}
    Big = {e1}
    Long = {e1}
    Clients = {c1}
    Readers = {c1, r1}
    Addresses = {here}
    AddressOf <- MCAddressOf
    MaxPerIP = 1
    MaxTotal = 1
    BufferSize = 1
    ReplaySize = 1
    Torn = Torn
    Free = Free
    Gone = Gone
    MaxEvents = 2
    KeepArchives = 1
    PushEnabled = FALSE
    BroadcastEnabled = TRUE
    Faults = {}
    MaxSecond = 1
    MaxCrashes = 1
SPECIFICATION Spec
INVARIANTS TypeOK NoGap RepeatsOnlyOverlap StatusFresh
PROPERTIES StatusCatchesUp
CHECK_DEADLOCK FALSE
