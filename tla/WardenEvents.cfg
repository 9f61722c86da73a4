\* Pushes, heartbeats of two agents, saves that fail, exits and kills; no stream is open.
CONSTANTS
    c1 = c1
    c2 = c2
    c3 = c3
    near = near
    far = far
    NoEntry = NoEntry
    Broken = Broken
    Clients = {}
    Addresses = {near, far}
    AddressOf <- MCAddressOf
    MaxPerIP = 1
    MaxTotal = 1
    BufferSize = 1
    Requests = {r1}
    NumAgents = 2
    RingSize = 3
    ReplaySize = 2
    Faults = {"save", "kill"}
    MaxPushes = 1
    MaxRounds = 1
    MaxStops = 2
SPECIFICATION Spec
SYMMETRY Symmetry
INVARIANTS TypeOK AgentStory
PROPERTIES EventsKept
CHECK_DEADLOCK FALSE
