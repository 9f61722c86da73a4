\* A push, a heartbeat and three streams in one process.
CONSTANTS
    c1 = c1
    c2 = c2
    c3 = c3
    near = near
    far = far
    NoEntry = NoEntry
    Broken = Broken
    Clients = {c1, c2, c3}
    Addresses = {near, far}
    AddressOf <- MCAddressOf
    MaxPerIP = 1
    MaxTotal = 2
    BufferSize = 1
    Requests = {r1}
    NumAgents = 1
    RingSize = 3
    ReplaySize = 2
    Faults = {}
    MaxPushes = 1
    MaxRounds = 1
    MaxStops = 0
SPECIFICATION Spec
SYMMETRY Symmetry
INVARIANTS LimitsKept StreamComplete AgentEventsInOrder
CHECK_DEADLOCK FALSE
