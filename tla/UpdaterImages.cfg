\* The poll loop alone on two tags of one repository, with containers that stop,
\* retags that fail, and an exit of the process at any point.
CONSTANTS
    NumImages = 2
    Repo <- LastShared
    Aliased = {}
    Digests = {d1, d2}
    NoDigest = NoDigest
    Poller = poller
    Triggers = {}
    Verifiers = {v1}
    AutoStart = FALSE
    ComposeWatch = FALSE
    ForceRedeploy = FALSE
    Faults = {"tag", "stop"}
    MaxPushes = 1
    MaxEdits = 0
    MaxRestarts = 1
SPECIFICATION Spec
SYMMETRY Symmetry
INVARIANTS TypeOK RollbackTagIntact RollbackRestores
PROPERTIES CycleSpec
