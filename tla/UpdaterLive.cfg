\* The same callers under fairness; no operator unblocks the service.
CONSTANTS
    NumImages = 1
    Repo <- OwnRepos
    Aliased = {}
    Digests = {d1, d2}
    NoDigest = NoDigest
    Poller = poller
    Triggers = {t1}
    Verifiers = {v1}
    AutoStart = FALSE
    ComposeWatch = FALSE
    ForceRedeploy = FALSE
    Faults = {"registry", "up"}
    MaxPushes = 2
    MaxEdits = 0
    MaxRestarts = 0
SPECIFICATION FairSpec
PROPERTIES GuardReleased NoRollbackLoop UpdateSettles
