\* Polls and manual triggers only: every operation goes through the guard.  The
\* compose files name the image by a reference of their own, and another service
\* uses its repository.
CONSTANTS
    NumImages = 1
    Repo <- OwnRepos
    Aliased = {1}
    Digests = {d1, d2}
    NoDigest = NoDigest
    Poller = poller
    Triggers = {t1}
    Verifiers = {v1, v2}
    AutoStart = FALSE
    ComposeWatch = FALSE
    ForceRedeploy = FALSE
    Faults = {"pull", "up", "tag", "down", "shared"}
    MaxPushes = 1
    MaxEdits = 0
    MaxRestarts = 0
SPECIFICATION Spec
SYMMETRY Symmetry
INVARIANTS GuardInv RollbackTagIntact RollbackRestores
PROPERTIES CycleSpec
