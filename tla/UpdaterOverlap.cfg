\* Auto starts, compose drift and forced redeploys, none of which looks at the
\* guard, next to polls and triggers.
CONSTANTS
    NumImages = 1
    Repo <- OwnRepos
    Aliased = {}
    Digests = {d1, d2}
    NoDigest = NoDigest
    Poller = poller
    Triggers = {t1}
    Verifiers = {v1}
    AutoStart = TRUE
    ComposeWatch = TRUE
    ForceRedeploy = TRUE
    Faults = {"cancel", "unblock"}
    MaxPushes = 1
    MaxEdits = 1
    MaxRestarts = 1
SPECIFICATION Spec
SYMMETRY Symmetry
INVARIANTS NoLeakedGuard
