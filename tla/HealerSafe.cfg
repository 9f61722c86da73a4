\* Restarts, deploys and an exit of the process around one container.
CONSTANTS
    Events = events
    Checks = {c1, c2}
    HealMaxRestarts = 1
    AutoHeal = TRUE
    LongCooldown = FALSE
    MaxChanges = 3
    MaxDeploys = 1
    MaxBoots = 1
SPECIFICATION Spec
SYMMETRY Symmetry
INVARIANTS TypeOK RestartPaced Recovered
CHECK_DEADLOCK FALSE
