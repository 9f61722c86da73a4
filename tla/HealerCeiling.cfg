\* A container that never becomes healthy: expected to violate RestartCeiling.
CONSTANTS
    Events = events
    Checks = {c1, c2}
    HealMaxRestarts = 1
    AutoHeal = TRUE
    LongCooldown = TRUE
    MaxChanges = 4
    MaxDeploys = 0
    MaxBoots = 0
SPECIFICATION Spec
SYMMETRY Symmetry
INVARIANTS RestartCeiling
CHECK_DEADLOCK FALSE
