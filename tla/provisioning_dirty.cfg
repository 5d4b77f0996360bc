SPECIFICATION Spec
CONSTANTS
    a1 = a1
    a2 = a2
    g1 = g1
    g2 = g2
    Grants = {g1}
    Agents = {a1}
    Owner <- OneOwner
    Durations = {1}
    ReapAge = 1
    MaxTime = 1
    MaxCrashes = 0
    ConfigChanges = FALSE
    DirtyFailures = TRUE
INVARIANT FailedProvisionLeavesNothing
