SPECIFICATION FairSpec
CONSTANTS
    a1 = a1
    a2 = a2
    g1 = g1
    g2 = g2
    Grants = {g1}
    Agents = {a1}
    Owner <- OneOwner
    Durations = {1, 2}
    ReapAge = 1
    MaxTime = 2
    MaxCrashes = 1
    ConfigChanges = FALSE
    DirtyFailures = FALSE
PROPERTIES
    ProvisioningEnds
    HeldGrantsEnd
