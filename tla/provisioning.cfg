SPECIFICATION Spec
CONSTANTS
    a1 = a1
    a2 = a2
    g1 = g1
    g2 = g2
    Grants = {g1, g2}
    Agents = {a1}
    Owner <- SameOwner
    Durations = {1}
    ReapAge = 1
    MaxTime = 1
    MaxCrashes = 1
    ConfigChanges = TRUE
    DirtyFailures = FALSE
INVARIANTS
    TypeOK
    NoOrphanAccess
    HeldGrantsAreDue
    MintingIsCovered
    RequestAgreesWithGrant
    FinishingIsCovered
PROPERTIES
    KeepsPromise
