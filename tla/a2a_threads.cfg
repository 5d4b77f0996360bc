SPECIFICATION FairSpec
CONSTANTS
    a = a
    b = b
    op = op
    t1 = t1
    g1 = g1
    s1 = s1
    none = none
    Agents = {a, b, op}
    Operator = op
    Threads = {t1}
    Responder <- MCResponder
    Backing = {g1}
    HolderOf <- MCHolderOf
    Term <- MCTerm
    Sessions = {s1}
    SessionOf <- MCSessionOf
    None = none
    Delegated = {1}
    Duration = 2
    MayContain = {b}
    MayDisable = {b}
    MaxCalls = 2
    MaxMessages = 2
    MaxTime = 1
    MaxCrashes = 1
INVARIANTS
    TypeOK
    IssuesOnOpenThread
    OneVoicePerSide
    DelegatedWithinTerm
PROPERTIES
    MessagesCleared
    ClosedForGood
    EveryThreadEnds
    DelegationEnds
