SPECIFICATION FairSpec
CONSTANTS
    a1 = a1
    r1 = r1
    t1 = t1
    t2 = t2
    t3 = t3
    Requests = {r1}
    Agents = {a1}
    Owner <- OneRequest
    Budgets = {1, 3}
    Tasks = {t1, t2, t3}
    MaxFaults = 2
INVARIANTS
    TypeOK
    VerdictsMatchRounds
    LlmDecidesLastRound
    ClearedHaveNothingWaiting
PROPERTIES
    HumanKeepsTheRequest
    ReviewEnds
