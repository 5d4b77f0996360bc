SPECIFICATION Spec
CONSTANTS
    a1 = a1
    a2 = a2
    a3 = a3
    Agents = {a1, a2, a3}
    MaxPasswords = 3
INVARIANTS
    TypeOK
    OnlyItsOwnAccount
    ManagedMeansOwned
    StoredUnlessLost
