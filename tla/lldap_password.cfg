SPECIFICATION Spec
CONSTANTS
    a1 = a1
    a2 = a2
    a3 = a3
    Agents = {a1}
    MaxPasswords = 2
INVARIANT StoredIsLastSet
