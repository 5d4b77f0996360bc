SPECIFICATION Spec
CONSTANTS
    g1 = g1
    g2 = g2
    g3 = g3
    Grants = {g1, g2, g3}
    DirtyFailures = FALSE
SYMMETRY Symmetry
INVARIANTS
    TypeOK
    LiveSiblingsStayMembers
    NoMembershipWithoutGrant
