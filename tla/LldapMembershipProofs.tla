----------------------- MODULE LldapMembershipProofs ------------------------
(***************************************************************************)
(* Proofs about LldapMembership, for every set of grants on the group.     *)
(***************************************************************************)
EXTENDS LldapMembership, TLAPS

\* The initial states satisfy the inductive invariant.
LEMMA InitEstablishes == Init => IInv
  BY DEF Init, IInv, TypeOK, LiveSiblingsStayMembers, OneAtATime, TransactionsHold,
      MembershipBacked, Before, Adding, Removing, Stages, Backs

\* Every step keeps the inductive invariant: the advisory lock (Free) is what
\* adding and removing rest on.
LEMMA StepPreserves == IInv /\ [Next]_vars => IInv'
  <1> SUFFICES ASSUME IInv, [Next]_vars PROVE IInv'
    OBVIOUS
  <1> USE DirtyAssumption DEF IInv, TypeOK, LiveSiblingsStayMembers, OneAtATime, TransactionsHold,
      MembershipBacked, Before, Adding, Removing, Stages, Backs, To
  <1>1. ASSUME NEW g \in Grants, Begin(g) \/ AddStart(g) PROVE IInv'
    BY <1>1 DEF Begin, AddStart
  <1>2. ASSUME NEW g \in Grants, AddLock(g) PROVE IInv'
    BY <1>2 DEF AddLock, Free
  <1>3. ASSUME NEW g \in Grants, Added(g) PROVE IInv'
    BY <1>3 DEF Added
  <1>4. ASSUME NEW g \in Grants, AddOk(g) PROVE IInv'
    BY <1>4 DEF AddOk
  <1>5. ASSUME NEW g \in Grants, AddErr(g) PROVE IInv'
    BY <1>5 DEF AddErr
  <1>6. ASSUME NEW g \in Grants, AddSlow(g) PROVE IInv'
    BY <1>6 DEF AddSlow
  <1>7. ASSUME NEW g \in Grants, AddLost(g) PROVE IInv'
    BY <1>7 DEF AddLost
  <1>8. ASSUME NEW g \in Grants, RevokeStart(g) PROVE IInv'
    BY <1>8 DEF RevokeStart
  <1>9. ASSUME NEW g \in Grants, RevokeLock(g) PROVE IInv'
    BY <1>9 DEF RevokeLock, Free
  <1>10. ASSUME NEW g \in Grants, Remove(g) PROVE IInv'
    <2>1. UNCHANGED <<row, lapsed, seen, tried>> /\ op[g] = "remove" /\ op' = [op EXCEPT ![g] = "done"]
      BY <1>10 DEF Remove
    <2>2. CASE Kept(g)
      <3>1. member' = member
        BY <1>10, <2>2 DEF Remove
      <3>2. \E h \in Grants \ {g} : row[h] = "active"
        BY <2>2 DEF Kept
      <3> QED BY <2>1, <3>1, <3>2
    <2>3. CASE ~Kept(g)
      <3>1. member' = FALSE
        BY <1>10, <2>3 DEF Remove
      <3>2. \A h \in Grants \ {g} : row[h] = "active" => h \in lapsed
        BY <2>3 DEF Kept
      <3>3. row[g] = "active" => g \in tried
        BY <2>1
      <3>4. LiveSiblingsStayMembers'
        BY <2>1, <3>2, <3>3
      <3>5. \A h \in Grants : op'[h] # "added"
        BY <2>1
      <3>6. TypeOK' /\ OneAtATime'
        <4>1. member' \in BOOLEAN
          BY <3>1
        <4>2. op' \in [Grants -> Stages]
          BY <2>1
        <4>3. TypeOK'
          BY <2>1, <4>1, <4>2
        <4>4. OneAtATime'
          BY <2>1
        <4> QED BY <4>3, <4>4
      <3>7. TransactionsHold'
        BY <2>1, <3>1, <3>5
      <3>8. MembershipBacked'
        BY <3>1
      <3> QED BY <3>4, <3>6, <3>7, <3>8
    <2> QED BY <2>2, <2>3
  <1>11. ASSUME NEW g \in Grants, RevokeOk(g) PROVE IInv'
    BY <1>11 DEF RevokeOk
  <1>12. ASSUME NEW g \in Grants, RevokeFails(g) PROVE IInv'
    BY <1>12 DEF RevokeFails
  <1>13. ASSUME NEW g \in Grants, Lapse(g) PROVE IInv'
    BY <1>13 DEF Lapse
  <1>14. CASE Crash
    BY <1>14 DEF Crash
  <1>15. CASE UNCHANGED vars
    BY <1>15 DEF vars
  <1> HIDE DEF IInv
  <1> QED
    BY <1>1, <1>2, <1>3, <1>4, <1>5, <1>6, <1>7, <1>8, <1>9, <1>10, <1>11, <1>12, <1>13, <1>14, <1>15
       DEF Next, Step

\* The inductive invariant holds in every reachable state.
THEOREM Invariance == Spec => []IInv
  BY InitEstablishes, StepPreserves, PTL DEF Spec

\* The variables keep their types: the grant rows, the stages of the calls and
\* LLDAP's membership.
THEOREM TypeCorrect == Spec => []TypeOK
  <1>1. IInv => TypeOK
    BY DEF IInv
  <1> QED BY <1>1, Invariance, PTL

\* However many grants share the membership, ending one never takes it from a
\* live sibling.
THEOREM SiblingsKeepTheirAccess == Spec => []LiveSiblingsStayMembers
  <1>1. IInv => LiveSiblingsStayMembers
    BY DEF IInv
  <1> QED BY <1>1, Invariance, PTL

\* The membership goes with the last grant, as long as an add that LLDAP
\* applied is not reported as failed.
THEOREM MembershipEndsWithItsGrants == ~DirtyFailures => (Spec => []NoMembershipWithoutGrant)
  <1> SUFFICES ASSUME ~DirtyFailures PROVE Spec => []NoMembershipWithoutGrant
    OBVIOUS
  <1>1. IInv => NoMembershipWithoutGrant
    BY DEF IInv, MembershipBacked, Backs, NoMembershipWithoutGrant
  <1> QED BY <1>1, Invariance, PTL
=============================================================================
