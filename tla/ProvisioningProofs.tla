------------------------- MODULE ProvisioningProofs -------------------------
(***************************************************************************)
(* Proofs about Provisioning, for every set of agents and grants and every *)
(* value of the other constants.                                           *)
(***************************************************************************)
EXTENDS Provisioning, TLAPS

\* The initial states satisfy the inductive invariant.
LEMMA InitEstablishes == Init => IInv
  BY OwnerAssumption DEF Init, IInv, TypeOK, AccessIsAccountedFor, HeldGrantsAreDue, MintingIsCovered,
       RequestAgreesWithGrant, FinishingIsCovered, AbandonedHaveEnded, InFlight, Held,
       RequestStatus, GrantStatus, TaskStage, FollowStage

\* Every step keeps the types, whatever else holds.
LEMMA TypePreserved == TypeOK /\ [Next]_vars => TypeOK'
  <1> SUFFICES ASSUME TypeOK, [Next]_vars PROVE TypeOK'
    OBVIOUS
  <1> USE OwnerAssumption, DurationAssumption, BoundAssumption
      DEF TypeOK, RequestStatus, GrantStatus, TaskStage, FollowStage, hold, rows, sweeps, world
  <1>1. ASSUME NEW A \in SUBSET Agents, Contain(A) \/ Disable(A) PROVE TypeOK'
    BY <1>1 DEF Contain, Disable, ExpireNowOf, Least
  <1>2. ASSUME NEW a \in Agents, Lift(a) \/ Enable(a) PROVE TypeOK'
    BY <1>2 DEF Lift, Enable
  <1>3. ASSUME NEW g \in Grants, Deny(g) \/ ApproveRefused(g) PROVE TypeOK'
    BY <1>3 DEF Deny, ApproveRefused
  <1>4. ASSUME NEW g \in Grants, AdminRevoke(g) PROVE TypeOK'
    BY <1>4 DEF AdminRevoke, RevokeDone, RevokeFailed, Undone, UndoFails, End
  <1>5. ASSUME NEW g \in Grants, NEW d \in Durations, Approve(g, d) PROVE TypeOK'
    BY <1>5 DEF Approve
  <1>6. ASSUME NEW g \in Grants, FinishStep(g) PROVE TypeOK'
    <2>1. CASE FinishPrepare(g) \/ FinishCheck(g)
      BY <2>1 DEF FinishPrepare, FinishCheck, SetTask, FailRows
    <2>2. CASE ProvisionApplied(g)
      BY <2>2 DEF ProvisionApplied, SetTask
    <2>7. CASE ProvisionOk(g)
      BY <2>7 DEF ProvisionOk, SetTask
    <2>6. CASE ProvisionErr(g) \/ FinishRecord(g)
      BY <2>6, SwitchAssumption DEF ProvisionErr, FinishRecord, SetTask, FailRows
    <2>3. CASE ProvisionSlow(g)
      BY <2>3 DEF ProvisionSlow, SetTask, FailRows, Undone, UndoFails
    <2>4. CASE FinishLost(g) \/ FinishPost(g)
      BY <2>4 DEF FinishLost, FinishPost, SetTask
    <2>5. CASE FinishRevoke(g)
      BY <2>5 DEF FinishRevoke, RevokeDone, RevokeFailed, Undone, UndoFails, End, SetTask
    <2> QED BY <1>6, <2>1, <2>2, <2>3, <2>4, <2>5, <2>6, <2>7 DEF FinishStep
  <1>7. ASSUME NEW g \in Grants, MintBegin(g) \/ MintEnd(g) \/ ExpireNow(g) PROVE TypeOK'
    <2>1. CASE MintBegin(g)
      BY <2>1 DEF MintBegin
    <2>2. CASE MintEnd(g)
      BY <2>2 DEF MintEnd
    <2>3. CASE ExpireNow(g)
      BY <2>3 DEF ExpireNow, Least
    <2> QED BY <1>7, <2>1, <2>2, <2>3
  <1>8. ASSUME NEW a \in Agents, FollowNext(a) PROVE TypeOK'
    BY <1>8 DEF FollowNext, Mine
  <1>9. ASSUME NEW a \in Agents, NEW g \in Grants,
               FollowDeny(a, g) \/ FollowReap(a, g) \/ FollowRevoke(a, g) \/ FollowSkip(a, g)
        PROVE TypeOK'
    <2>1. CASE FollowDeny(a, g) \/ FollowSkip(a, g)
      BY <2>1 DEF FollowDeny, FollowSkip, Reached
    <2>2. CASE FollowReap(a, g)
      BY <2>2 DEF FollowReap, Reached, ReapDone, ReapFailed, Undone, UndoFails, FailRows
    <2>3. CASE FollowRevoke(a, g)
      BY <2>3 DEF FollowRevoke, Reached, RevokeDone, RevokeFailed, Undone, UndoFails, End
    <2> QED BY <1>9, <2>1, <2>2, <2>3
  <1>10. ASSUME NEW g \in Grants, ReapStale(g) \/ ReapStaleFails(g) PROVE TypeOK'
    BY <1>10 DEF ReapStale, ReapStaleFails, ReapDone, ReapFailed, Undone, UndoFails, FailRows
  <1>11. ASSUME NEW g \in Grants, Expire(g) \/ ExpireFails(g) \/ SweepHeld(g) PROVE TypeOK'
    BY <1>11 DEF Expire, ExpireFails, SweepHeld, RevokeDone, RevokeFailed, Undone, UndoFails, End
  <1>12. CASE Crash
    BY <1>12 DEF Crash, Unconfigured
  <1>13. CASE BootDone \/ Tick
    BY <1>13 DEF BootDone, Tick
  <1>14. CASE UNCHANGED vars
    BY <1>14 DEF vars
  <1> QED
    BY <1>1, <1>2, <1>3, <1>4, <1>5, <1>6, <1>7, <1>8, <1>9, <1>10, <1>11, <1>12, <1>13, <1>14
       DEF Next, Operator, FollowStep, Scheduler

\* Every step keeps the inductive invariant: the locks of a finishing or minting
\* transaction (Unlocked, NoCheckInFlight) are what each case rests on.
LEMMA StepPreserves == IInv /\ [Next]_vars => IInv'
  <1> SUFFICES ASSUME IInv, [Next]_vars PROVE IInv'
    OBVIOUS
  <1>0. TypeOK /\ TypeOK'
    BY TypePreserved DEF IInv
  <1> USE <1>0, OwnerAssumption, DurationAssumption, BoundAssumption, SwitchAssumption
      DEF IInv, TypeOK, RequestStatus, GrantStatus, TaskStage, FollowStage, hold, rows, sweeps, world,
          AccessIsAccountedFor, HeldGrantsAreDue, MintingIsCovered, RequestAgreesWithGrant,
          FinishingIsCovered, AbandonedHaveEnded, InFlight, Held
  <1>1. ASSUME NEW A \in SUBSET Agents, Contain(A) \/ Disable(A) PROVE IInv'
    BY <1>1 DEF Contain, Disable, ExpireNowOf, Least, NoCheckInFlight, Unlocked
  <1>2. ASSUME NEW a \in Agents, Lift(a) \/ Enable(a) PROVE IInv'
    BY <1>2 DEF Lift, Enable, NoCheckInFlight, Unlocked
  <1>3. ASSUME NEW g \in Grants, Deny(g) \/ ApproveRefused(g) PROVE IInv'
    BY <1>3 DEF Deny, ApproveRefused
  <1>4. ASSUME NEW g \in Grants, AdminRevoke(g) PROVE IInv'
    BY <1>4 DEF AdminRevoke, RevokeDone, RevokeFailed, Undone, UndoFails, End, Unlocked
  <1>5. ASSUME NEW g \in Grants, NEW d \in Durations, Approve(g, d) PROVE IInv'
    BY <1>5 DEF Approve
  <1>6. ASSUME NEW g \in Grants, FinishPrepare(g) \/ FinishCheck(g) PROVE IInv'
    BY <1>6 DEF FinishPrepare, FinishCheck, SetTask, FailRows
  <1>7. ASSUME NEW g \in Grants, ProvisionApplied(g) PROVE IInv'
    BY <1>7 DEF ProvisionApplied, SetTask
  <1>8. ASSUME NEW g \in Grants, ProvisionOk(g) PROVE IInv'
    BY <1>8 DEF ProvisionOk, SetTask
  <1>9. ASSUME NEW g \in Grants, ProvisionErr(g) PROVE IInv'
    BY <1>9 DEF ProvisionErr, SetTask, FailRows
  <1>26. ASSUME NEW g \in Grants, FinishRecord(g) PROVE IInv'
    BY <1>26 DEF FinishRecord, SetTask, FailRows
  <1>10. ASSUME NEW g \in Grants, ProvisionSlow(g) PROVE IInv'
    BY <1>10 DEF ProvisionSlow, SetTask, FailRows, Undone, UndoFails
  <1>11. ASSUME NEW g \in Grants, FinishLost(g) \/ FinishPost(g) PROVE IInv'
    BY <1>11 DEF FinishLost, FinishPost, SetTask
  <1>12. ASSUME NEW g \in Grants, FinishRevoke(g) PROVE IInv'
    BY <1>12 DEF FinishRevoke, RevokeDone, RevokeFailed, Undone, UndoFails, End, SetTask, Unlocked
  <1>13. ASSUME NEW g \in Grants, MintBegin(g) PROVE IInv'
    BY <1>13 DEF MintBegin
  <1>14. ASSUME NEW g \in Grants, MintEnd(g) PROVE IInv'
    BY <1>14 DEF MintEnd
  <1>15. ASSUME NEW g \in Grants, ExpireNow(g) PROVE IInv'
    BY <1>15 DEF ExpireNow, Least
  <1>16. ASSUME NEW a \in Agents, FollowNext(a) PROVE IInv'
    BY <1>16 DEF FollowNext, Mine
  <1>17. ASSUME NEW a \in Agents, NEW g \in Grants, FollowDeny(a, g) \/ FollowSkip(a, g) PROVE IInv'
    BY <1>17 DEF FollowDeny, FollowSkip, Reached
  <1>18. ASSUME NEW a \in Agents, NEW g \in Grants, FollowReap(a, g) PROVE IInv'
    BY <1>18 DEF FollowReap, Reached, ReapDone, ReapFailed, Undone, UndoFails, FailRows, Unlocked
  <1>19. ASSUME NEW a \in Agents, NEW g \in Grants, FollowRevoke(a, g) PROVE IInv'
    BY <1>19 DEF FollowRevoke, Reached, RevokeDone, RevokeFailed, Undone, UndoFails, End, Unlocked
  <1>20. ASSUME NEW g \in Grants, ReapStale(g) \/ ReapStaleFails(g) PROVE IInv'
    BY <1>20 DEF ReapStale, ReapStaleFails, ReapDone, ReapFailed, Undone, UndoFails, FailRows, Unlocked
  <1>21. ASSUME NEW g \in Grants, Expire(g) \/ ExpireFails(g) PROVE IInv'
    BY <1>21 DEF Expire, ExpireFails, Due, Undone, UndoFails, End, Unlocked
  <1>22. ASSUME NEW g \in Grants, SweepHeld(g) PROVE IInv'
    BY <1>22 DEF SweepHeld, RevokeDone, RevokeFailed, Undone, UndoFails, End, Unlocked
  <1>23. CASE Crash
    BY <1>23 DEF Crash, Unconfigured
  <1>24. CASE BootDone \/ Tick
    BY <1>24 DEF BootDone, Tick
  <1>25. CASE UNCHANGED vars
    BY <1>25 DEF vars
  <1> HIDE DEF IInv
  <1> QED
    BY <1>1, <1>2, <1>3, <1>4, <1>5, <1>6, <1>7, <1>8, <1>9, <1>10, <1>11, <1>12, <1>13, <1>14,
       <1>15, <1>16, <1>17, <1>18, <1>19, <1>20, <1>21, <1>22, <1>23, <1>24, <1>25, <1>26
       DEF Next, Operator, FinishStep, FollowStep, Scheduler

\* The inductive invariant holds in every reachable state.
THEOREM Invariance == Spec => []IInv
  BY InitEstablishes, StepPreserves, PTL DEF Spec

\* The type invariant holds for every set of grants and agents.
THEOREM TypeCorrect == Spec => []TypeOK
  <1>1. IInv => TypeOK
    BY DEF IInv
  <1> QED BY <1>1, Invariance, PTL

\* finish_inner, the reaper, revocation, expiry and a crash never leave access
\* on a platform without a row that will remove it, as long as a provisioner
\* that reports an error has undone what it made.
THEOREM NoOrphans == ~DirtyFailures => (Spec => []NoOrphanAccess)
  <1> SUFFICES ASSUME ~DirtyFailures PROVE Spec => []NoOrphanAccess
    OBVIOUS
  <1>1. IInv => NoOrphanAccess
    BY DEF IInv, AccessIsAccountedFor, NoOrphanAccess
  <1> QED BY <1>1, Invariance, PTL

\* Activation never slips past a containment: a held agent's active grant is
\* past its expiry, however finishing, containment and disabling interleave.
THEOREM HeldAgentsHaveNoLiveGrant == Spec => []HeldGrantsAreDue
  <1>1. IInv => HeldGrantsAreDue
    BY DEF IInv
  <1> QED BY <1>1, Invariance, PTL

\* No containment, revoke, expiry or disable commits between issuable's check
\* and the hand-out of the credential.
THEOREM MintingNeverOutlivesItsGrant == Spec => []MintingIsCovered
  <1>1. IInv => MintingIsCovered
    BY DEF IInv
  <1> QED BY <1>1, Invariance, PTL

\* The request's status and the grant's never disagree.
THEOREM RequestAndGrantAgree == Spec => []RequestAgreesWithGrant
  <1>1. IInv => RequestAgreesWithGrant
    BY DEF IInv
  <1> QED BY <1>1, Invariance, PTL

\* Nothing ends a grant, or holds its agent, while its provisioner runs.
THEOREM FinishingIsNeverUndercut == Spec => []FinishingIsCovered
  <1>1. IInv => FinishingIsCovered
    BY DEF IInv
  <1> QED BY <1>1, Invariance, PTL

(***************************************************************************)
(* The refinement: Provisioning implements AccessPromise.                  *)
(***************************************************************************)

\* The phase of a grant is decided by its own row, request and abandonment.
LEMMA PhaseIsLocal ==
  ASSUME NEW g \in Grants, NEW p, Phase(g)' = p,
         \A h \in Grants \ {g} : row'[h] = row[h] /\ req'[h] = req[h] /\ (h \in abandoned' <=> h \in abandoned)
  PROVE  PhaseMap' = [PhaseMap EXCEPT ![g] = p]
  <1>1. \A h \in Grants \ {g} : Phase(h)' = Phase(h)
    BY DEF Phase
  <1> QED BY <1>1 DEF PhaseMap

\* A step that leaves rows, requests and access alone is a stutter.
LEMMA PhaseStutters ==
  ASSUME UNCHANGED <<req, row, abandoned, ext>>
  PROVE  UNCHANGED <<PhaseMap, ext>>
  BY DEF PhaseMap, Phase

\* What the phases of the live rows are.
LEMMA PhaseOfRow ==
  ASSUME NEW g \in Grants, IInv
  PROVE  /\ row[g] = "provisioning" => Phase(g) = "working"
         /\ row[g] = "active" => Phase(g) = "granted"
         /\ row[g] = "none" /\ req[g] = "open" => Phase(g) = "asked"
         /\ PhaseMap[g] = Phase(g)
  BY DEF IInv, AbandonedHaveEnded, Phase, PhaseMap

\* An undo that the platform did not confirm shows as nothing or as Vanish.
LEMMA UndoFailsIsAllowed ==
  ASSUME NEW g \in Grants, IInv, UndoFails(g), UNCHANGED <<req, row, abandoned>>,
         row[g] \in {"provisioning", "active"}
  PROVE  [Promise!Next]_<<PhaseMap, ext>>
  <1>1. UNCHANGED PhaseMap
    BY DEF PhaseMap, Phase
  <1>2. CASE ext' = ext
    BY <1>1, <1>2
  <1>3. CASE ext' = [ext EXCEPT ![g] = FALSE]
    <2>1. PhaseMap[g] \in {"working", "granted"}
      BY PhaseOfRow
    <2>2. Promise!Vanish(g)
      BY <1>1, <1>3, <2>1 DEF Promise!Vanish
    <2> QED BY <2>2 DEF Promise!Next
  <1> QED BY <1>2, <1>3 DEF UndoFails

\* Ending a live row after the undo shows as Finish, or as Abandon when the
\* platform is retired.
LEMMA EndingIsAllowed ==
  ASSUME NEW g \in Grants, IInv, IInv', Undone(g),
         row[g] \in {"provisioning", "active"},
         row[g] = "provisioning" => row'[g] = "provision_failed",
         row[g] = "active" => row'[g] \in {"expired", "revoked"},
         \A h \in Grants \ {g} : row'[h] = row[h] /\ req'[h] = req[h]
  PROVE  [Promise!Next]_<<PhaseMap, ext>>
  <1>1. PhaseMap[g] = IF row[g] = "provisioning" THEN "working" ELSE "granted"
    BY PhaseOfRow
  <1>2. g \notin abandoned
    BY DEF IInv, AbandonedHaveEnded
  <1>3. CASE registry = "enabled"
    <2>1. ext' = [ext EXCEPT ![g] = FALSE] /\ abandoned' = abandoned
      BY <1>3 DEF Undone
    <2>2. Phase(g)' = IF row[g] = "provisioning" THEN "refused" ELSE "over"
      BY <1>2, <2>1 DEF Phase
    <2>3. PhaseMap' = [PhaseMap EXCEPT ![g] = IF row[g] = "provisioning" THEN "refused" ELSE "over"]
      BY <2>1, <2>2, PhaseIsLocal
    <2>4. Promise!Finish(g)
      <3>1. PhaseMap[g] \in {"working", "granted"} /\ (PhaseMap[g] = "working" <=> row[g] = "provisioning")
        BY <1>1
      <3>2. PhaseMap' = [PhaseMap EXCEPT ![g] = IF PhaseMap[g] = "working" THEN "refused" ELSE "over"]
        BY <2>3, <3>1
      <3> QED BY <2>1, <3>1, <3>2, Zenon DEF Promise!Finish, Promise!To
    <2> QED BY <2>4 DEF Promise!Next
  <1>4. CASE registry = "retired"
    <2>1. ext' = ext /\ abandoned' = abandoned \cup {g}
      BY <1>4 DEF Undone
    <2>2. Phase(g)' = "abandoned"
      BY <2>1 DEF Phase
    <2>3. PhaseMap' = [PhaseMap EXCEPT ![g] = "abandoned"]
      BY <2>1, <2>2, PhaseIsLocal
    <2>4. Promise!Abandon(g)
      BY <1>1, <2>1, <2>3 DEF Promise!Abandon, Promise!To
    <2> QED BY <2>4 DEF Promise!Next
  <1> QED BY <1>3, <1>4 DEF Undone

\* A decision shows as Decide.
LEMMA DecidingIsAllowed ==
  ASSUME NEW g \in Grants, IInv, req[g] = "open", UNCHANGED <<abandoned, ext>>,
         \/ row'[g] = "provisioning"
         \/ row'[g] = "none" /\ req'[g] \in {"denied", "provision_failed"},
         \A h \in Grants \ {g} : row'[h] = row[h] /\ req'[h] = req[h]
  PROVE  [Promise!Next]_<<PhaseMap, ext>>
  <1>1. row[g] = "none"
    BY DEF IInv, TypeOK, GrantStatus, RequestAgreesWithGrant
  <1>2. PhaseMap[g] = "asked" /\ g \notin abandoned
    BY <1>1, PhaseOfRow DEF IInv, AbandonedHaveEnded
  <1>3. Phase(g)' \in {"working", "refused"}
    BY <1>2 DEF Phase
  <1>4. PhaseMap' = [PhaseMap EXCEPT ![g] = Phase(g)']
    BY PhaseIsLocal
  <1>5. Promise!Decide(g)
    BY <1>2, <1>3, <1>4 DEF Promise!Decide, Promise!To
  <1> QED BY <1>5 DEF Promise!Next

\* A PROVISIONING row that fails with nothing left on the platform shows as Finish.
LEMMA FailingIsAllowed ==
  ASSUME NEW g \in Grants, IInv, row[g] = "provisioning", FailRows(g), abandoned' = abandoned,
         ext' = [ext EXCEPT ![g] = FALSE]
  PROVE  [Promise!Next]_<<PhaseMap, ext>>
  <1>1. PhaseMap[g] = "working" /\ g \notin abandoned
    BY PhaseOfRow DEF IInv, AbandonedHaveEnded
  <1>2. Phase(g)' = "refused"
    BY <1>1 DEF Phase, FailRows, IInv, TypeOK
  <1>3. PhaseMap' = [PhaseMap EXCEPT ![g] = "refused"]
    BY <1>2, PhaseIsLocal DEF FailRows, IInv, TypeOK
  <1>4. Promise!Finish(g)
    BY <1>1, <1>3 DEF Promise!Finish, Promise!To
  <1> QED BY <1>4 DEF Promise!Next

\* revoke_grant, whoever calls it.
LEMMA RevokingIsAllowed ==
  ASSUME NEW g \in Grants, IInv, IInv', RevokeDone(g) \/ RevokeFailed(g)
  PROVE  [Promise!Next]_<<PhaseMap, ext>>
  <1>1. CASE RevokeDone(g)
    BY <1>1, EndingIsAllowed DEF RevokeDone, End, IInv, TypeOK
  <1>2. CASE RevokeFailed(g)
    BY <1>2, UndoFailsIsAllowed DEF RevokeFailed, rows
  <1> QED BY <1>1, <1>2

\* reap_one, whoever calls it.
LEMMA ReapingIsAllowed ==
  ASSUME NEW g \in Grants, IInv, IInv', ReapDone(g) \/ ReapFailed(g)
  PROVE  [Promise!Next]_<<PhaseMap, ext>>
  <1>1. CASE ReapDone(g)
    BY <1>1, EndingIsAllowed DEF ReapDone, FailRows, IInv, TypeOK
  <1>2. CASE ReapFailed(g)
    BY <1>2, UndoFailsIsAllowed DEF ReapFailed, rows
  <1> QED BY <1>1, <1>2

\* The initial states of Provisioning are initial states of AccessPromise.
LEMMA PromiseInit == Init => Promise!Init
  BY DEF Init, Promise!Init, PhaseMap, Phase

\* Every step of Provisioning is a step of AccessPromise or invisible to it.
LEMMA PromiseStep ==
  ASSUME ~DirtyFailures, IInv, [Next]_vars
  PROVE  [Promise!Next]_<<PhaseMap, ext>>
  <1>0. IInv'
    BY StepPreserves
  <1> DEFINE Allowed == [Promise!Next]_<<PhaseMap, ext>>
  <1> SUFFICES Allowed
    OBVIOUS
  <1>1. ASSUME UNCHANGED <<req, row, abandoned, ext>> PROVE Allowed
    BY <1>1, PhaseStutters
  <1> HIDE DEF Allowed
  <1> USE DEF rows
  <1>2. ASSUME NEW A \in SUBSET Agents, Contain(A) \/ Disable(A) PROVE Allowed
    BY <1>1, <1>2 DEF Contain, Disable
  <1>3. ASSUME NEW a \in Agents, Lift(a) \/ Enable(a) PROVE Allowed
    BY <1>1, <1>3 DEF Lift, Enable
  <1>4. ASSUME NEW g \in Grants, Deny(g) \/ ApproveRefused(g) PROVE Allowed
    BY <1>4, DecidingIsAllowed DEF Deny, ApproveRefused, IInv, TypeOK, GrantStatus, RequestAgreesWithGrant, Allowed
  <1>5. ASSUME NEW g \in Grants, NEW d \in Durations, Approve(g, d) PROVE Allowed
    BY <1>5, DecidingIsAllowed DEF Approve, IInv, TypeOK, Allowed
  <1>6. ASSUME NEW g \in Grants, FinishPrepare(g) \/ FinishLost(g) \/ FinishPost(g) PROVE Allowed
    BY <1>1, <1>6 DEF FinishPrepare, FinishLost, FinishPost
  <1>7. ASSUME NEW g \in Grants, FinishCheck(g) PROVE Allowed
    <2>1. CASE UNCHANGED <<req, row>>
      BY <1>1, <1>7, <2>1 DEF FinishCheck
    <2>2. CASE row[g] = "provisioning" /\ FailRows(g)
      <3>1. ext[g] = FALSE
        BY <1>7 DEF FinishCheck, IInv, TypeOK, FinishingIsCovered
      <3>2. ext' = [ext EXCEPT ![g] = FALSE] /\ abandoned' = abandoned
        BY <1>7, <3>1 DEF FinishCheck, IInv, TypeOK
      <3> QED BY <2>2, <3>2, FailingIsAllowed DEF Allowed
    <2> QED BY <1>7, <2>1, <2>2 DEF FinishCheck
  <1>8. ASSUME NEW g \in Grants, ProvisionApplied(g) PROVE Allowed
    <2>1. PhaseMap[g] = "working"
      BY <1>8, PhaseOfRow DEF ProvisionApplied, IInv, FinishingIsCovered, InFlight
    <2>2. PhaseMap' = PhaseMap
      BY <1>8 DEF ProvisionApplied, PhaseMap, Phase
    <2>3. Promise!Appear(g)
      BY <1>8, <2>1, <2>2 DEF ProvisionApplied, Promise!Appear
    <2> QED BY <2>3 DEF Promise!Next, Allowed
  <1>9. ASSUME NEW g \in Grants, ProvisionOk(g) PROVE Allowed
    <2>1. row[g] = "provisioning" /\ ext[g] /\ ext' = ext /\ abandoned' = abandoned
      BY <1>9 DEF ProvisionOk, IInv, FinishingIsCovered, InFlight
    <2>2. PhaseMap[g] = "working" /\ g \notin abandoned
      BY <2>1, PhaseOfRow DEF IInv, AbandonedHaveEnded
    <2>3. Phase(g)' = "granted"
      BY <1>9, <2>1, <2>2 DEF ProvisionOk, Phase, IInv, TypeOK
    <2>4. PhaseMap' = [PhaseMap EXCEPT ![g] = "granted"]
      BY <1>9, <2>1, <2>3, PhaseIsLocal DEF ProvisionOk, IInv, TypeOK
    <2>5. Promise!Grant(g)
      BY <2>1, <2>2, <2>4 DEF Promise!Grant, Promise!To
    <2> QED BY <2>5 DEF Promise!Next, Allowed
  <1>10. ASSUME NEW g \in Grants, ProvisionErr(g) PROVE Allowed
    <2>1. row[g] = "provisioning" /\ registry = "enabled" /\ abandoned' = abandoned
      BY <1>10 DEF ProvisionErr, IInv, FinishingIsCovered
    <2>2. ext' = [ext EXCEPT ![g] = FALSE]
      BY <1>10 DEF ProvisionErr
    <2>3. CASE FailRows(g)
      BY <2>1, <2>2, <2>3, FailingIsAllowed DEF Allowed
    <2>4. CASE UNCHANGED <<req, row>>
      BY <2>1, <2>2, <2>4, UndoFailsIsAllowed DEF UndoFails, Allowed
    <2> QED BY <1>10, <2>3, <2>4 DEF ProvisionErr
  <1>23. ASSUME NEW g \in Grants, FinishRecord(g) PROVE Allowed
    <2>1. abandoned' = abandoned /\ ext' = ext
      BY <1>23 DEF FinishRecord
    <2>2. CASE UNCHANGED <<req, row>>
      BY <1>1, <2>1, <2>2
    <2>3. CASE row[g] = "provisioning" /\ FailRows(g)
      <3>1. ext' = [ext EXCEPT ![g] = FALSE]
        BY <1>23, <2>1 DEF FinishRecord, IInv, TypeOK, FinishingIsCovered
      <3> QED BY <2>1, <2>3, <3>1, FailingIsAllowed DEF Allowed
    <2> QED BY <1>23, <2>2, <2>3 DEF FinishRecord
  <1>11. ASSUME NEW g \in Grants, ProvisionSlow(g) PROVE Allowed
    <2>1. row[g] = "provisioning" /\ registry = "enabled"
      BY <1>11 DEF ProvisionSlow, IInv, FinishingIsCovered
    <2>2. CASE Undone(g) /\ FailRows(g)
      BY <2>1, <2>2, FailingIsAllowed DEF Undone, Allowed
    <2>3. CASE UndoFails(g) /\ UNCHANGED <<req, row, abandoned>>
      BY <2>1, <2>3, UndoFailsIsAllowed DEF Allowed
    <2> QED BY <1>11, <2>2, <2>3 DEF ProvisionSlow
  <1>12. ASSUME NEW g \in Grants, RevokeDone(g) \/ RevokeFailed(g) PROVE Allowed
    BY <1>0, <1>12, RevokingIsAllowed DEF Allowed
  <1>13. ASSUME NEW g \in Grants, ReapDone(g) \/ ReapFailed(g) PROVE Allowed
    BY <1>0, <1>13, ReapingIsAllowed DEF Allowed
  <1>14. ASSUME NEW g \in Grants, FinishRevoke(g) PROVE Allowed
    BY <1>1, <1>12, <1>14 DEF FinishRevoke
  <1>15. ASSUME NEW g \in Grants, MintBegin(g) \/ MintEnd(g) \/ ExpireNow(g) PROVE Allowed
    BY <1>1, <1>15 DEF MintBegin, MintEnd, ExpireNow
  <1>16. ASSUME NEW a \in Agents, FollowNext(a) PROVE Allowed
    BY <1>1, <1>16 DEF FollowNext
  <1>17. ASSUME NEW a \in Agents, NEW g \in Grants, FollowDeny(a, g) PROVE Allowed
    BY <1>17, DecidingIsAllowed DEF FollowDeny, IInv, TypeOK, GrantStatus, RequestAgreesWithGrant, Allowed
  <1>18. ASSUME NEW a \in Agents, NEW g \in Grants,
                FollowReap(a, g) \/ FollowRevoke(a, g) \/ FollowSkip(a, g) PROVE Allowed
    BY <1>1, <1>12, <1>13, <1>18 DEF FollowReap, FollowRevoke, FollowSkip
  <1>19. ASSUME NEW g \in Grants, ReapStale(g) \/ ReapStaleFails(g) \/ SweepHeld(g) \/ AdminRevoke(g)
         PROVE  Allowed
    BY <1>12, <1>13, <1>19 DEF ReapStale, ReapStaleFails, SweepHeld, AdminRevoke
  <1>20. ASSUME NEW g \in Grants, Expire(g) PROVE Allowed
    BY <1>0, <1>20, EndingIsAllowed DEF Expire, Due, End, IInv, TypeOK, Allowed
  <1>21. ASSUME NEW g \in Grants, ExpireFails(g) PROVE Allowed
    BY <1>21, UndoFailsIsAllowed DEF ExpireFails, Due, Allowed
  <1>22. CASE Crash \/ BootDone \/ Tick \/ UNCHANGED vars
    BY <1>1, <1>22 DEF Crash, BootDone, Tick, vars
  <1> QED
    BY <1>2, <1>3, <1>4, <1>5, <1>6, <1>7, <1>8, <1>9, <1>10, <1>11, <1>14, <1>15, <1>16, <1>17,
       <1>18, <1>19, <1>20, <1>21, <1>22, <1>23
       DEF Next, Operator, FinishStep, FollowStep, Scheduler

\* The broker's tasks, locks, scheduler and crashes implement AccessPromise,
\* as long as a provisioner that reports an error has undone what it made.
THEOREM ImplementsPromise == ~DirtyFailures => (Spec => KeepsPromise)
  <1> SUFFICES ASSUME ~DirtyFailures PROVE Spec => KeepsPromise
    OBVIOUS
  <1>1. IInv /\ [Next]_vars => [Promise!Next]_<<PhaseMap, ext>>
    BY PromiseStep
  <1> QED BY <1>1, PromiseInit, Invariance, PTL DEF Spec, KeepsPromise, Promise!Spec
=============================================================================
