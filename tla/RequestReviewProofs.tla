------------------------ MODULE RequestReviewProofs -------------------------
(***************************************************************************)
(* Proofs about RequestReview, for every set of requests, agents, budgets  *)
(* and review tasks.                                                       *)
(***************************************************************************)
EXTENDS RequestReview, TLAPS

USE OwnerAssumption, BudgetAssumption, FaultAssumption

Status == {"none"} \cup Decidable \cup Decided

\* The initial states satisfy the inductive invariant.
LEMMA InitEstablishes == Init => IInv
  <1> SUFFICES ASSUME Init PROVE IInv
    OBVIOUS
  <1>1. TypeOK
    BY DEF Init, TypeOK, Sources
  <1>2. VerdictsMatchRounds /\ RoundIsOpen /\ LlmDecidesLastRound
    BY DEF Init, VerdictsMatchRounds, RoundIsOpen, LlmDecidesLastRound
  <1>3. CreationsAreClear /\ DenialListIsComplete /\ ClearedHaveNothingWaiting
    BY DEF Init, CreationsAreClear, DenialListIsComplete, ClearedHaveNothingWaiting
  <1> QED BY <1>1, <1>2, <1>3 DEF IInv

\* What a review task at each of its stages carries.
LEMMA TaskTypes ==
  ASSUME TypeOK, NEW t \in Tasks
  PROVE  /\ review[t].at \in {"idle", "start", "escalate", "review"}
         /\ review[t].at # "idle" => review[t].request \in Requests
         /\ review[t].at = "review" => review[t].attempt \in Nat /\ review[t].budget \in Budgets
         /\ review[t] # Idle => review[t].at # "idle"
  BY DEF TypeOK, Idle

\* The tasks' types survive a task that ends, starts or goes to its escalation.
LEMMA TaskMoves ==
  ASSUME TypeOK, NEW t \in Tasks, NEW e,
         \/ e = Idle
         \/ \E r \in Requests, at \in {"start", "escalate"} : e = [at |-> at, request |-> r]
         \/ \E r \in Requests, n \in Nat, b \in Budgets :
               e = [at |-> "review", request |-> r, attempt |-> n, budget |-> b],
         review' = [review EXCEPT ![t] = e]
  PROVE  review' \in [Tasks -> {Idle} \cup [at: {"start", "escalate"}, request: Requests]
                       \cup [at: {"review"}, request: Requests, attempt: Nat, budget: Budgets]]
  BY DEF TypeOK

\* Every step keeps the types.
LEMMA TypePreserved == TypeOK /\ [Next]_vars => TypeOK'
  <1> SUFFICES ASSUME TypeOK, [Next]_vars PROVE TypeOK'
    OBVIOUS
  <1> DEFINE TaskSet == {Idle} \cup [at: {"start", "escalate"}, request: Requests]
                       \cup [at: {"review"}, request: Requests, attempt: Nat, budget: Budgets]
             Row == /\ status' \in [Requests -> Status] /\ attempt' \in [Requests -> Nat]
                    /\ by' \in [Requests -> Sources]
                    /\ evals' \in [Requests -> Seq([round: Nat, reviewed: Nat])]
  <1>0. /\ status \in [Requests -> Status] /\ attempt \in [Requests -> Nat]
        /\ by \in [Requests -> Sources]
        /\ evals \in [Requests -> Seq([round: Nat, reviewed: Nat])]
        /\ review \in [Tasks -> TaskSet]
    BY DEF TypeOK, Status
  <1>1. ASSUME NEW r \in Requests, NEW to \in Status, NEW who \in Sources, Decide(r, to, who) PROVE Row
    BY <1>0, <1>1 DEF Decide, Move
  <1>2. ASSUME NEW r \in Requests, Escalate(r) \/ EnterLlm(r) PROVE Row
    <2>1. "awaiting_human" \in Status /\ "llm_evaluating" \in Status
      BY DEF Status, Decidable
    <2>2. CASE Escalate(r)
      BY <1>0, <2>1, <2>2 DEF Escalate, Move
    <2>3. CASE EnterLlm(r)
      BY <1>0, <2>1, <2>3 DEF EnterLlm, Move
    <2> QED BY <1>2, <2>2, <2>3
  <1>3. ASSUME UNCHANGED request PROVE Row
    BY <1>0, <1>3 DEF request
  <1>4. ASSUME NEW r \in Requests, Spawn(r) PROVE review' \in [Tasks -> TaskSet]
    BY <1>4, TaskMoves DEF Spawn
  <1>5. ASSUME NEW t \in Tasks, EndTask(t) PROVE review' \in [Tasks -> TaskSet]
    BY <1>5, TaskMoves DEF EndTask
  <1>6. \A r : ApprovedStatus(r) \subseteq Decided /\ Decided \subseteq Status
    BY DEF ApprovedStatus, Decided, Status
  <1>7. ASSUME Row, review' \in [Tasks -> TaskSet],
               creating' \in SUBSET Requests /\ contained' \in SUBSET Agents,
               follow' \in [Agents -> {"idle", "start", "deny", "cleared"}],
               todo' \in [Agents -> SUBSET Requests],
               reviewer' \in BOOLEAN /\ broker' \in {"up", "boot"} /\ faults' \in Nat
        PROVE  TypeOK'
    BY <1>7 DEF TypeOK, Status
  <1>8. /\ creating \in SUBSET Requests /\ contained \in SUBSET Agents
        /\ follow \in [Agents -> {"idle", "start", "deny", "cleared"}]
        /\ todo \in [Agents -> SUBSET Requests]
        /\ reviewer \in BOOLEAN /\ broker \in {"up", "boot"} /\ faults \in Nat
    BY DEF TypeOK
  <1> HIDE DEF Row, TaskSet
  <1>9. "denied" \in Status /\ "policy" \in Sources /\ "human" \in Sources
    BY DEF Status, Decided, Sources
  <1> USE DEF stage, process
  <1>10. ASSUME NEW r \in Requests, CreateCheck(r) PROVE TypeOK'
    BY <1>0, <1>1, <1>3, <1>7, <1>8, <1>9, <1>10 DEF CreateCheck
  <1>11. ASSUME NEW r \in Requests, CreateCommit(r) PROVE TypeOK'
    <2>1. Row /\ review' \in [Tasks -> TaskSet]
      BY <1>0, <1>1, <1>2, <1>4, <1>6, <1>9, <1>11 DEF CreateCommit
    <2> QED BY <1>7, <1>8, <1>11, <2>1 DEF CreateCommit
  <1>12. ASSUME NEW r \in Requests, CreateFails(r) PROVE TypeOK'
    BY <1>0, <1>3, <1>7, <1>8, <1>12 DEF CreateFails
  <1>13. ASSUME NEW r \in Requests, Retry(r) \/ AgentEscalates(r) PROVE TypeOK'
    BY <1>0, <1>2, <1>4, <1>7, <1>8, <1>13 DEF Retry, AgentEscalates
  <1>14. ASSUME NEW r \in Requests, HumanDecides(r) \/ RuleApplies(r) PROVE TypeOK'
    BY <1>0, <1>1, <1>6, <1>7, <1>8, <1>9, <1>14 DEF HumanDecides, RuleApplies
  <1>15. ASSUME NEW r \in Requests, Resume(r) PROVE TypeOK'
    BY <1>0, <1>2, <1>3, <1>4, <1>7, <1>8, <1>15 DEF Resume
  <1>16. ASSUME NEW t \in Tasks, EvalRead(t) PROVE TypeOK'
    <2>1. review[t].request \in Requests /\ attempt[review[t].request] \in Nat
      BY <1>0, <1>16, TaskTypes DEF EvalRead
    <2>2. review' \in [Tasks -> TaskSet]
      BY <1>5, <1>16, <2>1, TaskMoves DEF EvalRead, TaskSet
    <2> QED BY <1>3, <1>7, <1>8, <1>16, <2>2 DEF EvalRead
  <1>17. ASSUME NEW t \in Tasks, EvalApprove(t) \/ EvalDeny(t) PROVE TypeOK'
    <2> DEFINE e == review[t]  r == e.request
    <2>1. r \in Requests /\ e.attempt \in Nat /\ attempt[r] \in Nat /\ evals[r] \in Seq([round: Nat, reviewed: Nat])
      BY <1>0, <1>17, TaskTypes DEF EvalApprove, EvalDeny
    <2>2. Append(evals[r], [round |-> attempt[r], reviewed |-> e.attempt]) \in Seq([round: Nat, reviewed: Nat])
      BY <2>1
    <2>3. evals' \in [Requests -> Seq([round: Nat, reviewed: Nat])]
      BY <1>0, <1>17, <2>1, <2>2 DEF EvalApprove, EvalDeny, Record
    <2>4. status' \in [Requests -> Status] /\ by' \in [Requests -> Sources]
      BY <1>0, <1>6, <1>17, <2>1 DEF EvalApprove, EvalDeny, Move, Status, Decidable, Sources
    <2>5. Row /\ review' \in [Tasks -> TaskSet]
      BY <1>0, <1>5, <1>17, <2>3, <2>4 DEF EvalApprove, EvalDeny, Row
    <2> QED BY <1>7, <1>8, <1>17, <2>5 DEF EvalApprove, EvalDeny
  <1>18. ASSUME NEW t \in Tasks, EvalError(t) \/ EscalateFromLlm(t) PROVE TypeOK'
    <2>1. review[t].request \in Requests
      BY <1>18, TaskTypes DEF EvalError, EscalateFromLlm
    <2>2. Row /\ review' \in [Tasks -> TaskSet]
      BY <1>2, <1>3, <1>5, <1>18, <2>1 DEF EvalError, EscalateFromLlm
    <2> QED BY <1>7, <1>8, <1>18, <2>2 DEF EvalError, EscalateFromLlm
  <1>19. ASSUME NEW t \in Tasks, EvalStale(t) \/ EvalLost(t) PROVE TypeOK'
    <2>1. Row /\ review' \in [Tasks -> TaskSet]
      BY <1>3, <1>5, <1>19 DEF EvalStale, EvalLost
    <2>2. faults' \in Nat
      BY <1>8, <1>19 DEF EvalStale, EvalLost
    <2> QED BY <1>7, <1>8, <1>19, <2>1, <2>2 DEF EvalStale, EvalLost
  <1>20. ASSUME NEW t \in Tasks, EvalBreaks(t) PROVE TypeOK'
    <2>1. review[t].request \in Requests
      BY <1>20, TaskTypes DEF EvalBreaks
    <2>2. Row /\ review' \in [Tasks -> TaskSet]
      BY <1>3, <1>20, <2>1, TaskMoves DEF EvalBreaks, TaskSet
    <2> QED BY <1>7, <1>8, <1>20, <2>2 DEF EvalBreaks
  <1>21. ASSUME NEW a \in Agents, Contain(a) \/ Lift(a) PROVE TypeOK'
    BY <1>0, <1>3, <1>7, <1>8, <1>21 DEF Contain, Lift
  <1>22. ASSUME NEW a \in Agents, DenyList(a) \/ DenyDone(a) \/ DenyBreaks(a) PROVE TypeOK'
    <2>1. Row /\ UNCHANGED <<review, creating, contained, reviewer, broker>>
      BY <1>3, <1>22 DEF DenyList, DenyDone, DenyBreaks
    <2>2. /\ follow' \in [Agents -> {"idle", "start", "deny", "cleared"}]
          /\ todo' \in [Agents -> SUBSET Requests] /\ faults' \in Nat
      <3>1. {r \in Requests : Owner[r] = a /\ status[r] \in Decidable} \in SUBSET Requests
        OBVIOUS
      <3> QED BY <1>8, <1>22, <3>1 DEF DenyList, DenyDone, DenyBreaks
    <2> QED BY <1>0, <1>7, <1>8, <2>1, <2>2
  <1>23. ASSUME NEW a \in Agents, NEW r \in Requests, DenyOne(a, r) PROVE TypeOK'
    BY <1>0, <1>1, <1>3, <1>7, <1>8, <1>9, <1>23 DEF DenyOne
  <1>24. CASE Crash
    BY <1>3, <1>7, <1>8, <1>24 DEF Crash, TaskSet
  <1>25. CASE BootDone
    BY <1>0, <1>3, <1>7, <1>8, <1>25 DEF BootDone
  <1>26. CASE UNCHANGED vars
    BY <1>0, <1>3, <1>7, <1>8, <1>26 DEF vars
  <1> QED
    BY <1>10, <1>11, <1>12, <1>13, <1>14, <1>15, <1>16, <1>17, <1>18, <1>19, <1>20, <1>21, <1>22,
       <1>23, <1>24, <1>25, <1>26 DEF Next, EvalStep, DenyStep

(***************************************************************************)
(* The rows: verdicts, rounds and who decided.                             *)
(***************************************************************************)

Rows == VerdictsMatchRounds /\ RoundIsOpen /\ LlmDecidesLastRound

\* What a row of llm_evaluations holds.
LEMMA SeqElements ==
  ASSUME NEW S, NEW s \in Seq(S)
  PROVE  DOMAIN s = 1 .. Len(s) /\ \A i \in 1 .. Len(s) : s[i] \in S
  OBVIOUS

LEMMA RoundsAreNat ==
  ASSUME NEW s \in Seq([round: Nat, reviewed: Nat])
  PROVE  \A i \in DOMAIN s : s[i].round \in Nat
  <1>1. DOMAIN s = 1 .. Len(s) /\ \A i \in 1 .. Len(s) : s[i] \in [round: Nat, reviewed: Nat]
    BY SeqElements
  <1> QED BY <1>1

\* One more verdict u[k + 1], on a round n above those of the k before it.
OneMore(k, s, u, n) ==
    /\ k \in Nat /\ n \in Nat
    /\ \A i \in 1 .. k : /\ u[i] = s[i] /\ s[i].round \in Nat /\ s[i].round < n
                         /\ s[i].reviewed = s[i].round
    /\ \A i, j \in 1 .. k : i < j => s[i].round < s[j].round
    /\ u[k + 1].round = n /\ u[k + 1].reviewed = n

Ascending(k, u, n) ==
    /\ \A i \in 1 .. k : u[i].reviewed = u[i].round /\ u[i].round <= n
    /\ \A i, j \in 1 .. k : i < j => u[i].round < u[j].round

LEMMA OneMoreVerdict ==
  ASSUME NEW k, NEW s, NEW u, NEW n, OneMore(k, s, u, n)
  PROVE  Ascending(k + 1, u, n)
  <1> USE DEF OneMore
  <1>1. \A i \in 1 .. (k + 1) : i = k + 1 \/ i \in 1 .. k
    OBVIOUS
  <1>2. ASSUME NEW i \in 1 .. (k + 1) PROVE u[i].reviewed = u[i].round /\ u[i].round <= n
    <2>1. CASE i = k + 1
      BY <2>1
    <2>2. CASE i \in 1 .. k
      <3>1. u[i] = s[i] /\ s[i].round \in Nat /\ s[i].round < n /\ s[i].reviewed = s[i].round
        BY <2>2
      <3> QED BY <3>1
    <2> QED BY <1>1, <2>1, <2>2
  <1>3. ASSUME NEW i \in 1 .. (k + 1), NEW j \in 1 .. (k + 1), i < j PROVE u[i].round < u[j].round
    <2>1. i \in 1 .. k
      BY <1>3
    <2>2. u[i] = s[i] /\ s[i].round < n
      BY <2>1
    <2>3. CASE j = k + 1
      BY <2>2, <2>3
    <2>4. CASE j \in 1 .. k
      BY <1>3, <2>1, <2>4
    <2> QED BY <1>1, <2>3, <2>4
  <1> QED BY <1>2, <1>3 DEF Ascending

\* A change of one row that records no verdict: a new round, a human asked, or
\* a decision that is not the LLM's.
LEMMA RowsKeep ==
  ASSUME IInv, NEW r \in Requests,
         \A q \in Requests \ {r} : /\ status'[q] = status[q] /\ attempt'[q] = attempt[q]
                                   /\ by'[q] = by[q] /\ evals'[q] = evals[q],
         evals'[r] = evals[r],
         \/ attempt'[r] = attempt[r] /\ status'[r] = status[r] /\ by'[r] = by[r]
         \/ attempt'[r] = attempt[r] /\ status'[r] = "awaiting_human"
         \/ attempt'[r] = attempt[r] /\ status'[r] \in Decided /\ by'[r] # "llm"
         \/ attempt'[r] = attempt[r] + 1 /\ status'[r] = "llm_evaluating"
  PROVE  Rows'
  <1>1. /\ attempt[r] \in Nat
        /\ \A i \in DOMAIN evals[r] : evals[r][i].round \in Nat
    <2>1. attempt[r] \in Nat /\ evals[r] \in Seq([round: Nat, reviewed: Nat])
      BY DEF IInv, TypeOK
    <2> QED BY <2>1, RoundsAreNat
  <1>2. VerdictsMatchRounds'
    <2>1. \A i \in DOMAIN evals[r] : evals[r][i].round <= attempt'[r]
      BY <1>1 DEF IInv, VerdictsMatchRounds
    <2> QED BY <2>1 DEF IInv, VerdictsMatchRounds
  <1>3. RoundIsOpen'
    <2>1. status'[r] = "llm_evaluating" => \A i \in DOMAIN evals[r] : evals[r][i].round < attempt'[r]
      BY <1>1 DEF IInv, VerdictsMatchRounds, RoundIsOpen, Decided
    <2> QED BY <2>1 DEF IInv, RoundIsOpen
  <1>4. LlmDecidesLastRound'
    <2>1. by'[r] = "llm" /\ status'[r] \in Decided \cup {"llm_denied"} =>
             by[r] = "llm" /\ status[r] = status'[r] /\ attempt'[r] = attempt[r]
      BY DEF Decided
    <2> QED BY <2>1 DEF IInv, LlmDecidesLastRound
  <1> QED BY <1>2, <1>3, <1>4 DEF Rows

\* The verdict a current task records is the one of the open round, and ends it.
LEMMA RowsRecord ==
  ASSUME IInv, NEW t \in Tasks, EvalApprove(t) \/ EvalDeny(t)
  PROVE  Rows'
  <1> DEFINE r == review[t].request
             x == [round |-> attempt[r], reviewed |-> attempt[r]]
  <1>1. /\ r \in Requests /\ attempt[r] \in Nat /\ status[r] = "llm_evaluating"
        /\ review[t].attempt = attempt[r] /\ evals[r] \in Seq([round: Nat, reviewed: Nat])
    BY TaskTypes DEF EvalApprove, EvalDeny, Current, IInv, TypeOK
  <1>2. attempt' = attempt /\ evals' = [evals EXCEPT ![r] = Append(@, x)]
    BY <1>1 DEF EvalApprove, EvalDeny, Record
  <1>3. /\ status'[r] # "llm_evaluating"
        /\ \A q \in Requests \ {r} : status'[q] = status[q] /\ by'[q] = by[q]
    BY <1>1 DEF EvalApprove, EvalDeny, Move, ApprovedStatus, IInv, TypeOK
  <1>4. /\ evals'[r] = Append(evals[r], x)
        /\ \A q \in Requests \ {r} : evals'[q] = evals[q]
    BY <1>1, <1>2 DEF IInv, TypeOK
  <1>5. /\ Len(evals'[r]) = Len(evals[r]) + 1 /\ DOMAIN evals'[r] = 1 .. (Len(evals[r]) + 1)
        /\ DOMAIN evals[r] = 1 .. Len(evals[r]) /\ Len(evals[r]) \in Nat
        /\ \A i \in 1 .. Len(evals[r]) : evals'[r][i] = evals[r][i]
        /\ evals'[r][Len(evals[r]) + 1] = x
    BY <1>1, <1>4
  <1>6. x.round = attempt[r] /\ x.reviewed = attempt[r]
    OBVIOUS
  <1>7. \A i \in 1 .. Len(evals[r]) : /\ evals[r][i].round \in Nat
                                      /\ evals[r][i].round < attempt[r]
                                      /\ evals[r][i].reviewed = evals[r][i].round
    <2>1. \A i \in 1 .. Len(evals[r]) : evals[r][i].round \in Nat
      BY <1>1, <1>5, RoundsAreNat
    <2> QED BY <1>1, <1>5, <2>1 DEF IInv, RoundIsOpen, VerdictsMatchRounds
  <1> HIDE DEF x
  <1>8. VerdictsMatchRounds'
    <2>1. \A i, j \in 1 .. Len(evals[r]) : i < j => evals[r][i].round < evals[r][j].round
      BY <1>1, <1>5 DEF IInv, VerdictsMatchRounds
    <2>2. \A i \in 1 .. Len(evals[r]) : /\ evals'[r][i] = evals[r][i] /\ evals[r][i].round \in Nat
                                        /\ evals[r][i].round < attempt[r]
                                        /\ evals[r][i].reviewed = evals[r][i].round
      BY <1>5, <1>7
    <2>3. /\ evals'[r][Len(evals[r]) + 1].round = attempt[r]
          /\ evals'[r][Len(evals[r]) + 1].reviewed = attempt[r]
      BY <1>5, <1>6
    <2>4. OneMore(Len(evals[r]), evals[r], evals'[r], attempt[r])
      BY <1>1, <1>5, <2>1, <2>2, <2>3 DEF OneMore
    <2>5. Ascending(Len(evals[r]) + 1, evals'[r], attempt[r])
      BY <2>4, OneMoreVerdict
    <2>6. /\ \A i \in DOMAIN evals'[r] : /\ evals'[r][i].reviewed = evals'[r][i].round
                                         /\ evals'[r][i].round <= attempt[r]
          /\ \A i, j \in DOMAIN evals'[r] : i < j => evals'[r][i].round < evals'[r][j].round
      BY <1>5, <2>5 DEF Ascending
    <2> QED BY <1>2, <1>4, <2>6 DEF IInv, VerdictsMatchRounds
  <1>9. RoundIsOpen'
    BY <1>2, <1>3, <1>4 DEF IInv, RoundIsOpen
  <1>10. LlmDecidesLastRound'
    <2>1. evals'[r] # <<>> /\ evals'[r][Len(evals'[r])].reviewed = attempt[r]
      BY <1>5, <1>6
    <2> QED BY <1>2, <1>3, <1>4, <2>1 DEF IInv, LlmDecidesLastRound
  <1> QED BY <1>8, <1>9, <1>10 DEF Rows

\* Every step keeps verdicts, rounds and deciders in agreement.
LEMMA RowsPreserved == IInv /\ [Next]_vars => Rows'
  <1> SUFFICES ASSUME IInv, [Next]_vars PROVE Rows'
    OBVIOUS
  <1>0. /\ status \in [Requests -> Status] /\ attempt \in [Requests -> Nat]
        /\ by \in [Requests -> Sources] /\ DOMAIN evals = Requests
    BY DEF IInv, TypeOK, Status
  <1>1. ASSUME NEW r \in Requests, NEW to \in Decided, NEW who \in {"policy", "human"}, Decide(r, to, who)
        PROVE  Rows'
    <2>1. /\ \A q \in Requests \ {r} : status'[q] = status[q] /\ by'[q] = by[q]
          /\ status'[r] \in Decided /\ by'[r] # "llm" /\ UNCHANGED <<attempt, evals>>
      BY <1>0, <1>1 DEF Decide, Move
    <2> QED BY <2>1, RowsKeep
  <1>2. ASSUME NEW r \in Requests, Escalate(r) PROVE Rows'
    <2>1. /\ \A q \in Requests \ {r} : status'[q] = status[q]
          /\ status'[r] = "awaiting_human" /\ UNCHANGED <<attempt, by, evals>>
      BY <1>0, <1>2 DEF Escalate, Move
    <2> QED BY <2>1, RowsKeep
  <1>3. ASSUME NEW r \in Requests, EnterLlm(r) PROVE Rows'
    <2>1. /\ \A q \in Requests \ {r} : status'[q] = status[q] /\ attempt'[q] = attempt[q]
          /\ status'[r] = "llm_evaluating" /\ attempt'[r] = attempt[r] + 1 /\ UNCHANGED <<by, evals>>
      BY <1>0, <1>3 DEF EnterLlm, Move
    <2> QED BY <2>1, RowsKeep
  <1>4. ASSUME UNCHANGED request PROVE Rows'
    BY <1>4 DEF request, IInv, Rows, VerdictsMatchRounds, RoundIsOpen, LlmDecidesLastRound
  <1>5. \A r : ApprovedStatus(r) \subseteq Decided /\ "denied" \in Decided
    BY DEF ApprovedStatus, Decided
  <1>6. \A t \in Tasks : review[t].at # "idle" => review[t].request \in Requests
    BY TaskTypes DEF IInv
  <1>7. ASSUME NEW r \in Requests,
               CreateCheck(r) \/ CreateCommit(r) \/ CreateFails(r) \/ Retry(r) \/ AgentEscalates(r)
        PROVE  Rows'
    BY <1>1, <1>2, <1>3, <1>4, <1>5, <1>7
       DEF CreateCheck, CreateCommit, CreateFails, Retry, AgentEscalates
  <1>8. ASSUME NEW r \in Requests, HumanDecides(r) \/ RuleApplies(r) \/ Resume(r) PROVE Rows'
    BY <1>1, <1>2, <1>4, <1>5, <1>8 DEF HumanDecides, RuleApplies, Resume
  <1>9. ASSUME NEW t \in Tasks, EvalApprove(t) \/ EvalDeny(t) PROVE Rows'
    BY <1>9, RowsRecord
  <1>10. ASSUME NEW t \in Tasks, EvalError(t) \/ EscalateFromLlm(t) PROVE Rows'
    BY <1>2, <1>4, <1>6, <1>10 DEF EvalError, EscalateFromLlm
  <1>11. ASSUME NEW t \in Tasks, EvalRead(t) \/ EvalStale(t) \/ EvalBreaks(t) \/ EvalLost(t) PROVE Rows'
    BY <1>4, <1>11 DEF EvalRead, EvalStale, EvalBreaks, EvalLost
  <1>12. ASSUME NEW a \in Agents,
                Contain(a) \/ Lift(a) \/ DenyList(a) \/ DenyDone(a) \/ DenyBreaks(a)
         PROVE  Rows'
    BY <1>4, <1>12 DEF Contain, Lift, DenyList, DenyDone, DenyBreaks
  <1>13. ASSUME NEW a \in Agents, NEW r \in Requests, DenyOne(a, r) PROVE Rows'
    BY <1>1, <1>4, <1>5, <1>13 DEF DenyOne
  <1>14. CASE Crash \/ BootDone
    BY <1>4, <1>14 DEF Crash, BootDone
  <1>15. CASE UNCHANGED vars
    BY <1>4, <1>15 DEF vars
  <1> QED
    BY <1>7, <1>8, <1>9, <1>10, <1>11, <1>12, <1>13, <1>14, <1>15 DEF Next, EvalStep, DenyStep
(***************************************************************************)
(* Containment: creations past their check, and the denial stage.          *)
(***************************************************************************)

Stages == CreationsAreClear /\ DenialListIsComplete /\ ClearedHaveNothingWaiting

\* A step that leaves the entries alone, brings back nothing of a held agent,
\* drops from a denial list only what no longer waits, and finishes no stage.
LEMMA StagesKeep ==
  ASSUME IInv, contained' = contained,
         \A q \in Requests : status'[q] \in Decidable => status[q] \in Decidable \/ ~Held(q),
         \A a \in Agents : follow'[a] = "deny" =>
             /\ follow[a] = "deny"
             /\ \A q \in Requests : q \in todo[a] /\ status'[q] \in Decidable => q \in todo'[a],
         \A a \in Agents : follow'[a] = "cleared" => follow[a] = "cleared",
         \A q \in creating' : status'[q] = "none" /\ ~Held(q)
  PROVE  Stages'
  <1>0. contained \subseteq Agents
    BY DEF IInv, TypeOK
  <1>1. CreationsAreClear'
    BY DEF CreationsAreClear, Held
  <1>2. DenialListIsComplete'
    BY <1>0 DEF IInv, DenialListIsComplete, Held
  <1>3. ClearedHaveNothingWaiting'
    BY <1>0 DEF IInv, ClearedHaveNothingWaiting, Held
  <1> QED BY <1>1, <1>2, <1>3 DEF Stages

\* A step of one request that had a row, with the follow-ups left alone.
LEMMA StagesMove ==
  ASSUME IInv, NEW r \in Requests, NEW to, Move(r, to),
         to \in Decidable => status[r] \in Decidable \/ ~Held(r),
         r \notin creating',
         creating' \subseteq creating, UNCHANGED <<contained, stage>>
  PROVE  Stages'
  <1>0. status \in [Requests -> Status] /\ creating \subseteq Requests
    BY DEF IInv, TypeOK, Status
  <1>1. status'[r] = to /\ \A q \in Requests \ {r} : status'[q] = status[q]
    BY <1>0 DEF Move
  <1>2. \A q \in creating' : status'[q] = "none" /\ ~Held(q)
    BY <1>0, <1>1 DEF IInv, CreationsAreClear
  <1>3. \A q \in Requests : status'[q] \in Decidable => status[q] \in Decidable \/ ~Held(q)
    BY <1>1
  <1>4. contained' = contained /\ follow' = follow /\ todo' = todo
    BY DEF stage
  <1> QED BY <1>2, <1>3, <1>4, StagesKeep

\* Every step keeps what the containment lock and the denial stage promise.
LEMMA StagesPreserved == IInv /\ [Next]_vars => Stages'
  <1> SUFFICES ASSUME IInv, [Next]_vars PROVE Stages'
    OBVIOUS
  <1>0. /\ status \in [Requests -> Status] /\ creating \subseteq Requests /\ contained \subseteq Agents
        /\ follow \in [Agents -> {"idle", "start", "deny", "cleared"}]
        /\ todo \in [Agents -> SUBSET Requests]
    BY DEF IInv, TypeOK, Status
  <1>1. \A q \in creating : status[q] = "none" /\ ~Held(q)
    BY DEF IInv, CreationsAreClear
  <1>2. "none" \notin Decidable /\ Decided \cap Decidable = {} /\ "awaiting_human" \in Decidable
        /\ "llm_evaluating" \in Decidable /\ "llm_denied" \in Decidable /\ "denied" \in Decided
    BY DEF Decidable, Decided
  <1>3. \A r : ApprovedStatus(r) \subseteq Decided
    BY DEF ApprovedStatus, Decided
  <1>4. \A t \in Tasks : review[t].at # "idle" => review[t].request \in Requests
    BY TaskTypes DEF IInv
  <1>5. ASSUME UNCHANGED <<request, contained, stage>>, creating' \subseteq creating PROVE Stages'
    BY <1>0, <1>1, <1>5, StagesKeep DEF request, stage
  <1>6. ASSUME NEW r \in Requests, CreateCheck(r) PROVE Stages'
    <2>1. CASE Held(r)
      BY <1>1, <1>2, <1>6, <2>1, StagesMove DEF CreateCheck, Decide
    <2>2. CASE ~Held(r)
      <3>1. /\ creating' = creating \cup {r} /\ UNCHANGED <<status, contained, follow, todo>>
            /\ status[r] = "none"
        BY <1>6, <2>2 DEF CreateCheck, request, stage
      <3> QED BY <1>0, <1>1, <2>2, <3>1, StagesKeep
    <2> QED BY <2>1, <2>2
  <1>7. ASSUME NEW r \in Requests, CreateCommit(r) PROVE Stages'
    <2>1. ~Held(r) /\ r \notin creating' /\ creating' \subseteq creating /\ UNCHANGED <<contained, stage>>
      BY <1>1, <1>7 DEF CreateCommit
    <2>2. \E to : Move(r, to)
      BY <1>7 DEF CreateCommit, Decide, Escalate, EnterLlm
    <2> QED BY <2>1, <2>2, StagesMove
  <1>8. ASSUME NEW r \in Requests, CreateFails(r) PROVE Stages'
    BY <1>5, <1>8 DEF CreateFails
  <1>9. ASSUME NEW r \in Requests, NEW to, Move(r, to), status[r] \in Decidable,
               UNCHANGED <<creating, contained, stage>>
        PROVE  Stages'
    BY <1>1, <1>2, <1>9, StagesMove
  <1>10. ASSUME NEW r \in Requests, Retry(r) \/ AgentEscalates(r) PROVE Stages'
    BY <1>2, <1>9, <1>10 DEF Retry, AgentEscalates, EnterLlm, Escalate
  <1>11. ASSUME NEW r \in Requests, HumanDecides(r) \/ RuleApplies(r) PROVE Stages'
    BY <1>2, <1>9, <1>11 DEF HumanDecides, RuleApplies, Decide
  <1>12. ASSUME NEW r \in Requests, Resume(r) PROVE Stages'
    BY <1>2, <1>5, <1>9, <1>12 DEF Resume, Escalate
  <1>13. ASSUME NEW t \in Tasks, EvalApprove(t) \/ EvalDeny(t) PROVE Stages'
    <2>1. /\ review[t].request \in Requests /\ status[review[t].request] \in Decidable
          /\ UNCHANGED <<creating, contained, stage>>
      BY <1>2, <1>4, <1>13 DEF EvalApprove, EvalDeny, Current
    <2>2. \E to : Move(review[t].request, to)
      BY <1>13 DEF EvalApprove, EvalDeny
    <2> QED BY <1>9, <2>1, <2>2
  <1>14. ASSUME NEW t \in Tasks, EvalError(t) \/ EscalateFromLlm(t) PROVE Stages'
    BY <1>2, <1>4, <1>5, <1>9, <1>14 DEF EvalError, EscalateFromLlm, Current, Escalate
  <1>15. ASSUME NEW t \in Tasks, EvalRead(t) \/ EvalStale(t) \/ EvalBreaks(t) \/ EvalLost(t) PROVE Stages'
    BY <1>5, <1>15 DEF EvalRead, EvalStale, EvalBreaks, EvalLost
  <1>16. ASSUME NEW a \in Agents, Contain(a) PROVE Stages'
    <2>1. /\ creating' = {} /\ status' = status /\ contained' = contained \cup {a}
          /\ follow'[a] = "start" /\ \A b \in Agents \ {a} : follow'[b] = follow[b] /\ todo'[b] = todo[b]
      BY <1>0, <1>16 DEF Contain, request
    <2>2. CreationsAreClear'
      BY <2>1 DEF CreationsAreClear
    <2> QED BY <1>0, <2>1, <2>2 DEF IInv, Stages, DenialListIsComplete, ClearedHaveNothingWaiting
  <1>17. ASSUME NEW a \in Agents, Lift(a) PROVE Stages'
    <2>1. /\ creating' = {} /\ status' = status /\ contained' \subseteq contained
          /\ follow' = follow /\ todo' = todo
      BY <1>17 DEF Lift, request, stage
    <2>2. CreationsAreClear'
      BY <2>1 DEF CreationsAreClear
    <2> QED BY <2>1, <2>2 DEF IInv, Stages, DenialListIsComplete, ClearedHaveNothingWaiting
  <1>18. ASSUME NEW a \in Agents, DenyList(a) PROVE Stages'
    <2>1. /\ UNCHANGED <<status, creating, contained>> /\ follow'[a] = "deny"
          /\ todo'[a] = {r \in Requests : Owner[r] = a /\ status[r] \in Decidable}
          /\ \A b \in Agents \ {a} : follow'[b] = follow[b] /\ todo'[b] = todo[b]
      BY <1>0, <1>18 DEF DenyList, request
    <2>2. CreationsAreClear'
      BY <1>1, <2>1 DEF CreationsAreClear, Held
    <2> QED BY <1>0, <2>1, <2>2 DEF IInv, Stages, DenialListIsComplete, ClearedHaveNothingWaiting
  <1>19. ASSUME NEW a \in Agents, DenyDone(a) PROVE Stages'
    <2>1. /\ UNCHANGED <<status, creating, contained, todo>>
          /\ follow[a] = "deny" /\ todo[a] = {} /\ follow'[a] = "cleared"
          /\ \A b \in Agents \ {a} : follow'[b] = follow[b]
      BY <1>0, <1>19 DEF DenyDone, request
    <2>2. CreationsAreClear'
      BY <1>1, <2>1 DEF CreationsAreClear, Held
    <2> QED BY <1>0, <2>1, <2>2 DEF IInv, Stages, DenialListIsComplete, ClearedHaveNothingWaiting
  <1>20. ASSUME NEW a \in Agents, DenyBreaks(a) PROVE Stages'
    <2>1. /\ UNCHANGED <<status, creating, contained>> /\ follow'[a] = "idle"
          /\ \A b \in Agents \ {a} : follow'[b] = follow[b] /\ todo'[b] = todo[b]
      BY <1>0, <1>20 DEF DenyBreaks, request
    <2> QED BY <1>0, <1>1, <2>1, StagesKeep
  <1>21. ASSUME NEW a \in Agents, NEW r \in Requests, DenyOne(a, r) PROVE Stages'
    <2>1. /\ UNCHANGED <<creating, contained, follow>>
          /\ todo'[a] = todo[a] \ {r} /\ \A b \in Agents \ {a} : todo'[b] = todo[b]
      BY <1>0, <1>21 DEF DenyOne
    <2>2. /\ \A q \in Requests : status'[q] \in Decidable => status[q] \in Decidable /\ q # r
          /\ \A q \in Requests \ {r} : status'[q] = status[q]
          /\ status[r] = "none" => status'[r] = "none"
      BY <1>0, <1>2, <1>21 DEF DenyOne, Decide, Move, request
    <2> QED BY <1>0, <1>1, <2>1, <2>2, StagesKeep
  <1>22. CASE Crash
    <2>1. UNCHANGED <<status, contained>> /\ creating' = {} /\ \A a \in Agents : follow'[a] = "idle"
      BY <1>22 DEF Crash, request
    <2> QED BY <2>1, StagesKeep
  <1>23. CASE BootDone
    BY <1>5, <1>23 DEF BootDone
  <1>24. CASE UNCHANGED vars
    BY <1>5, <1>24 DEF vars
  <1> QED
    BY <1>6, <1>7, <1>8, <1>10, <1>11, <1>12, <1>13, <1>14, <1>15, <1>16, <1>17, <1>18, <1>19, <1>20,
       <1>21, <1>22, <1>23, <1>24 DEF Next, EvalStep, DenyStep

(***************************************************************************)
(* The theorems.                                                           *)
(***************************************************************************)

\* The inductive invariant holds in every reachable state: the decision path of
\* requests (service, llm_task, scheduler, containment) with any interleaving.
THEOREM Invariance == Spec => []IInv
  <1>1. IInv /\ [Next]_vars => IInv'
    BY TypePreserved, RowsPreserved, StagesPreserved DEF IInv, Rows, Stages
  <1> QED BY InitEstablishes, <1>1, PTL DEF Spec

\* The variables keep their types, the columns of access_requests and the
\* stages of review tasks and follow-ups among them.
THEOREM TypeCorrect == Spec => []TypeOK
  <1>1. IInv => TypeOK
    BY DEF IInv
  <1> QED BY Invariance, <1>1, PTL

\* A round has one recorded verdict, on that round's justification, however
\* many tasks the scheduler's resume started (llm_task::evaluate).
THEOREM OneVerdictPerRound == Spec => []VerdictsMatchRounds
  <1>1. IInv => VerdictsMatchRounds
    BY DEF IInv
  <1> QED BY Invariance, <1>1, PTL

\* What the LLM decided, it decided on the review of the request's last round.
THEOREM LastRoundDecides == Spec => []LlmDecidesLastRound
  <1>1. IInv => LlmDecidesLastRound
    BY DEF IInv
  <1> QED BY Invariance, <1>1, PTL

\* After deny_pending went through, a contained agent has nothing to decide.
THEOREM ContainedAreCleared == Spec => []ClearedHaveNothingWaiting
  <1>1. IInv => ClearedHaveNothingWaiting
    BY DEF IInv
  <1> QED BY Invariance, <1>1, PTL

\* INV-15: no step of a review task, the scheduler or a rule takes a request
\* back from the human who was asked, and a decision is final.
THEOREM HumanIsNotOverruled == Spec => HumanKeepsTheRequest
  <1> DEFINE Kept == \A r \in Requests :
         /\ status[r] = "awaiting_human" => status'[r] \in {"awaiting_human"} \cup Decided
         /\ status[r] \in Decided => status'[r] = status[r] /\ by'[r] = by[r]
  <1>1. IInv /\ [Next]_vars => [Kept]_vars
    <2> SUFFICES ASSUME IInv, Next PROVE Kept
      BY DEF vars
    <2>0. status \in [Requests -> Status] /\ by \in [Requests -> Sources]
      BY DEF IInv, TypeOK, Status
    <2>1. \A q \in creating : status[q] = "none"
      BY DEF IInv, CreationsAreClear
    <2>2. "none" \notin Decided /\ Decided \cap Decidable = {} /\ "denied" \in Decided
          /\ "awaiting_human" \notin Decided /\ "llm_evaluating" \notin Decided /\ "llm_denied" \notin Decided
      BY DEF Decidable, Decided
    <2>3. \A r : ApprovedStatus(r) \subseteq Decided
      BY DEF ApprovedStatus, Decided
    <2>4. \A t \in Tasks : review[t].at # "idle" => review[t].request \in Requests
      BY TaskTypes DEF IInv
    <2>5. ASSUME UNCHANGED request PROVE Kept
      BY <2>5 DEF request
    <2>6. ASSUME NEW r \in Requests, NEW to, Move(r, to),
                 \A q \in Requests \ {r} : by'[q] = by[q],
                 status[r] \notin Decided,
                 status[r] = "awaiting_human" => to \in {"awaiting_human"} \cup Decided
          PROVE  Kept
      <3>1. status'[r] = to /\ \A q \in Requests \ {r} : status'[q] = status[q]
        BY <2>0, <2>6 DEF Move
      <3> QED BY <2>6, <3>1
    <2> HIDE DEF Kept
    <2>7. ASSUME NEW r \in Requests, NEW to \in Decided, NEW who, Decide(r, to, who), status[r] \notin Decided
          PROVE  Kept
      <3>1. Move(r, to) /\ \A q \in Requests \ {r} : by'[q] = by[q]
        BY <2>0, <2>7 DEF Decide
      <3> QED BY <2>6, <2>7, <3>1
    <2>8. ASSUME NEW r \in Requests, Escalate(r), status[r] \notin Decided PROVE Kept
      BY <2>6, <2>8 DEF Escalate
    <2>9. ASSUME NEW r \in Requests, EnterLlm(r), status[r] \notin Decided, status[r] # "awaiting_human"
          PROVE Kept
      BY <2>6, <2>9 DEF EnterLlm
    <2>10. ASSUME NEW r \in Requests,
                  CreateCheck(r) \/ CreateCommit(r) \/ CreateFails(r) \/ Retry(r) \/ AgentEscalates(r)
           PROVE  Kept
      BY <2>1, <2>2, <2>3, <2>5, <2>7, <2>8, <2>9, <2>10
         DEF CreateCheck, CreateCommit, CreateFails, Retry, AgentEscalates
    <2>11. ASSUME NEW r \in Requests, HumanDecides(r) \/ RuleApplies(r) \/ Resume(r) PROVE Kept
      BY <2>2, <2>3, <2>5, <2>7, <2>8, <2>11 DEF HumanDecides, RuleApplies, Resume
    <2>12. ASSUME NEW t \in Tasks, EvalApprove(t) \/ EvalDeny(t) PROVE Kept
      <3> DEFINE r == review[t].request
      <3>1. r \in Requests /\ status[r] = "llm_evaluating"
        BY <2>4, <2>12 DEF EvalApprove, EvalDeny, Current
      <3>2. \E to : Move(r, to)
        BY <2>12 DEF EvalApprove, EvalDeny
      <3>3. \A q \in Requests \ {r} : by'[q] = by[q]
        BY <2>0, <2>12 DEF EvalApprove, EvalDeny
      <3> HIDE DEF r
      <3> QED BY <2>2, <2>6, <3>1, <3>2, <3>3
    <2>13. ASSUME NEW t \in Tasks, EvalError(t) \/ EscalateFromLlm(t) PROVE Kept
      BY <2>2, <2>4, <2>5, <2>8, <2>13 DEF EvalError, EscalateFromLlm, Current
    <2>14. ASSUME NEW t \in Tasks, EvalRead(t) \/ EvalStale(t) \/ EvalBreaks(t) \/ EvalLost(t) PROVE Kept
      BY <2>5, <2>14 DEF EvalRead, EvalStale, EvalBreaks, EvalLost
    <2>15. ASSUME NEW a \in Agents,
                  Contain(a) \/ Lift(a) \/ DenyList(a) \/ DenyDone(a) \/ DenyBreaks(a)
           PROVE  Kept
      BY <2>5, <2>15 DEF Contain, Lift, DenyList, DenyDone, DenyBreaks
    <2>16. ASSUME NEW a \in Agents, NEW r \in Requests, DenyOne(a, r) PROVE Kept
      BY <2>2, <2>5, <2>7, <2>16 DEF DenyOne
    <2>17. CASE Crash \/ BootDone
      BY <2>5, <2>17 DEF Crash, BootDone
    <2> QED BY <2>10, <2>11, <2>12, <2>13, <2>14, <2>15, <2>16, <2>17 DEF Next, EvalStep, DenyStep
  <1> QED BY <1>1, Invariance, PTL DEF Spec, HumanKeepsTheRequest
=============================================================================
