---------------------------- MODULE RequestReview ----------------------------
(***************************************************************************)
(* The decision on an access request, before its grant exists: creation    *)
(* and routing, the LLM review task with its retries, escalation, a human  *)
(* decision, a saved rule applied to what waits, the denial of a contained *)
(* agent's requests, and the resumption of reviews after a crash or a      *)
(* stall.  What follows an approval is the module Provisioning.            *)
(*                                                                         *)
(* The policy is an environment: each reroute, at the moment it runs, may  *)
(* give any route and any retry budget.  A review is a task of its own; a  *)
(* request can have several at once, because the scheduler resumes one     *)
(* whose row was untouched for LLM_STALL without knowing whether its task  *)
(* still runs.                                                             *)
(***************************************************************************)
EXTENDS Naturals, Sequences

CONSTANTS
    Requests,
    Agents,
    Owner,      \* the agent a request belongs to
    Budgets,    \* retry budgets the policy may give
    Tasks,      \* bound: review tasks that run at once
    MaxFaults   \* bound: crashes, lost tasks, broken follow-ups

ASSUME OwnerAssumption  == Owner \in [Requests -> Agents]
ASSUME BudgetAssumption == Budgets \subseteq Nat
ASSUME FaultAssumption  == MaxFaults \in Nat

VARIABLES
    status,     \* access_requests.status; "none" before the insert
    attempt,    \* access_requests.attempt
    by,         \* access_requests.decision_source
    evals,      \* llm_evaluations: the round recorded, and the round reviewed
    creating,   \* creations past their containment check
    contained,  \* agents some containment entry holds
    follow,     \* the denial stage of an agent's containment follow-up
    todo,       \* what that stage listed and has not reached
    review,     \* the review tasks
    reviewer,   \* is an LLM reviewer configured?
    broker,     \* "up", or "boot" while the boot tick runs
    faults

request == <<status, attempt, by, evals>>
stage   == <<follow, todo>>
process == <<reviewer, broker, faults>>
vars    == <<request, creating, contained, stage, review, process>>

Decidable == {"awaiting_human", "llm_denied", "llm_evaluating"}
Decided   == {"denied", "provisioning", "provision_failed"}
Sources   == {"nobody", "policy", "llm", "human"}
Idle      == [at |-> "idle"]

TypeOK ==
    /\ status \in [Requests -> {"none"} \cup Decidable \cup Decided]
    /\ attempt \in [Requests -> Nat]
    /\ by \in [Requests -> Sources]
    /\ evals \in [Requests -> Seq([round: Nat, reviewed: Nat])]
    /\ creating \in SUBSET Requests /\ contained \in SUBSET Agents
    /\ follow \in [Agents -> {"idle", "start", "deny", "cleared"}]
    /\ todo \in [Agents -> SUBSET Requests]
    /\ review \in [Tasks -> {Idle} \cup [at: {"start", "escalate"}, request: Requests]
                       \cup [at: {"review"}, request: Requests, attempt: Nat, budget: Budgets]]
    /\ reviewer \in BOOLEAN /\ broker \in {"up", "boot"} /\ faults \in Nat

Init ==
    /\ status = [r \in Requests |-> "none"]
    /\ attempt = [r \in Requests |-> 0]
    /\ by = [r \in Requests |-> "nobody"]
    /\ evals = [r \in Requests |-> <<>>]
    /\ creating = {} /\ contained = {}
    /\ follow = [a \in Agents |-> "idle"]
    /\ todo = [a \in Agents |-> {}]
    /\ review = [t \in Tasks |-> Idle]
    /\ reviewer \in BOOLEAN /\ broker = "up" /\ faults = 0

Held(r) == Owner[r] \in contained

(***************************************************************************)
(* Moves of the status column.                                             *)
(***************************************************************************)

Move(r, to) == status' = [status EXCEPT ![r] = to]

Decide(r, to, who) ==
    /\ Move(r, to)
    /\ by' = [by EXCEPT ![r] = who]
    /\ UNCHANGED <<attempt, evals>>

\* Mutant: the transaction commits an approval it has not begun to provision.
ApprovedOnly(r) == {"approved"}

\* An approval and begin_provision in one transaction: a held agent, or a
\* delegation that is gone, fails the request.
ApprovedStatus(r) == {"provision_failed"} \cup (IF Held(r) THEN {} ELSE {"provisioning"})

Escalate(r) ==
    /\ Move(r, "awaiting_human")
    /\ UNCHANGED <<attempt, by, evals>>

\* Mutant: a retry keeps the attempt of the round before.
EnterLlmSameRound(r) ==
    /\ Move(r, "llm_evaluating")
    /\ attempt' = [attempt EXCEPT ![r] = IF @ = 0 THEN 1 ELSE @]
    /\ UNCHANGED <<by, evals>>

\* LlmRound bumps the attempt.
EnterLlm(r) ==
    /\ Move(r, "llm_evaluating")
    /\ attempt' = [attempt EXCEPT ![r] = @ + 1]
    /\ UNCHANGED <<by, evals>>

\* llm_task::spawn.
Spawn(r) ==
    \E t \in Tasks : /\ review[t] = Idle
                     /\ review' = [review EXCEPT ![t] = [at |-> "start", request |-> r]]

EndTask(t) == review' = [review EXCEPT ![t] = Idle]

(***************************************************************************)
(* Creation.                                                               *)
(***************************************************************************)

\* lockdown::check; its proof holds the containment lock shared to the commit.
CreateCheck(r) ==
    /\ broker = "up" /\ status[r] = "none" /\ r \notin creating
    /\ IF Held(r) THEN Decide(r, "denied", "policy") /\ UNCHANGED creating
                  ELSE creating' = creating \cup {r} /\ UNCHANGED request
    /\ UNCHANGED <<contained, stage, review, process>>

\* Validation, zones, policy and gates give the route; the insert and the
\* route's transition commit together.
CreateCommit(r) ==
    /\ r \in creating
    /\ creating' = creating \ {r}
    /\ \/ /\ \E to \in {"denied"} \cup ApprovedStatus(r) : Decide(r, to, "policy")
          /\ UNCHANGED review
       \/ Escalate(r) /\ UNCHANGED review
       \/ reviewer /\ EnterLlm(r) /\ Spawn(r)
    /\ UNCHANGED <<contained, stage, process>>

\* A platform that is not enabled, or a store error: nothing is recorded.
CreateFails(r) ==
    /\ r \in creating
    /\ creating' = creating \ {r}
    /\ UNCHANGED <<request, contained, stage, review, process>>

(***************************************************************************)
(* The review task (llm_task::evaluate).                                   *)
(***************************************************************************)

\* Reads the round and the budget it works with, in a transaction of its own.
EvalRead(t) ==
    /\ review[t].at = "start"
    /\ LET r == review[t].request IN
         \/ /\ ~reviewer
            /\ review' = [review EXCEPT ![t] = [at |-> "escalate", request |-> r]]
         \/ /\ reviewer /\ status[r] # "llm_evaluating"
            /\ EndTask(t)
         \/ /\ reviewer /\ status[r] = "llm_evaluating"
            /\ \E b \in Budgets :
                 review' = [review EXCEPT ![t] = [at |-> "review", request |-> r,
                                                  attempt |-> attempt[r], budget |-> b]]
    /\ UNCHANGED <<request, creating, contained, stage, process>>

\* Mutant: a verdict is applied whatever round it reviewed.
CurrentAnyRound(e) == status[e.request] = "llm_evaluating"

\* Mutant: a verdict is applied although a human has the request meanwhile.
CurrentAnyStatus(e) == attempt[e.request] = e.attempt /\ status[e.request] # "none"

\* The verdict still counts: nobody decided, and no newer round began.
Current(e) == status[e.request] = "llm_evaluating" /\ attempt[e.request] = e.attempt

Record(e) ==
    evals' = [evals EXCEPT ![e.request] =
                Append(@, [round |-> attempt[e.request], reviewed |-> e.attempt])]

\* The policy must still route to the LLM and no entry may hold the agent;
\* otherwise a human gets it.
EvalApprove(t) ==
    LET e == review[t] r == e.request IN
    /\ e.at = "review" /\ Current(e)
    /\ Record(e)
    /\ \/ /\ ~Held(r)
          /\ \E to \in ApprovedStatus(r) : Move(r, to)
          /\ by' = [by EXCEPT ![r] = "llm"]
       \/ Move(r, "awaiting_human") /\ UNCHANGED by
    /\ EndTask(t)
    /\ UNCHANGED <<attempt, creating, contained, stage, process>>

EvalDeny(t) ==
    LET e == review[t] r == e.request IN
    /\ e.at = "review" /\ Current(e)
    /\ Record(e)
    /\ IF attempt[r] >= e.budget
         THEN Move(r, "awaiting_human") /\ UNCHANGED by
         ELSE Move(r, "llm_denied") /\ by' = [by EXCEPT ![r] = "llm"]
    /\ EndTask(t)
    /\ UNCHANGED <<attempt, creating, contained, stage, process>>

\* The reviewer failed (a timeout, an unreadable answer): nothing recorded.
EvalError(t) ==
    LET e == review[t] IN
    /\ e.at = "review" /\ Current(e)
    /\ Escalate(e.request)
    /\ EndTask(t)
    /\ UNCHANGED <<creating, contained, stage, process>>

EvalStale(t) ==
    /\ review[t].at = "review" /\ ~Current(review[t])
    /\ EndTask(t)
    /\ UNCHANGED <<request, creating, contained, stage, process>>

\* A store error ends evaluate; spawn then calls escalate_from_llm.
EvalBreaks(t) ==
    /\ review[t].at \in {"start", "review"}
    /\ review' = [review EXCEPT ![t] = [at |-> "escalate", request |-> review[t].request]]
    /\ UNCHANGED <<request, creating, contained, stage, process>>

\* escalate_from_llm compares the status only, not the round.
EscalateFromLlm(t) ==
    /\ review[t].at = "escalate"
    /\ IF status[review[t].request] = "llm_evaluating"
         THEN Escalate(review[t].request) ELSE UNCHANGED request
    /\ EndTask(t)
    /\ UNCHANGED <<creating, contained, stage, process>>

\* A panic, or a store that fails the escalation too.
EvalLost(t) ==
    /\ review[t] # Idle /\ faults < MaxFaults
    /\ faults' = faults + 1
    /\ EndTask(t)
    /\ UNCHANGED <<request, creating, contained, stage, reviewer, broker>>

\* Mutant: reviews are resumed in the boot tick only.
ResumeAtBoot(r) ==
    /\ status[r] = "llm_evaluating" /\ broker = "boot"
    /\ IF reviewer THEN Spawn(r) /\ UNCHANGED request
                   ELSE Escalate(r) /\ UNCHANGED review
    /\ UNCHANGED <<creating, contained, stage, process>>

\* scheduler::resume_llm: every request under review in the boot tick, later
\* the ones untouched for LLM_STALL, whether or not a task still works on them.
Resume(r) ==
    /\ status[r] = "llm_evaluating"
    /\ IF reviewer THEN Spawn(r) /\ UNCHANGED request
                   ELSE Escalate(r) /\ UNCHANGED review
    /\ UNCHANGED <<creating, contained, stage, process>>

(***************************************************************************)
(* The agent: retry and escalate.                                          *)
(***************************************************************************)

Retry(r) ==
    /\ broker = "up" /\ status[r] = "llm_denied"
    /\ ~Held(r)
    /\ \E b \in Budgets : attempt[r] < b
    /\ EnterLlm(r) /\ Spawn(r)
    /\ UNCHANGED <<creating, contained, stage, process>>

AgentEscalates(r) ==
    /\ broker = "up" /\ status[r] = "llm_denied"
    /\ ~Held(r)
    /\ Escalate(r)
    /\ UNCHANGED <<creating, contained, stage, review, process>>

(***************************************************************************)
(* People, rules and containment.                                          *)
(***************************************************************************)

\* decide_inner, from a human surface.
HumanDecides(r) ==
    /\ broker = "up" /\ status[r] \in Decidable
    /\ \E to \in {"denied"} \cup ApprovedStatus(r) : Decide(r, to, "human")
    /\ UNCHANGED <<creating, contained, stage, review, process>>

\* apply_one: a saved rule was made, and the policy now clears the request.
RuleApplies(r) ==
    /\ broker = "up" /\ status[r] = "awaiting_human"
    /\ \E to \in ApprovedStatus(r) : Decide(r, to, "policy")
    /\ UNCHANGED <<creating, contained, stage, review, process>>

\* Mutant: the entry is recorded without the exclusive containment lock.
ContainNoLock(a) ==
    /\ broker = "up"
    /\ a \in contained => follow[a] \in {"idle", "cleared"}
    /\ contained' = contained \cup {a}
    /\ follow' = [follow EXCEPT ![a] = "start"]
    /\ todo' = [todo EXCEPT ![a] = {}]
    /\ UNCHANGED <<request, creating, review, process>>

\* lockdown::record takes the containment lock exclusively.  Bound: a second
\* entry for a contained agent waits for the follow-up of the first.
Contain(a) ==
    /\ broker = "up"
    /\ a \in contained => follow[a] \in {"idle", "cleared"}
    /\ creating = {}
    /\ contained' = contained \cup {a}
    /\ follow' = [follow EXCEPT ![a] = "start"]
    /\ todo' = [todo EXCEPT ![a] = {}]
    /\ UNCHANGED <<request, creating, review, process>>

Lift(a) ==
    /\ broker = "up" /\ a \in contained
    /\ creating = {}
    /\ contained' = contained \ {a}
    /\ UNCHANGED <<request, creating, stage, review, process>>

\* deny_pending lists, then denies one by one.
DenyList(a) ==
    /\ follow[a] = "start"
    /\ follow' = [follow EXCEPT ![a] = "deny"]
    /\ todo' = [todo EXCEPT ![a] = {r \in Requests : Owner[r] = a /\ status[r] \in Decidable}]
    /\ UNCHANGED <<request, creating, contained, review, process>>

\* One decided meanwhile is passed over.
DenyOne(a, r) ==
    /\ follow[a] = "deny" /\ r \in todo[a]
    /\ todo' = [todo EXCEPT ![a] = @ \ {r}]
    /\ IF status[r] \in Decidable THEN Decide(r, "denied", "human") ELSE UNCHANGED request
    /\ UNCHANGED <<creating, contained, follow, review, process>>

DenyDone(a) ==
    /\ follow[a] = "deny" /\ todo[a] = {}
    /\ follow' = [follow EXCEPT ![a] = "cleared"]
    /\ UNCHANGED <<request, creating, contained, todo, review, process>>

\* A store error in the listing or an item ends deny_pending.
DenyBreaks(a) ==
    /\ follow[a] \in {"start", "deny"} /\ faults < MaxFaults
    /\ faults' = faults + 1
    /\ follow' = [follow EXCEPT ![a] = "idle"]
    /\ todo' = [todo EXCEPT ![a] = {}]
    /\ UNCHANGED <<request, creating, contained, review, reviewer, broker>>

(***************************************************************************)
(* The process.                                                            *)
(***************************************************************************)

Crash ==
    /\ faults < MaxFaults
    /\ faults' = faults + 1
    /\ broker' = "boot"
    /\ reviewer' \in BOOLEAN
    /\ creating' = {}
    /\ follow' = [a \in Agents |-> "idle"]
    /\ todo' = [a \in Agents |-> {}]
    /\ review' = [t \in Tasks |-> Idle]
    /\ UNCHANGED <<request, contained>>

BootDone ==
    /\ broker = "boot"
    /\ broker' = "up"
    /\ UNCHANGED <<request, creating, contained, stage, review, reviewer, faults>>

EvalStep(t) ==
    \/ EvalRead(t) \/ EvalApprove(t) \/ EvalDeny(t) \/ EvalError(t)
    \/ EvalStale(t) \/ EvalBreaks(t) \/ EscalateFromLlm(t)

DenyStep(a) == DenyList(a) \/ DenyDone(a) \/ \E r \in Requests : DenyOne(a, r)

Next ==
    \/ \E r \in Requests : \/ CreateCheck(r) \/ CreateCommit(r) \/ CreateFails(r)
                           \/ Retry(r) \/ AgentEscalates(r)
                           \/ HumanDecides(r) \/ RuleApplies(r) \/ Resume(r)
    \/ \E t \in Tasks : EvalStep(t) \/ EvalLost(t)
    \/ \E a \in Agents : Contain(a) \/ Lift(a) \/ DenyStep(a) \/ DenyBreaks(a)
    \/ Crash \/ BootDone

Spec == Init /\ [][Next]_vars

\* Tasks run to an end (the reviewer has a timeout), transactions end, the boot
\* tick ends, and the scheduler keeps resuming.  Nobody owes a decision.
Fairness ==
    /\ WF_vars(BootDone)
    /\ \A t \in Tasks : WF_vars(EvalStep(t))
    /\ \A a \in Agents : WF_vars(DenyStep(a))
    /\ \A r \in Requests : WF_vars(Resume(r)) /\ WF_vars(CreateCommit(r) \/ CreateFails(r))

FairSpec == Spec /\ Fairness

(***************************************************************************)
(* Properties.                                                             *)
(***************************************************************************)

\* However many tasks review a request, a round has one recorded verdict, and
\* it is the verdict on that round's justification: evaluate's late answer is
\* dropped when a retry began a newer round or a duplicate task was faster.
VerdictsMatchRounds ==
    \A r \in Requests :
        /\ \A i \in DOMAIN evals[r] : evals[r][i].reviewed = evals[r][i].round
        /\ \A i, j \in DOMAIN evals[r] : i < j => evals[r][i].round < evals[r][j].round
        /\ \A i \in DOMAIN evals[r] : evals[r][i].round <= attempt[r]

\* A request the LLM decided was decided by the review of its last round, and
\* only then: a retry never runs on an older round's approval.
LlmDecidesLastRound ==
    \A r \in Requests :
        by[r] = "llm" /\ status[r] \in Decided \cup {"llm_denied"} =>
            /\ evals[r] # <<>>
            /\ evals[r][Len(evals[r])].reviewed = attempt[r]

\* Once a containment's denial stage went through, its agents have nothing left
\* to decide while they stay contained: no creation that had passed its check,
\* no retry and no late verdict brings a waiting request back.
ClearedHaveNothingWaiting ==
    \A a \in contained : follow[a] = "cleared" =>
        \A r \in Requests : Owner[r] = a => status[r] \notin Decidable

\* INV-15 over whole transactions: what a human was asked is never taken back
\* by a review task, and a decision is final.
HumanKeepsTheRequest ==
    [][\A r \in Requests :
         /\ status[r] = "awaiting_human" => status'[r] \in {"awaiting_human"} \cup Decided
         /\ status[r] \in Decided => status'[r] = status[r] /\ by'[r] = by[r]]_vars

\* A request does not stay under review: after lost tasks, failed escalations
\* and a restart without a reviewer it is decided, denied or with a human.
ReviewEnds ==
    \A r \in Requests : status[r] = "llm_evaluating" ~> status[r] # "llm_evaluating"

\* containment.rs, follow_up: "what is left, the scheduler finishes".  A
\* contained agent's waiting request is denied in the end.
ContainedRequestsAreDenied ==
    \A r \in Requests : (status[r] \in Decidable /\ Held(r))
                            ~> (status[r] \notin Decidable \/ ~Held(r))

(***************************************************************************)
(* The inductive invariant (see RequestReviewProofs).                      *)
(***************************************************************************)

\* While a round is under review it has no recorded verdict.
RoundIsOpen ==
    \A r \in Requests : status[r] = "llm_evaluating" =>
        \A i \in DOMAIN evals[r] : evals[r][i].round < attempt[r]

\* A creation past its check has no row yet, and the containment lock it holds
\* keeps its agent free.
CreationsAreClear == \A r \in creating : status[r] = "none" /\ ~Held(r)

\* The denial stage has on its list whatever its agent still has waiting.
DenialListIsComplete ==
    \A a \in contained : follow[a] = "deny" =>
        \A r \in Requests : Owner[r] = a /\ status[r] \in Decidable => r \in todo[a]

IInv ==
    /\ TypeOK
    /\ VerdictsMatchRounds /\ RoundIsOpen /\ LlmDecidesLastRound
    /\ CreationsAreClear /\ DenialListIsComplete /\ ClearedHaveNothingWaiting
=============================================================================
