---------------------------- MODULE Provisioning ----------------------------
(***************************************************************************)
(* The life of a grant in the broker: the deciding transaction that writes *)
(* the PROVISIONING row, the finishing task that calls the platform, the   *)
(* credential fetch, revocation, expiry, the reaper, containment with its  *)
(* follow-up task, the scheduler, and a broker crash followed by a boot    *)
(* tick.  One access request has at most one grant, so both are indexed by *)
(* the same set Grants.                                                    *)
(*                                                                         *)
(* A database transaction that only reads and writes rows is one step.     *)
(* A transaction that calls a platform while it holds locks and that other *)
(* parties can run into (finishing, minting) is split at the call, and its *)
(* locks are the predicates Unlocked and NoCheckInFlight.                  *)
(***************************************************************************)
EXTENDS Naturals, FiniteSets

CONSTANTS
    Grants,          \* access requests, and the grant each may get
    Agents,
    Owner,           \* the agent a request belongs to
    Durations,       \* approved durations, in clock units
    ReapAge,         \* scheduler::REAP_AGE, in clock units
    MaxTime,         \* bound: the clock stops here
    MaxCrashes,      \* bound: how often the broker dies
    ConfigChanges,   \* may a restart come up with the platform unconfigured?
    DirtyFailures    \* may a failed provision leave external state behind?

ASSUME OwnerAssumption    == Owner \in [Grants -> Agents]
ASSUME DurationAssumption == Durations \subseteq Nat \ {0}
ASSUME BoundAssumption    == ReapAge \in Nat /\ MaxTime \in Nat /\ MaxCrashes \in Nat
ASSUME SwitchAssumption   == ConfigChanges \in BOOLEAN /\ DirtyFailures \in BOOLEAN

VARIABLES
    now,        \* the clock
    contained,  \* agents some containment entry holds
    disabled,   \* agents disabled by the operator or at their lease's end
    req,        \* access_requests.status; "open" is every undecided status
    row,        \* grants.status; "none" while there is no row
    created,    \* grants.created_at
    expires,    \* grants.expires_at
    abandoned,  \* grants that ended with the reason "platform no longer configured"
    ext,        \* does the external access exist on the platform?
    task,       \* where the finishing task of a grant is
    mint,       \* is a credential being minted for the grant?
    late,       \* failed revokes whose expire_now has not run yet
    follow,     \* the stage of a containment's follow-up for an agent
    todo,       \* what that stage listed and has not reached yet
    broker,     \* "up", or "boot" while the boot tick runs
    registry,   \* is the platform enabled, retired, or neither?
    crashes     \* how often the broker died

hold   == <<contained, disabled>>
rows   == <<req, row, created, expires, abandoned>>
sweeps == <<follow, todo>>
world  == <<now, broker, registry, crashes>>
vars   == <<hold, rows, ext, task, mint, late, sweeps, world>>

RequestStatus == {"open", "denied", "provisioning", "granted", "provision_failed"}
GrantStatus   == {"none", "provisioning", "active", "expired", "revoked", "provision_failed"}
TaskStage     == {"none", "start", "prepared", "calling", "applied", "record", "post", "revoke"}
FollowStage   == {"idle", "start", "deny", "reap", "revoke"}

TypeOK ==
    /\ contained \in SUBSET Agents /\ disabled \in SUBSET Agents
    /\ req \in [Grants -> RequestStatus]
    /\ row \in [Grants -> GrantStatus]
    /\ created \in [Grants -> Nat] /\ expires \in [Grants -> Nat]
    /\ abandoned \in SUBSET Grants
    /\ ext \in [Grants -> BOOLEAN]
    /\ task \in [Grants -> TaskStage]
    /\ mint \in [Grants -> BOOLEAN]
    /\ late \in SUBSET Grants
    /\ follow \in [Agents -> FollowStage]
    /\ todo \in [Agents -> SUBSET Grants]
    /\ now \in Nat /\ crashes \in Nat
    /\ broker \in {"up", "boot"}
    /\ registry \in {"enabled", "retired", "absent"}

Init ==
    /\ contained = {} /\ disabled = {}
    /\ req = [g \in Grants |-> "open"]
    /\ row = [g \in Grants |-> "none"]
    /\ created = [g \in Grants |-> 0]
    /\ expires = [g \in Grants |-> 0]
    /\ abandoned = {}
    /\ ext = [g \in Grants |-> FALSE]
    /\ task = [g \in Grants |-> "none"]
    /\ mint = [g \in Grants |-> FALSE]
    /\ late = {}
    /\ follow = [a \in Agents |-> "idle"]
    /\ todo = [a \in Agents |-> {}]
    /\ now = 0 /\ crashes = 0
    /\ broker = "up"
    /\ registry = "enabled"

(***************************************************************************)
(* Containment, and the locks.                                             *)
(***************************************************************************)

\* lockdown::check refuses: a containment entry, or a disabled agent.
Held(a) == a \in contained \cup disabled

\* A finishing transaction past its containment check.
InFlight(g) == task[g] \in {"calling", "applied"}

\* The grant row can be locked FOR UPDATE (or updated): no finishing
\* transaction holds it FOR UPDATE and no credential fetch FOR SHARE.
Unlocked(g) == ~InFlight(g) /\ ~mint[g]

\* The containment lock can be taken exclusively: every transaction that made
\* a check and is still in flight holds it shared, whatever its agent.
NoCheckInFlight == \A g \in Grants : Unlocked(g)

Least(x, y) == IF x <= y THEN x ELSE y

\* grants::expire_now_of_agent for every agent of A.
ExpireNowOf(A) ==
    [g \in Grants |-> IF Owner[g] \in A /\ row[g] = "active"
                      THEN Least(expires[g], now) ELSE expires[g]]

\* Mutant: the entry is recorded without the exclusive containment lock.
ContainNoLock(A) ==
    /\ broker = "up" /\ A # {}
    /\ contained' = contained \cup A
    /\ expires' = ExpireNowOf(A)
    /\ follow' = [a \in Agents |-> IF a \in A THEN "start" ELSE follow[a]]
    /\ todo' = [a \in Agents |-> IF a \in A THEN {} ELSE todo[a]]
    /\ UNCHANGED <<disabled, req, row, created, abandoned, ext, task, mint, late, world>>

\* containment::record: the entry and the expiry of the held agents' grants
\* in one transaction; the follow-up is a task of its own (one still running
\* for the same agent has nothing left that the new one does not list again).
Contain(A) ==
    /\ broker = "up" /\ A # {}
    /\ NoCheckInFlight
    /\ contained' = contained \cup A
    /\ expires' = ExpireNowOf(A)
    /\ follow' = [a \in Agents |-> IF a \in A THEN "start" ELSE follow[a]]
    /\ todo' = [a \in Agents |-> IF a \in A THEN {} ELSE todo[a]]
    /\ UNCHANGED <<disabled, req, row, created, abandoned, ext, task, mint, late, world>>

Lift(a) ==
    /\ broker = "up" /\ a \in contained
    /\ NoCheckInFlight
    /\ contained' = contained \ {a}
    /\ UNCHANGED <<disabled, rows, ext, task, mint, late, sweeps, world>>

\* sandboxes::disable_tree: an agent and all minted under it, by the operator
\* or by the scheduler's lease sweep (which runs in the boot tick too).
Disable(A) ==
    /\ A # {}
    /\ NoCheckInFlight
    /\ disabled' = disabled \cup A
    /\ expires' = ExpireNowOf(A)
    /\ UNCHANGED <<contained, req, row, created, abandoned, ext, task, mint, late, sweeps, world>>

\* agents::set_disabled(false): only the agent row is locked.
Enable(a) ==
    /\ broker = "up" /\ a \in disabled
    /\ \A g \in Grants : Owner[g] = a => Unlocked(g)
    /\ disabled' = disabled \ {a}
    /\ UNCHANGED <<contained, rows, ext, task, mint, late, sweeps, world>>

(***************************************************************************)
(* Deciding: phase one.                                                    *)
(***************************************************************************)

Deny(g) ==
    /\ broker = "up" /\ req[g] = "open"
    /\ req' = [req EXCEPT ![g] = "denied"]
    /\ UNCHANGED <<hold, row, created, expires, abandoned, ext, task, mint, late, sweeps, world>>

\* An approval whose begin_provision finds the agent held (or, for a delegated
\* request, the delegation gone): the request fails and no row is written.
ApproveRefused(g) ==
    /\ broker = "up" /\ req[g] = "open"
    /\ req' = [req EXCEPT ![g] = "provision_failed"]
    /\ UNCHANGED <<hold, row, created, expires, abandoned, ext, task, mint, late, sweeps, world>>

\* An approval: begin_provision in the deciding transaction, then finish_detached.
Approve(g, d) ==
    /\ broker = "up" /\ req[g] = "open"
    /\ ~Held(Owner[g])
    /\ now + d <= MaxTime /\ now + ReapAge <= MaxTime   \* bound
    /\ req' = [req EXCEPT ![g] = "provisioning"]
    /\ row' = [row EXCEPT ![g] = "provisioning"]
    /\ created' = [created EXCEPT ![g] = now]
    /\ expires' = [expires EXCEPT ![g] = now + d]
    /\ task' = [task EXCEPT ![g] = "start"]
    /\ UNCHANGED <<hold, abandoned, ext, mint, late, sweeps, world>>

(***************************************************************************)
(* Undoing external state.                                                 *)
(***************************************************************************)

\* revoke_external succeeds.  A retired platform is not called: the grant just
\* ends and what it gave is left to the operator.
Undone(g) ==
    \/ /\ registry = "enabled"
       /\ ext' = [ext EXCEPT ![g] = FALSE]
       /\ abandoned' = abandoned
    \/ /\ registry = "retired"
       /\ ext' = ext
       /\ abandoned' = abandoned \cup {g}

\* revoke_external fails: the platform may have acted or not.  A platform that
\* is neither enabled nor retired is an error and nothing is called.
UndoFails(g) ==
    /\ registry # "retired"
    /\ \/ ext' = ext
       \/ registry = "enabled" /\ ext' = [ext EXCEPT ![g] = FALSE]

\* Mutant: the request is forgotten when the grant fails.
FailGrantOnly(g) ==
    /\ row' = [row EXCEPT ![g] = "provision_failed"]
    /\ UNCHANGED req

\* fail_provisioning and fail_request.
FailRows(g) ==
    /\ row' = [row EXCEPT ![g] = "provision_failed"]
    /\ req' = [req EXCEPT ![g] = IF @ = "provisioning" THEN "provision_failed" ELSE @]

\* Mutant: a status of its own, which grants.status does not know.
EndAsRetired(g, how) ==
    row' = [row EXCEPT ![g] = IF registry = "enabled" THEN how ELSE "retired"]

\* grants::end.
End(g, how) ==
    row' = [row EXCEPT ![g] = IF registry = "enabled" THEN how ELSE "revoked"]

(***************************************************************************)
(* Finishing: phase two (finish_provision).                                *)
(***************************************************************************)

SetTask(g, stage) == task' = [task EXCEPT ![g] = stage]

\* Reads the row and lets the provisioner prepare, before any lock.
FinishPrepare(g) ==
    /\ task[g] = "start"
    /\ SetTask(g, IF row[g] = "provisioning" THEN "prepared" ELSE "post")
    /\ UNCHANGED <<hold, rows, ext, mint, late, sweeps, world>>

\* The containment check, then the grant FOR UPDATE.
FinishCheck(g) ==
    /\ task[g] = "prepared"
    /\ \/ /\ row[g] # "provisioning"
          /\ SetTask(g, "post") /\ UNCHANGED <<req, row>>
       \/ /\ row[g] = "provisioning"
          /\ Held(Owner[g]) \/ registry # "enabled"
          /\ FailRows(g) /\ SetTask(g, "post")
       \/ /\ row[g] = "provisioning"
          /\ ~Held(Owner[g]) /\ registry = "enabled"
          /\ SetTask(g, "calling") /\ UNCHANGED <<req, row>>
    /\ UNCHANGED <<hold, created, expires, abandoned, ext, mint, late, sweeps, world>>

\* The platform applies what provision asked for; the broker does not know yet.
ProvisionApplied(g) ==
    /\ task[g] = "calling"
    /\ ext' = [ext EXCEPT ![g] = TRUE]
    /\ SetTask(g, "applied")
    /\ UNCHANGED <<hold, rows, mint, late, sweeps, world>>

\* provision answered: activate, the request granted, commit.
ProvisionOk(g) ==
    /\ task[g] = "applied"
    /\ row' = [row EXCEPT ![g] = "active"]
    /\ req' = [req EXCEPT ![g] = IF @ = "provisioning" THEN "granted" ELSE @]
    /\ SetTask(g, "post")
    /\ UNCHANGED <<hold, created, expires, abandoned, ext, mint, late, sweeps, world>>

\* prepare or provision returned an error: the grant fails and the platform is
\* not called again.  What the provisioner had done it undoes itself; with
\* DirtyFailures that clean-up may have failed too (it is only logged).  When the
\* error broke the transaction, the failure is recorded in a new one.
ProvisionErr(g) ==
    /\ InFlight(g)
    /\ \/ ext' = [ext EXCEPT ![g] = FALSE]
       \/ DirtyFailures /\ ext' = ext
    /\ \/ FailRows(g) /\ SetTask(g, "post")
       \/ UNCHANGED <<req, row>> /\ SetTask(g, "record")
    /\ UNCHANGED <<hold, created, expires, abandoned, mint, late, sweeps, world>>

\* That new transaction: the reaper may have been faster.
FinishRecord(g) ==
    /\ task[g] = "record"
    /\ IF row[g] = "provisioning" THEN FailRows(g) ELSE UNCHANGED <<req, row>>
    /\ SetTask(g, "post")
    /\ UNCHANGED <<hold, created, expires, abandoned, ext, mint, late, sweeps, world>>

\* Mutant: the grant fails although the revert did.
ProvisionSlowAlwaysFails(g) ==
    /\ InFlight(g)
    /\ \/ Undone(g)
       \/ UndoFails(g) /\ UNCHANGED abandoned
    /\ FailRows(g)
    /\ SetTask(g, "post")
    /\ UNCHANGED <<hold, created, expires, mint, late, sweeps, world>>

\* PROVISION_DEADLINE passed: revert, then fail; a failing revert leaves the
\* row PROVISIONING for the reaper.
ProvisionSlow(g) ==
    /\ InFlight(g)
    /\ \/ Undone(g) /\ FailRows(g)
       \/ UndoFails(g) /\ UNCHANGED <<req, row, abandoned>>
    /\ SetTask(g, "post")
    /\ UNCHANGED <<hold, created, expires, mint, late, sweeps, world>>

\* A store error (or a panic) ends finish_inner and rolls its transaction back.
FinishLost(g) ==
    /\ task[g] \in {"start", "prepared", "calling", "applied", "record"}
    /\ SetTask(g, "post")
    /\ UNCHANGED <<hold, rows, ext, mint, late, sweeps, world>>

\* revoke_if_held: the last thing the task does, unless the store fails.
FinishPost(g) ==
    /\ task[g] = "post"
    /\ \/ SetTask(g, IF row[g] = "active" /\ Held(Owner[g]) THEN "revoke" ELSE "none")
       \/ SetTask(g, "none")
    /\ UNCHANGED <<hold, rows, ext, mint, late, sweeps, world>>

(***************************************************************************)
(* Credentials.                                                            *)
(***************************************************************************)

\* grants::issuable inside the fetch's transaction, which stays open (the
\* containment lock shared, the row FOR SHARE) while the provisioner mints.
MintBegin(g) ==
    /\ broker = "up" /\ registry = "enabled"
    /\ row[g] = "active" /\ expires[g] > now
    /\ ~Held(Owner[g])
    /\ mint' = [mint EXCEPT ![g] = TRUE]
    /\ UNCHANGED <<hold, rows, ext, task, late, sweeps, world>>

MintEnd(g) ==
    /\ mint[g]
    /\ mint' = [mint EXCEPT ![g] = FALSE]
    /\ UNCHANGED <<hold, rows, ext, task, late, sweeps, world>>

(***************************************************************************)
(* Ending grants.                                                          *)
(***************************************************************************)

\* Mutant: revoke_grant reads the grant without FOR UPDATE.
RevokeNoLock(g) ==
    /\ row[g] = "active"
    /\ Undone(g)
    /\ End(g, "revoked")
    /\ UNCHANGED <<hold, req, created, expires, mint, late, world>>

\* revoke_grant, the two outcomes of the provisioner.
RevokeDone(g) ==
    /\ row[g] = "active" /\ Unlocked(g)
    /\ Undone(g)
    /\ End(g, "revoked")
    /\ UNCHANGED <<hold, req, created, expires, mint, late, world>>

\* The error path drops the transaction; expire_now runs in the next one.
RevokeFailed(g) ==
    /\ row[g] = "active" /\ Unlocked(g)
    /\ UndoFails(g)
    /\ late' = late \cup {g}
    /\ UNCHANGED <<hold, rows, mint, world>>

\* That next transaction (LEAST(expires_at, now), only of an active grant).
ExpireNow(g) ==
    /\ g \in late /\ Unlocked(g)
    /\ late' = late \ {g}
    /\ expires' = [expires EXCEPT ![g] = IF row[g] = "active" THEN Least(@, now) ELSE @]
    /\ UNCHANGED <<hold, req, row, created, abandoned, ext, task, mint, sweeps, world>>

\* An operator revokes, the agent releases, or the scheduler ends a delegated
\* grant whose thread closed (in the boot tick too).
AdminRevoke(g) ==
    /\ RevokeDone(g) \/ RevokeFailed(g)
    /\ UNCHANGED <<task, sweeps>>

\* The finishing task found its agent held after activating.
FinishRevoke(g) ==
    /\ task[g] = "revoke"
    /\ \/ RevokeDone(g)
       \/ RevokeFailed(g)
       \/ row[g] # "active" /\ UNCHANGED <<hold, rows, ext, mint, late, world>>
    /\ SetTask(g, "none")
    /\ UNCHANGED sweeps

\* Mutant: the reaper does not lock the grant.
ReapNoLock(g) ==
    /\ row[g] = "provisioning"
    /\ Undone(g)
    /\ FailRows(g)
    /\ UNCHANGED <<hold, created, expires, task, mint, late, world>>

\* reap_one, once the grant row is locked.
ReapDone(g) ==
    /\ row[g] = "provisioning" /\ Unlocked(g)
    /\ Undone(g)
    /\ FailRows(g)
    /\ UNCHANGED <<hold, created, expires, task, mint, late, world>>

ReapFailed(g) ==
    /\ row[g] = "provisioning" /\ Unlocked(g)
    /\ UndoFails(g)
    /\ UNCHANGED <<hold, rows, task, mint, late, world>>

(***************************************************************************)
(* A containment's follow-up task: three stages, each of which lists and   *)
(* then handles item by item.  The listing and each item are transactions  *)
(* of their own.  (Closing threads belongs to the a2a component.)          *)
(***************************************************************************)

Mine(a, status, s) == {g \in Grants : Owner[g] = a /\ status[g] = s}

FollowNext(a) ==
    /\ todo[a] = {}
    /\ \E next \in {<<"start", "deny", Mine(a, req, "open")>>,
                    <<"deny", "reap", Mine(a, row, "provisioning")>>,
                    <<"reap", "revoke", Mine(a, row, "active")>>,
                    <<"revoke", "idle", {}>>} :
         /\ follow[a] = next[1]
         /\ follow' = [follow EXCEPT ![a] = next[2]]
         /\ todo' = [todo EXCEPT ![a] = next[3]]
    /\ UNCHANGED <<hold, rows, ext, task, mint, late, world>>

Reached(a, g, stage) ==
    /\ follow[a] = stage /\ g \in todo[a]
    /\ todo' = [todo EXCEPT ![a] = @ \ {g}]
    /\ UNCHANGED follow

\* deny_pending: a request decided meanwhile is left alone.
FollowDeny(a, g) ==
    /\ Reached(a, g, "deny")
    /\ req[g] = "open"
    /\ req' = [req EXCEPT ![g] = "denied"]
    /\ UNCHANGED <<hold, row, created, expires, abandoned, ext, task, mint, late, world>>

\* reap_provisioning_of.
FollowReap(a, g) ==
    /\ Reached(a, g, "reap")
    /\ ReapDone(g) \/ ReapFailed(g)

FollowRevoke(a, g) ==
    /\ Reached(a, g, "revoke")
    /\ RevokeDone(g) \/ RevokeFailed(g)
    /\ UNCHANGED task

\* No longer in the listed status, or a store error: on to the next item.
FollowSkip(a, g) ==
    /\ \E stage \in FollowStage : Reached(a, g, stage)
    /\ UNCHANGED <<hold, rows, ext, task, mint, late, world>>

(***************************************************************************)
(* The scheduler.  Its jobs run in the boot tick too, where the reaper     *)
(* takes rows of any age.                                                  *)
(***************************************************************************)

\* Mutant: only the boot tick reaps.
StaleAtBoot(g) == broker = "boot"

Stale(g) == broker = "boot" \/ created[g] + ReapAge <= now

ReapStale(g) ==
    /\ Stale(g)
    /\ ReapDone(g)
    /\ UNCHANGED sweeps

ReapStaleFails(g) ==
    /\ Stale(g)
    /\ ReapFailed(g)
    /\ UNCHANGED sweeps

\* Mutant: the expiry pass leaves held agents to the follow-up task.
DueOfFreeAgents(g) ==
    row[g] = "active" /\ expires[g] <= now /\ Unlocked(g) /\ ~Held(Owner[g])

Due(g) == row[g] = "active" /\ expires[g] <= now /\ Unlocked(g)

Expire(g) ==
    /\ Due(g)
    /\ Undone(g)
    /\ End(g, "expired")
    /\ UNCHANGED <<hold, req, created, expires, task, mint, late, sweeps, world>>

\* Mutant: the grant is marked expired although the platform failed.
ExpireAnyway(g) ==
    /\ Due(g)
    /\ UndoFails(g)
    /\ End(g, "expired")
    /\ UNCHANGED <<hold, req, created, expires, abandoned, task, mint, late, sweeps, world>>

\* The grant stays active for the next pass.
ExpireFails(g) ==
    /\ Due(g)
    /\ UndoFails(g)
    /\ UNCHANGED <<hold, rows, task, mint, late, sweeps, world>>

\* containment::sweep_held.
SweepHeld(g) ==
    /\ Owner[g] \in contained
    /\ RevokeDone(g) \/ RevokeFailed(g)
    /\ UNCHANGED <<task, sweeps>>

(***************************************************************************)
(* The broker dies: every task and open transaction is gone, the database  *)
(* and the platforms keep what they have.  retire_unconfigured runs before *)
(* the boot tick.                                                          *)
(***************************************************************************)

Unconfigured ==
    IF \E g \in Grants : row[g] \in {"provisioning", "active"} THEN "retired" ELSE "absent"

Crash ==
    /\ crashes < MaxCrashes
    /\ crashes' = crashes + 1
    /\ broker' = "boot"
    /\ \/ registry' = "enabled"
       \/ ConfigChanges /\ registry' = Unconfigured
    /\ task' = [g \in Grants |-> "none"]
    /\ mint' = [g \in Grants |-> FALSE]
    /\ late' = {}
    /\ follow' = [a \in Agents |-> "idle"]
    /\ todo' = [a \in Agents |-> {}]
    /\ UNCHANGED <<hold, rows, ext, now>>

BootDone ==
    /\ broker = "boot"
    /\ broker' = "up"
    /\ UNCHANGED <<hold, rows, ext, task, mint, late, sweeps, now, registry, crashes>>

Tick ==
    /\ now < MaxTime
    /\ now' = now + 1
    /\ UNCHANGED <<hold, rows, ext, task, mint, late, sweeps, broker, registry, crashes>>

(***************************************************************************)

FinishStep(g) ==
    \/ FinishPrepare(g) \/ FinishCheck(g)
    \/ ProvisionApplied(g) \/ ProvisionOk(g) \/ ProvisionErr(g) \/ ProvisionSlow(g)
    \/ FinishRecord(g) \/ FinishLost(g) \/ FinishPost(g) \/ FinishRevoke(g)

Operator ==
    \/ \E A \in SUBSET Agents : Contain(A) \/ Disable(A)
    \/ \E a \in Agents : Lift(a) \/ Enable(a)
    \/ \E g \in Grants : Deny(g) \/ ApproveRefused(g) \/ AdminRevoke(g)
    \/ \E g \in Grants, d \in Durations : Approve(g, d)

FollowStep(a) ==
    \/ FollowNext(a)
    \/ \E g \in Grants : FollowDeny(a, g) \/ FollowReap(a, g) \/ FollowRevoke(a, g) \/ FollowSkip(a, g)

Scheduler ==
    \E g \in Grants : \/ ReapStale(g) \/ ReapStaleFails(g)
                      \/ Expire(g) \/ ExpireFails(g) \/ SweepHeld(g)

Next ==
    \/ Operator
    \/ \E g \in Grants : FinishStep(g) \/ MintBegin(g) \/ MintEnd(g) \/ ExpireNow(g)
    \/ \E a \in Agents : FollowStep(a)
    \/ Scheduler
    \/ Crash \/ BootDone \/ Tick

Spec == Init /\ [][Next]_vars

\* Tasks run to their end (every wait in them has a deadline), the scheduler
\* ticks, the boot tick ends, and a platform does not refuse an undo forever.
Fairness ==
    /\ WF_vars(Tick) /\ WF_vars(BootDone)
    /\ \A g \in Grants : /\ WF_vars(FinishStep(g)) /\ WF_vars(MintEnd(g)) /\ WF_vars(ExpireNow(g))
                         /\ WF_vars(ReapStale(g)) /\ WF_vars(Expire(g))
    /\ \A a \in Agents : WF_vars(FollowStep(a))

FairSpec == Spec /\ Fairness

(***************************************************************************)
(* Properties.                                                             *)
(***************************************************************************)

\* External access exists only under a grant row that is PROVISIONING or
\* ACTIVE, so something is left that will remove it: whatever was interleaved
\* with finish_inner, the reaper, revoke_grant, expiry and a crash, no ended or
\* failed grant (and no request without a row) still has access on the platform.
\* The one exception is a grant that ended because its platform is no longer
\* configured, which revoke_external leaves to the operator.
NoOrphanAccess ==
    \A g \in Grants : ext[g] => row[g] \in {"provisioning", "active"} \/ g \in abandoned

\* A held agent has no live grant: an active grant of a contained or disabled
\* agent is already past its expiry, so no credential is issued for it and the
\* expiry pass ends it.  The finishing task's activation must not slip past the
\* containment that was recorded while it ran (lockdown::check against
\* lockdown::record).
HeldGrantsAreDue ==
    \A g \in Grants : row[g] = "active" /\ Held(Owner[g]) => expires[g] <= now

\* While the provisioner mints a credential, the grant stays active and its
\* agent stays free: neither a containment nor a revoke, an expiry or a disable
\* commits between issuable's decision and the credential's hand-out.
MintingIsCovered ==
    \A g \in Grants : mint[g] => row[g] = "active" /\ ~Held(Owner[g])

\* The request and its grant tell the same story, although they are written in
\* different transactions by the decision, the finishing task and the reaper.
RequestAgreesWithGrant ==
    \A g \in Grants :
        /\ row[g] = "none" => req[g] \in {"open", "denied", "provision_failed"}
        /\ row[g] = "provisioning" => req[g] = "provisioning"
        /\ row[g] \in {"active", "expired", "revoked"} => req[g] = "granted"
        /\ row[g] = "provision_failed" => req[g] = "provision_failed"

\* While a finishing transaction is at the platform, nobody ends its grant,
\* holds its agent or loses what the platform applied, so the branch of
\* finish_inner for a grant "ended while it was provisioned" is dead; and before
\* the call there is nothing external, so failing a held agent's grant there
\* without an undo (finish_inner's early returns) leaves nothing behind; nor does
\* failing it in a second transaction after the first one broke.
FinishingIsCovered ==
    \A g \in Grants :
        /\ InFlight(g) => row[g] = "provisioning" /\ ~Held(Owner[g]) /\ registry = "enabled"
        /\ task[g] = "applied" => ext[g]
        /\ task[g] \in {"start", "prepared"} => ~ext[g]
        /\ task[g] = "record" => ~ext[g] \/ DirtyFailures

\* A grant is abandoned when it ends, not before.
AbandonedHaveEnded ==
    \A g \in abandoned : row[g] \in {"revoked", "provision_failed"}

\* NoOrphanAccess with the leftovers of a failed clean-up set apart.
AccessIsAccountedFor ==
    \A g \in Grants :
        ext[g] => \/ row[g] \in {"provisioning", "active"}
                  \/ g \in abandoned
                  \/ (DirtyFailures /\ row[g] = "provision_failed")

\* The inductive invariant: the properties above hold each other up.
IInv ==
    /\ TypeOK
    /\ AccessIsAccountedFor
    /\ HeldGrantsAreDue
    /\ MintingIsCovered
    /\ RequestAgreesWithGrant
    /\ FinishingIsCovered
    /\ AbandonedHaveEnded

\* What a request and its grant row mean to the agent.
Phase(g) ==
    IF g \in abandoned THEN "abandoned"
    ELSE CASE row[g] = "none" /\ req[g] = "open" -> "asked"
           [] row[g] = "provisioning"            -> "working"
           [] row[g] = "active"                  -> "granted"
           [] row[g] \in {"expired", "revoked"}  -> "over"
           [] OTHER                              -> "refused"

PhaseMap == [g \in Grants |-> Phase(g)]

Promise == INSTANCE AccessPromise WITH phase <- PhaseMap, access <- ext

\* The broker keeps AccessPromise: every step of every task, the reaper and a
\* crash included, is one of its steps or changes nothing a client can see.
KeepsPromise == Promise!Spec

\* A provision that fails half-way removes what it made (kubernetes.rs, the
\* module comment; the pattern every provisioner relies on, as finish_inner does
\* not call revoke after an error): a failed grant left nothing on the platform.
FailedProvisionLeavesNothing ==
    \A g \in Grants : row[g] = "provision_failed" /\ g \notin abandoned => ~ext[g]

\* Every PROVISIONING row is resolved: by its finishing task, or by the reaper
\* after a crash, a store error or a revert that failed.
ProvisioningEnds ==
    \A g \in Grants : row[g] = "provisioning" ~> row[g] # "provisioning"

\* A held agent's active grant ends, even when the follow-up task died with the
\* broker or its revoke failed: the expiry pass retries it.
HeldGrantsEnd ==
    \A g \in Grants : (row[g] = "active" /\ Held(Owner[g])) ~> row[g] # "active"
=============================================================================
