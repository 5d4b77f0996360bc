# A TLA+ model of the agent-auth broker

agent-auth is a broker that stands between AI agents and the platforms they want
to use. An agent asks for access; policy, an LLM reviewer or a human decides; the
broker provisions a time-limited grant on the platform, hands out credentials
while the grant is live, and takes the access away again when it expires, is
revoked, or the agent is contained. PostgreSQL holds all state, one broker process
runs at a time, and platforms are called over the network from inside
transactions. This directory models that core, checks it with TLC and proves its
main invariants with TLAPS.

All paths below are relative to `src/rust/crates/` unless they start with `src/`.

## 1. Inventory

| Component | State it keeps | Operations | Hard behaviour |
|---|---|---|---|
| Grant lifecycle, `broker/src/service/provision.rs` | grant row (status, created, expires, reason), request status, external access | begin, finish, revoke, expire, reap, boot | platform calls inside transactions; crash between call and commit; slow calls; failing reverts |
| Request decisions, `broker/src/service/{create,decide,llm_task}.rs` | request row (status, attempt, decision source), LLM evaluations | create, review, retry, escalate, decide, apply a saved rule, deny | detached review tasks, late verdicts, duplicate resumptions |
| Containment, `broker/src/containment.rs`, `store/src/lockdown.rs` | containment entries, one advisory lock | record, follow-up, lift, check, sweep | the check must stay true to the commit; the follow-up is a task that can die |
| Scheduler, `broker/src/scheduler.rs` | nothing | boot tick, tick every 30 s | races with every task; is the only retry there is |
| LLDAP provisioner, `broker/src/provisioners/lldap.rs` | account name and sealed password on the agent row; LLDAP users and groups | ensure account, rotate, add, remove | one membership shared by many grants; two agents with one user id; a password set but not stored |
| Credential issuing, `store/src/grants.rs` (`issuable`), `broker/src/http/agent.rs` | nothing | mint | the decision must hold until the hand-out |
| Agents and leases, `store/src/{agents,sandboxes}.rs` | disabled flag, lease, keys | disable tree, enable, renew | disabling must not slip between check and commit |
| Agent-to-agent threads, `broker/src/a2a/`, `store/src/{a2a,sessions}.rs` | threads, messages, sessions, backing and delegated grants | open, send, accept, close, end session, sweep, delegate | checks made before the locks; two sessions after one thread; delegated grants die with thread and backing grant |
| Activity feed, `broker/src/a2a/{clock,service}.rs` | the activity clock, each thread's last stamp, the reader's cursor | stamp, commit, drop, poll | commits out of stamp order; pages; a wall clock that steps back |
| Host execution, `broker/src/hostexec/`, `hostd/` | jobs, shells, results, hostd's spool, the kill switch on both sides | start, kill, stop, exec, report, lock, unlock, recover | answers that come late or not at all, restarts of either side, results before their row, lockdown against admission |
| Daemon channel, `broker/src/daemons/`, `daemon/` | connections, pairing codes, pending calls | pair, connect, call, reply | reconnects, late and lost replies |
| Sandboxes, `broker/src/sandboxes/`, `sandboxd/` | minted agents, pending keys | mint, deliver, acknowledge, destroy | lost acknowledgements |
| Pool, `broker/src/provisioners/pool.rs`, `store/src/pool.rs` | leases of exclusive items | lease, release | two grants for one item |
| Policy, rules, zones, `core/src/{routing,zones,glob,authority}.rs` | YAML policy, saved rules | evaluate, gate | gates may only downgrade |
| OAuth, web UI, mail, Discord, wiki, model proxy, remote MCP, CLI, client, wire, crypto, import | tokens, sessions, aliases, records | | mostly I/O and rendering |

How they interact: a decision (human, LLM or rule) and `begin_provision` share a
transaction that writes the PROVISIONING row; after its commit a detached task runs
`finish_provision`. Every transaction that gives something to an agent first calls
`lockdown::check`, which takes the containment lock *shared* until the commit;
recording or lifting an entry, and disabling, take it *exclusively*. Grant rows are
locked `FOR UPDATE` by whoever changes them and `FOR SHARE` by a credential fetch.
The scheduler repeats what may have been lost.

What makes it correct: access exists only under a row that will remove it; a held
agent has no live grant and gets no credential; request and grant agree; a late
verdict never decides; a contained agent has nothing waiting; shared memberships
follow their grants; an LLDAP account belongs to one agent; a thread speaks only while
both parties and its grant are clear, and delegated access ends with it; a reader of
the feed misses nothing; what a host ran is known to the broker, and what the broker
stopped does not run.

## 2. Modules

| Module | Models | Lines of argument |
|---|---|---|
| `Provisioning` | a grant from the decision to its end | section 3 |
| `AccessPromise` | what that promises, without tasks, locks or crashes | refined by `Provisioning` |
| `ProvisioningProofs` | theorems about `Provisioning` | section 8 |
| `RequestReview` | a request from creation to its decision | section 4 |
| `RequestReviewProofs` | theorems about it | section 8 |
| `LldapMembership` | one group membership shared by an agent's grants | section 5 |
| `LldapMembershipProofs` | theorems about it | section 8 |
| `LldapAccount` | one LLDAP user id and the agents that derive it | section 5 |
| `LldapAccountProofs` | theorems about it | section 8 |
| `A2aThreads` | threads between agents, and access on the initiator's behalf | section 6 |
| `A2aThreadsProofs` | theorems about it | section 8 |
| `ActivityFeed` | the activity clock and the paged events feed | section 6 |
| `ActivityFeedProofs` | theorems about it | section 8 |
| `HostJobs` | a host's commands and shells: broker, channel, hostd | section 7 |
| `HostJobsProofs` | theorems about it | section 8 |
| `MC*` | instances for TLC | |

`Provisioning` and `RequestReview` meet at the decision: the statuses
`provisioning` and `provision_failed` that end a request in `RequestReview` are what
`Approve` and `ApproveRefused` start from an `open` request in `Provisioning`.
`LldapMembership` is the inside of one provisioner's `provision` and `revoke`, which
`Provisioning` sees as a platform that applies, fails or is slow. `HostJobs` is the
inside of another one, hostexec. `A2aThreads` sees a delegated grant's provisioning as
`Provisioning` leaves it: begun, activated, failed, or interrupted and reaped. Every
message, close and end of a thread in `A2aThreads` is a stamped write of `ActivityFeed`.

**Steps.** A transaction that only touches the database is one step, because its
row locks and compare-and-swap updates make it so. A transaction that waits for a
platform or a model while others can run into its locks is split at the wait, and
its locks appear as guards of the others (`Unlocked`, `NoCheckInFlight`, `Free`).
Store errors are explicit actions (`FinishLost`, `EvalBreaks`, `DenyBreaks`,
`StoreFails`, `OnConnectFails`, `FinishUnspooled`). A crash drops tasks and open transactions and keeps the database and
the platforms. Definitions named as mutants are deliberately wrong variants of the
definition that follows them; no specification uses them.

## 3. Provisioning

Variables follow the columns (`req`, `row`, `created`, `expires`, `abandoned`), the
platform (`ext`), the finishing task (`task`), a credential fetch (`mint`), the
follow-up of a containment (`follow`, `todo`), a failed revoke's second transaction
(`late`) and the process (`broker`, `registry`, `crashes`, `now`).

* `Approve`/`ApproveRefused` are `begin_provision`; `Finish*` and `Provision*` are the
  branches of `finish_inner`, in order: prepare, check, call, and then success
  (`ProvisionOk`), error (`ProvisionErr`, with `FinishRecord` when the error broke the
  transaction), deadline (`ProvisionSlow`), lost transaction (`FinishLost`); then
  `revoke_if_held` (`FinishPost`, `FinishRevoke`). The branch for a grant that "ended
  while it was provisioned" has no action: `FinishingIsCovered` shows it is never taken.
* `Undone`/`UndoFails` are `revoke_external`: an enabled platform acts, or fails having
  acted or not; a retired one is not called and the grant ends abandoned; one that is
  neither is an error.
* `Contain`, `Lift`, `Disable` take the containment lock exclusively; `Enable` only the
  agent's row. The follow-up lists and handles per stage, and the agents of one entry
  progress independently, which contains the code's sequential order.
* `AdminRevoke` is every caller of `revoke_grant` that has no state of its own: the
  operator, the agent's release, the scheduler for closed delegation threads.

Abstracted: what is requested, durations' caps, notifications, log entries. A request
that is not decided is `open`. The clock a transaction reads is the clock of its step.
The code also counts an agent whose containment has a lapsed lease as held
(`store/src/lockdown.rs:329`); here it is held from the `Disable` of the lease sweep on.

Bounds: two grants of one agent (`provisioning`), since every shared resource is
either per grant or global, and a sibling is what makes listing, sweeping and locking
interesting; one crash; a clock of one unit after which everything is due and stale;
one duration. `provisioning_live` has one grant and a clock of two units, so that
being due and being stale differ. The theorems remove all these bounds.

## 4. RequestReview

Policy is an environment: each `reroute` may give any route and any budget from
`Budgets`. Reviews are tasks (`review`); `Resume` may start a second one for a request
whose first still runs, as the scheduler cannot tell. A task reads the round and its
budget, waits for the model, and then `Current` decides whether its verdict counts.
`creating` holds the requests past their containment check, whose shared lock makes
`Contain` wait.

Abstracted: editing an approval, the hostexec approval gate, disabling (the same check
and lock as containment, modelled in `Provisioning`), notes and cards. A second entry
for a contained agent waits for the follow-up of the first (a bound). Bounds: one
request, because requests meet only in the follow-up's list, which the theorems cover for
any number; three review tasks, so that two stale ones meet a current one; budgets of one
and three rounds; two faults.

## 5. LLDAP

`LldapMembership`: an add and a remove hold the advisory lock from before their look
at the siblings until their transaction ends; the clock they judge siblings by was
read before the lock, so `seen` may be older than `lapsed`. `tried` remembers whose own
revocation began, as a failed one may have removed the membership. The race between
the reaper and a finishing task of the same grant is left to `Provisioning`.

`LldapAccount`: agents whose names give one user id. `ensure_account` is split at each
LLDAP call, and each call may fail having acted or not. `lost` remembers that a call
ended between setting and storing a password. Renaming an agent is not modelled.

Bounds: three grants; three agents and three passwords.

## 6. Threads, delegation and their feed

`A2aThreads`: the columns of `a2a_threads` (`state`, `opener`, `backing`, `origin`,
`bound`, `seq`), the sessions, the backing grants and their expiry, and the requests
and grants made on a thread's behalf (`deleg`).

* `open`, `send` and `accept` read the thread without a lock, check both parties under the
  shared containment lock (`PairClear`), and take the grant's and the thread's locks
  later. Each is a start and a finish; `calls` holds what the start saw. The finish looks
  at the locked thread again (`own`), and a send on a dead backing grant fails while the
  thread's end commits.
* `Close`, `EndSession`, `Sweep` and `CloseAllFor` are one transaction each. They wait for
  the thread's row (`Free`), which a credential fetch of a delegated grant holds shared.
* `Contain` and `Disable` take the containment lock, expire the agent's active grants
  (delegated ones too) and leave the threads to a task (`follow`) that a crash loses.
  `Enable` takes the agent's row only.
* `Request`, `BeginGrant`, `FinishGrant`, `Issue` and `RevokeDelegated` are `delegation::resolve`,
  `grants::begin` with `delegation_backing`, `finish_provision`, `issuable` and the
  scheduler's `revoke_delegated_for_closed_threads`.
* `issuable` does not lock the backing grant (`store/src/grants.rs:598`; the comment at line 530
  says that it does), so `EndBacking` may happen under a fetch. What holds is
  `IssuesOnOpenThread` for the thread, and `DelegationEnds`: the sweep closes a thread
  whose backing grant is dead, and the scheduler then revokes what was delegated.

The timeouts of a thread are one flag (`stale`), set by time and cleared by activity.
Bounds: one thread, which agent `a` may open on its grant or the operator on none; two
calls in flight, so that a call meets every other; one session of the responder beside
its sessionless voice; two messages, so that the cap is met; a clock of one unit, in
which the backing grant expires and a delegated grant of two units would outlive it;
one crash. Only the responder is held in the run; a held initiator differs in expiring
the backing grant, which the clock and `EndBacking` do as well.

`ActivityFeed`: a stamp is taken before its transaction commits (`Stamp`, `CommitTouch` or
`CommitClose`, `Drop`), a poll takes the horizon before its query (`Horizon`, `Query`), and
anything may happen between. `unseen` and `early` are history: what the reader has not
been given, and what had closed before it had a cursor, which the feed does not
announce. `CommitClose` closes any number of threads with one stamp, as a sweep, the end of
a session and a containment do. When they are more than a page holds, the page is cut
inside the stamp, the cursor moves to that stamp and the rest is never given: the comment
at `clock.rs:21` ("No activity is skipped and none is repeated") does not hold there, and
`NoneSkipped` and `Delivered` name the case as their exception (`Overfull`). Assumed: the wall
clock does not step back across a restart to a time an earlier process handed out. Bounds:
three threads and pages of two, so that a stamp fits a page or is too large for it,
two writers, two restarts, a wall clock of 0..3 that jumps freely. Two restarts, because
the second is where a floor taken only from the last process would fall back.

## 7. Host execution

`HostJobs` follows one grant, a command or a shell with a command in it, from
provisioning to a settled row and an empty spool. Broker: `start`, `exec` and `stop` are
calls in flight, `row` the committed `host_jobs` row (the row is written in the
transaction that waits for the host, so it is `none` until that commits), `killer` the task
`kill_until_acked`, `waiting` the results whose row was not there. Channel: `down` and `up`
are the messages in order; a cut loses all that the broker had not read and all or none
of what hostd had not. hostd: `proc` walks through `queued` (registered), `checked` (the lock
was read), `running`, `exited`, `ended`; a unit that survives a restart is an `orphan`;
`spool`, `killed`, `open` and the two-step lockdown (`locked`, then the kills in `locking`).

* An answer counts while its call waits (`OnAnswer`), otherwise it is `Late`; a caller that
  gives up leaves its message in flight (`Hangup`).
* A connection may be closed while a launch is being written (`StartTorn`, `ExecTorn`).
  `deliver` then reports `NotWritten` (`daemons/mod.rs:446-461`) and the row becomes refused,
  although the frame may still be flushed with the close: hostd may run a job the
  broker has as refused. `RefusedNeverRan` excludes such calls (stage `torn`), and the theorem
  says that this is the only way.
* A host is told of a lockdown by the operator's request (`BrokerTell`) and by the hook of its
  next connection (`OnConnect`). The request's handler may be dropped once the flag is
  committed (`TellDropped`), and the hook's transaction may fail, which is only logged
  (`OnConnectFails`); either leaves a connected host untold.
* A result that cannot be spooled is only logged (`FinishUnspooled`); its file says running
  until hostd starts again.
* Answering a call, storing a result and starting a job are one step each, as hostd's
  state lock and the row's conditional update make them. `Handle` is serial: the session
  loop handles a message before it reads the next, a lockdown included.
* `HostCrash` ends hostd's processes or leaves their units, loses everything in memory and
  runs `recover`; `BrokerCrash` rolls back the transactions of calls under way.

Left out: times. What they are taken to guarantee is in the module's comment: a job has
ended and its start is no longer in flight an hour after its timeout (`LOST_GRACE_SECS`),
and results of a week's age belong to settled or unknown rows. The lifetime of an
envelope would only remove behaviours (a late message is refused). A result that does
not arrive whole counts as not sent. Approvals, policy, the guard and the watcher are the
choice between refusing and launching. Bounds: one job, since jobs share only the
connection and the kill switch, which act on each alike; two faults (dropped or torn
connections, crashes, failing stores); one lockdown on either side; kills and results are sent into an empty channel, other messages queue.

Outside the properties, and listed as hazards: a unit left by a hostd restart is not
stopped by the grant's end once its row says lost; a broker crash during `job.start`
leaves a job without a row. Also met while modelling, and without a property: the task
`kill_until_acked` dies with the broker; a `shell.open` that was not answered leaves the
shell open at the host until its own expiry; an `executor.kill` that fails is only logged
although hostd acknowledges the kill, and a failing list of units counts as empty
(`NothingRunsLocked` assumes that systemd lists and stops); results cut off after they were
acknowledged keep their buffer (`MAX_BUFFERS_PER_HOST`).

## 8. Runs and theorems

| Run | Result |
|---|---|
| `provisioning` | passes: no orphaned access, held agents' grants are due, minting and finishing are covered, request and grant agree, `AccessPromise` is implemented |
| `provisioning_live` | passes: PROVISIONING rows are resolved, held grants end |
| `provisioning_dirty` | violated: a failed clean-up leaves access under a failed grant |
| `review` | passes: verdicts match rounds, a contained agent's queue stays empty, decisions are final, a review ends |
| `review_contained` | violated: a failed denial step is never repeated |
| `lldap_membership` | passes |
| `lldap_account` | passes |
| `lldap_password` | violated: set but not stored |
| `a2a_threads` | passes: messages and credentials only while thread, grant and parties stand; one session per side; closed is final; threads and delegated access end |
| `activity_feed` | passes: nothing skipped and everything delivered, except of a stamp larger than a page; nothing repeated |
| `host_jobs` | passes: a refused job never ran unless its call was torn, results are kept until stored, an ended grant's process was told to stop, nothing runs on a locked host, every job settles, a blocked host gets locked unless the handler was dropped or the hook failed |
| `host_untold` | violated: a host that reconnects is not locked when the hook fails |

**Fairness.** Tasks and transactions end, as every wait in them has a deadline
(`PROVISION_DEADLINE`, the HTTP and model timeouts); the scheduler ticks every 30 s; the
boot tick ends. `WF(ReapStale)` and `WF(Expire)` also say that a platform does not
refuse an undo forever: without that a row stays, by design, for the next tick. Nobody
owes a decision, a credential fetch or a lift. `review_contained` is refuted under the
same fairness, so the scheduler does have its turns there. In `A2aThreads` a fetch ends, time
passes and the sweep comes round; the sweep waits in the database's queue for a row a
fetch holds, hence strong fairness, while nothing is assumed of the tasks that close a
held agent's threads. In `ActivityFeed` transactions end and the reader polls. In `HostJobs`
the loops of both sides, timeouts, the scheduler and reconnecting are fair; `SendResult` is
strongly fair because `resend_loop` goes through the whole spool every 15 s although
connections come and go. A lockdown's handler either tells the host or is dropped
(`WF(BrokerTell \/ TellDropped)`): the route awaits it inline, so that it tells is not assumed.
Nothing is assumed of revocations, kills or faults.

**What the violations mean.** (1) `kubernetes.rs` says that a provision that fails
half-way removes what it made; `undo` only logs its failure, and `finish_inner` neither
calls `revoke` after an error nor leaves the row to the reaper as it does after a
timeout. (2) `follow_up` says that the scheduler finishes what a failed step left; no
job denies requests. (3) INV-L3 says the stored password is the last one set; it is set
first and stored afterwards. (4) A lockdown reports of a host it did not reach that "it is
locked when it reconnects" (`hostexec/lockdown.rs:186`); when the hook of the reconnect cannot
read the flag it gives up (`hostexec/mod.rs:721-727`), and the connected host stays unlocked
until it connects another time. An add that LLDAP applied but reported as failed is the
same as (1); the other runs assume `DirtyFailures = FALSE`.

**Proofs.** For all constants that satisfy the named assumptions. `IInv` of
`Provisioning` is the conjunction of the type invariant, `AccessIsAccountedFor`
(`NoOrphanAccess` with the leftovers of (1) set apart), `HeldGrantsAreDue`,
`MintingIsCovered`, `RequestAgreesWithGrant`, `FinishingIsCovered` and
`AbandonedHaveEnded`. None is inductive alone: that an activation creates no live grant of
a held agent needs that the agent was not held while the task was at the platform
(`FinishingIsCovered`), which needs the exclusive lock of `Contain`; that failing a grant
early leaves nothing behind needs that nothing was external before the call. One step
per action, each resting on the locks. `ImplementsPromise` maps request and row to a
phase and `ext` to access, and shows each step to be a step of `AccessPromise` or a
stutter; it and `NoOrphans` assume `~DirtyFailures`, without which (1) refutes them.

`IInv` of `LldapMembership` adds to the property that one transaction at a time is at the
membership (`OneAtATime`), what each transaction knows (`TransactionsHold`) and that
somebody who may have added it is left (`MembershipBacked`).

`IInv` of `RequestReview` adds to its three invariants: `RoundIsOpen`, a round under review has no
recorded verdict yet, so recording one keeps rounds and verdicts apart although two tasks
review the same request; `CreationsAreClear`, a creation past its check has no row and its agent
is free, because its shared lock makes `Contain` wait; `DenialListIsComplete`, the follow-up's
list has everything that still waits, so finishing the list empties the queue.
The action property `HumanKeepsTheRequest` needs only that a creation has no row yet.

`IInv` of `LldapAccount` adds `CallsOwnTheUser`: a call that is about to set or store a password
found the user made for its own agent, and what it will store is what LLDAP has. Without it
nothing connects the check of the account with the call made two steps later.
`AgentAssumption` says that an agent's id is none of the values that stand for no agent.

`IInv` of `A2aThreads` adds what the first half of a call saw and the second still relies on
(`CallsStayCleared`: the locks the call holds keep both parties clear), that nobody has
answered a pending thread (`PendingIsUnanswered`), that a delegation names a thread which was
answered (`DelegationsNameThreads`) and that no backing grant is prolonged (`NeverProlonged`).
The action properties `ClosedForGood` and `MessagesCleared` follow from it, one step per action.

`IInv` of `ActivityFeed` relates every stamp to the clock: what is committed or given lies below
what the clock hands out next, `Top`, also after a restart (`BelowTop`); a stamp in flight is
nobody else's, lies above the cursor and not below the horizon of a poll under way
(`StampsInFlight`, the reason a commit out of order is not skipped); threads
that share a stamp were closed together, so nothing but a group larger than a page
can be cut (`SharedAreClosed`); what the reader was given
lies up to its cursor (`GivenIsBelow`); what closed before the first cursor is in `early`
(`EarlyAreClosed`). That a
page is a prefix of the feed (`PageIsPrefix`) would be an induction over the page; it is proved
from the ranks the page is defined by and the pigeonhole principle instead. The proof found an error
of an earlier version of this model: a restart reset the floor to the last process's stamp,
so a process that stamped nothing let the floor fall below older stamps, and the second
restart skipped an event. The floor now never falls.

`IInv` of `HostJobs` has a part about the channel (a launch, and an open, is in flight at most once
per job, `Once`; a stop in flight fits its job, whose start is over or given up, `StopsFit`) and a part per
job, `JobInv`: call, row and grant match (`CallMatchesRow`), what a call asks for is in flight or
was done (`LaunchedOnce`), an answer in flight still holds when it arrives (`AnswersHold`), a
settled job is over at the host and only such a job is acknowledged (`SettledIsOver`). A torn
call has a refused row and nothing more is claimed of its host side. For
a job a step does not touch, `StillKeeps` shows that `JobInv` survives the loss of messages
in flight. The theorems are about any finite number of jobs, where
the run has one, so the argument that jobs do not disturb each other is proved too.
`StopsFit` and the part about answers were first written without the state of the start and
were not inductive: they admitted an unreachable state with a stop in flight before its start.

**Only model-checked.** The liveness properties `ProvisioningEnds`, `HeldGrantsEnd`, `ReviewEnds`,
`EveryThreadEnds`, `DelegationEnds`, `Delivered`, `EveryJobSettles` and `BlockedHostGetsLocked`, as
fairness is outside the prover, and the four violations, which are counterexamples. Every
invariant and every action property of a passing run is a theorem.

## 9. Not modelled, and plan

In this order:

1. Sandbox key delivery (minted agents, lost acknowledgements) and pool leases; both are
   small and have exclusive resources.
2. Policy gates as operators against a reference order (gates only downgrade).
3. OAuth refresh-token rotation.

Of the modelled components: zones, reachability and topic matching of threads, webhooks,
orphaning of inbound threads, host windows, arming and approval codes, umbrella scopes,
pairing and the handshake, editing an approval.

Left out for good: transports and their wire formats, rendering (web UI, Discord, mail,
desktop), the client, CLI and MCP bridge, which hold no state of the system, proxies to
models, wikis and remote MCP servers, cryptography, the Python import, and what a platform
does with a call after the broker stopped waiting for it (listed as a hazard). They are
most of the repository's lines: the modules stand for about 6,800 of its roughly 117,000 lines
of implementation (6%), the part that decides who holds which access and when it ends. Nothing
here says anything about the rest.
