------------------------------ MODULE HostJobs ------------------------------
(***************************************************************************)
(* One host's commands: the broker's provisioner starts a job over the     *)
(* daemon channel, or opens a shell and sends a command on it; hostd       *)
(* admits, spools and runs it, and the result comes back until the broker  *)
(* acknowledges it.  Around that: calls that time out, connections that    *)
(* drop with messages in them, the kill of a job nobody answered for,      *)
(* revocation, the kill switch on both sides, the scheduler that gives     *)
(* jobs up as lost, and crashes of broker and hostd.                       *)
(*                                                                         *)
(* A grant has one job, so both have the same index; a shell is followed   *)
(* through one command.  The job row is written inside the transaction     *)
(* that calls the host and commits when the call has returned: until then  *)
(* row[j] is "none".                                                       *)
(*                                                                         *)
(* Times are left out.  What they are assumed to guarantee: a job has      *)
(* ended, and its start is no longer in flight, when the scheduler gives   *)
(* it up (an hour after its timeout), and a spooled result is a week old   *)
(* only when its row, if there is one, has settled.                        *)
(***************************************************************************)
EXTENDS Naturals, Sequences, SequencesExt

CONSTANTS
    Jobs,        \* hostexec grants of one host, and the job of each
    MaxFaults,   \* bound: dropped connections, crashes and failing stores, on both sides
    MaxLocks,    \* bound: lockdowns, by the broker and at the host
    MaxInFlight  \* bound: messages in flight when a kill or a result is sent

ASSUME JobsAssumption  == IsFiniteSet(Jobs)
ASSUME BoundAssumption == MaxFaults \in Nat /\ MaxLocks \in Nat /\ MaxInFlight \in Nat

VARIABLES
    kind,     \* is the grant one command, or a shell?
    grant,    \* the grant's status
    start,    \* where the provisioning call (job.start, shell.open) is
    exec,     \* where the call of the shell's command (shell.exec) is
    row,      \* host_jobs.status; "none" while no row is committed
    killer,   \* the task kill_until_acked of a job
    stop,     \* grants whose end waits for an answer to job.kill or shell.close
    waiting,  \* results whose row was not there, retried in the background
    blocked,  \* the broker's lockdown flag names this host
    tell,     \* a lockdown's call of the host: due once the flag is set
    hook,     \* the on_connect hook of the connection: due until it has run
    link,     \* does the broker have a live connection of the host?
    down,     \* messages to the host
    up,       \* messages to the broker
    proc,     \* the job at the host
    open,     \* shells open at the host
    killed,   \* jobs whose kill signal is set
    spool,    \* hostd's spool file of a job
    locked,   \* hostd's lockdown flag
    locking,  \* lockdowns whose flag is set and whose kills are still to come
    faults,   \* faults so far
    locks     \* lockdowns so far

broker  == <<kind, grant, start, exec, row, killer, stop, waiting>>
switch  == <<blocked, tell, hook>>
channel == <<link, down, up>>
host    == <<proc, open, killed, spool, locked, locking>>
bounds  == <<faults, locks>>
vars    == <<broker, switch, channel, host, bounds>>

Final    == {"done", "lost", "refused"}
InJobs   == {"queued", "checked", "running", "exited"}
Reported == {"done", "lost"}
Stage    == {"new", "calling", "over", "torn", "dropped"}
Caller   == {"task", "stop", "nobody"}  \* who waits for the answer to a kill or close

ToHost ==
    [kind : {"start", "open", "exec", "ack"}, job : Jobs]
        \cup [kind : {"kill", "close"}, job : Jobs, by : Caller]
        \cup [kind : {"lockdown"}]
ToBroker ==
    [kind : {"started", "opened", "refused"} \cup Reported, job : Jobs]
        \cup [kind : {"stopped"}, job : Jobs, by : Caller]

TypeOK ==
    /\ grant \in [Jobs -> {"provisioning", "active", "failed", "ended"}]
    /\ kind \in [Jobs -> {"command", "shell"}]
    /\ start \in [Jobs -> Stage] /\ exec \in [Jobs -> Stage]
    /\ row \in [Jobs -> {"none", "starting", "running"} \cup Final]
    /\ killer \in [Jobs -> {"none", "idle", "calling"}]
    /\ stop \in SUBSET Jobs
    /\ waiting \in [Jobs -> SUBSET Reported]
    /\ blocked \in BOOLEAN 
    /\ tell \in {"none", "due", "dropped"} /\ hook \in {"none", "due", "failed"}
    /\ link \in BOOLEAN
    /\ down \in Seq(ToHost) /\ up \in Seq(ToBroker)
    /\ proc \in [Jobs -> {"none", "orphan", "ended"} \cup InJobs]
    /\ open \in SUBSET Jobs /\ killed \in SUBSET Jobs
    /\ spool \in [Jobs -> {"none", "running"} \cup Reported]
    /\ locked \in BOOLEAN
    /\ locking \in SUBSET {"broker", "local"}
    /\ faults \in Nat /\ locks \in Nat

Init ==
    /\ kind \in [Jobs -> {"command", "shell"}]
    /\ grant = [j \in Jobs |-> "provisioning"]
    /\ start = [j \in Jobs |-> "new"] /\ exec = [j \in Jobs |-> "new"]
    /\ row = [j \in Jobs |-> "none"]
    /\ killer = [j \in Jobs |-> "none"]
    /\ stop = {}
    /\ waiting = [j \in Jobs |-> {}]
    /\ blocked = FALSE /\ tell = "none" /\ hook = "none"
    /\ link = TRUE /\ down = <<>> /\ up = <<>>
    /\ proc = [j \in Jobs |-> "none"]
    /\ open = {} /\ killed = {}
    /\ spool = [j \in Jobs |-> "none"]
    /\ locked = FALSE /\ locking = {}
    /\ faults = 0 /\ locks = 0

Quiet == Len(down) + Len(up) < MaxInFlight

Set(f, j, v) == [f EXCEPT ![j] = v]

Fault == faults < MaxFaults /\ faults' = faults + 1

\* The broker forgets the connection.  Of the messages it was writing hostd has
\* one of these sequences and still handles it before it connects again.
Disconnected(written) ==
    /\ link' = FALSE /\ up' = <<>> /\ hook' = "none"
    /\ down' \in written

(***************************************************************************)
(* The broker: start, kill, stop.                                          *)
(***************************************************************************)

Send(m) == down' = Append(down, m)

\* HostExec::start: job.start (its row inserted first) or shell.open.
StartMessage(j) == [kind |-> IF kind[j] = "shell" THEN "open" ELSE "start", job |-> j]

StartCall(j) ==
    /\ start[j] = "new" /\ link
    /\ start' = Set(start, j, "calling")
    /\ Send(StartMessage(j))
    /\ UNCHANGED <<kind, grant, exec, row, killer, stop, waiting, switch, link, up, host, bounds>>

\* The call has come to this stage and its transaction commits: the grant, and
\* the row of a command with this status.
Conclude(j, stage, status, g) ==
    /\ start' = Set(start, j, stage)
    /\ row' = IF kind[j] = "command" THEN Set(row, j, status) ELSE row
    /\ grant' = Set(grant, j, g)
    /\ UNCHANGED <<kind, exec>>

\* start when the host is offline: nothing was written, the job is refused.
StartOffline(j) ==
    /\ start[j] = "new" /\ ~link
    /\ Conclude(j, "over", "refused", "failed")
    /\ UNCHANGED <<killer, stop, waiting, switch, channel, host, bounds>>

\* start when the connection is closed during the write (deliver): the call
\* counts as not written and the job as refused, but hostd may get the message
\* with the close frame.
StartTorn(j) ==
    /\ start[j] = "new" /\ link /\ Fault
    /\ Conclude(j, "torn", "refused", "failed")
    /\ Disconnected({<<>>, down, Append(down, StartMessage(j))})
    /\ UNCHANGED <<killer, stop, waiting, blocked, tell, host, locks>>

\* Mutant: no answer is taken for a refusal.
StartTimeoutRefuses(j) ==
    /\ start[j] = "calling"
    /\ Conclude(j, "over", "refused", "failed")
    /\ UNCHANGED <<killer, stop, waiting, switch, channel, host, bounds>>

\* start when no answer comes in time: a job may run, so its row stays and a
\* task kills it; provisioning fails.  A shell is left as it is.
StartTimeout(j) ==
    /\ start[j] = "calling"
    /\ Conclude(j, "over", "starting", "failed")
    /\ killer' = IF kind[j] = "command" THEN Set(killer, j, "idle") ELSE killer
    /\ UNCHANGED <<stop, waiting, switch, channel, host, bounds>>

\* HostExec::shell_exec up to its call: the grant is checked, and share-locked
\* until the call returns, the lockdown flag is read and the row inserted.
ExecAllowed(j) ==
    kind[j] = "shell" /\ exec[j] = "new" /\ grant[j] = "active" /\ j \notin stop /\ ~blocked

ExecCall(j) ==
    /\ ExecAllowed(j) /\ link
    /\ exec' = Set(exec, j, "calling")
    /\ Send([kind |-> "exec", job |-> j])
    /\ UNCHANGED <<kind, grant, start, row, killer, stop, waiting, switch, link, up, host, bounds>>

\* shell_exec after its call.
ExecOver(j, stage, status) ==
    /\ exec' = Set(exec, j, stage)
    /\ row' = Set(row, j, status)
    /\ UNCHANGED <<kind, grant, start, killer, stop, waiting>>

\* Refused by the guard, not shown to the operator, or the host is offline.
ExecNotSent(j) ==
    /\ ExecAllowed(j)
    /\ ExecOver(j, "over", "refused")
    /\ UNCHANGED <<switch, channel, host, bounds>>

\* The connection is closed during the write, as in StartTorn.
ExecTorn(j) ==
    /\ ExecAllowed(j) /\ link /\ Fault
    /\ ExecOver(j, "torn", "refused")
    /\ Disconnected({<<>>, down, Append(down, [kind |-> "exec", job |-> j])})
    /\ UNCHANGED <<blocked, tell, host, locks>>

ExecTimeout(j) ==
    /\ exec[j] = "calling"
    /\ ExecOver(j, "over", "starting")
    /\ UNCHANGED <<switch, channel, host, bounds>>

\* The caller stops waiting: the message stays in flight, its answer is late.
Unawaited(q, j, who) ==
    [i \in DOMAIN q |->
        IF q[i].kind \in {"kill", "close", "stopped"} /\ q[i].job = j /\ q[i].by = who
        THEN [q[i] EXCEPT !.by = "nobody"] ELSE q[i]]
Hangup(j, who) == down' = Unawaited(down, j, who) /\ up' = Unawaited(up, j, who)

\* kill_until_acked: one round's call.
KillCall(j) ==
    /\ killer[j] = "idle" /\ link /\ Quiet
    /\ killer' = Set(killer, j, "calling")
    /\ Send([kind |-> "kill", job |-> j, by |-> "task"])
    /\ UNCHANGED <<kind, grant, start, exec, row, stop, waiting, switch, link, up, host, bounds>>

\* kill_until_acked: the host was offline or did not answer.  The task ends
\* when the row has settled or its day is over, and tries again otherwise.
KillMissed(j) ==
    /\ killer[j] = "calling" \/ (killer[j] = "idle" /\ ~link)
    /\ \/ killer' = Set(killer, j, "none")
       \/ row[j] \notin Final /\ killer' = Set(killer, j, "idle")
    /\ Hangup(j, "task")
    /\ UNCHANGED <<kind, grant, start, exec, row, stop, waiting, switch, link, host, bounds>>

\* May the broker end the grant?  Revocation, expiry and containment take an
\* active one, which a shell.exec under way holds locked; the reaper takes one
\* whose provisioning a crash cut short.
Endable(j) ==
    /\ j \notin stop /\ exec[j] # "calling"
    /\ grant[j] = "active" \/ (grant[j] = "provisioning" /\ start[j] = "dropped")

Ended(j) == grant' = Set(grant, j, IF grant[j] = "active" THEN "ended" ELSE "failed")

\* HostExec::stop: is there something the host must stop first?  A command
\* with no row, or a settled one, needs nothing; a shell is always closed.
MustAsk(j) == kind[j] = "shell" \/ row[j] \in {"starting", "running"}

\* Mutant: a host that is offline is taken for one that stopped the job.
EndUnaskedOffline(j) ==
    /\ Endable(j) /\ (~MustAsk(j) \/ ~link)
    /\ Ended(j)
    /\ UNCHANGED <<kind, start, exec, row, killer, stop, waiting, switch, channel, host, bounds>>

EndUnasked(j) ==
    /\ Endable(j) /\ ~MustAsk(j)
    /\ Ended(j)
    /\ UNCHANGED <<kind, start, exec, row, killer, stop, waiting, switch, channel, host, bounds>>

\* stop asks the host; an offline host fails it, and it is tried again.
StopCall(j) ==
    /\ Endable(j) /\ MustAsk(j) /\ link /\ Quiet
    /\ stop' = stop \cup {j}
    /\ Send([kind |-> IF kind[j] = "shell" THEN "close" ELSE "kill", job |-> j, by |-> "stop"])
    /\ UNCHANGED <<kind, grant, start, exec, row, killer, waiting, switch, link, up, host, bounds>>

\* No answer to stop's call: the grant stays as it is.
StopTimeout(j) ==
    /\ j \in stop
    /\ stop' = stop \ {j}
    /\ Hangup(j, "stop")
    /\ UNCHANGED <<kind, grant, start, exec, row, killer, waiting, switch, link, host, bounds>>

(***************************************************************************)
(* The broker: results.                                                    *)
(***************************************************************************)

Ack(j) == [kind |-> "ack", job |-> j]

\* store_result: a reported outcome settles a row that has not settled.
Stored(j, outcome) ==
    row' = IF row[j] \in Final THEN row ELSE Set(row, j, outcome)

\* Mutant: only a result that was stored now is acknowledged.
OnResultFreshOnly(j, outcome) ==
    /\ row[j] # "none"
    /\ Stored(j, outcome)
    /\ down' = IF row[j] \in Final THEN down ELSE Append(down, Ack(j))
    /\ UNCHANGED <<kind, grant, start, exec, killer, stop, waiting>>

\* on_done: stored or already settled, the result is acknowledged.
OnResult(j, outcome) ==
    /\ row[j] # "none"
    /\ Stored(j, outcome)
    /\ down' = Append(down, Ack(j))
    /\ UNCHANGED <<kind, grant, start, exec, killer, stop, waiting>>

\* Mutant: a result without a row is acknowledged at once.
OnEarlyResultAcked(j, outcome) ==
    /\ row[j] = "none"
    /\ waiting' = Set(waiting, j, waiting[j] \cup {outcome})
    /\ down' = Append(down, Ack(j))
    /\ UNCHANGED <<kind, grant, start, exec, row, killer, stop>>

\* on_done: the row is not committed yet; a background task tries again.
OnEarlyResult(j, outcome) ==
    /\ row[j] = "none"
    /\ waiting' = Set(waiting, j, waiting[j] \cup {outcome})
    /\ UNCHANGED <<kind, grant, start, exec, row, killer, stop, down>>

\* The background task finds the row, or gives up after its last attempt.
\* An acknowledgement to an offline host is lost.
StoreWaiting(j, outcome) ==
    /\ outcome \in waiting[j] /\ row[j] # "none"
    /\ waiting' = Set(waiting, j, waiting[j] \ {outcome})
    /\ Stored(j, outcome)
    /\ down' = IF link THEN Append(down, Ack(j)) ELSE down
    /\ UNCHANGED <<kind, grant, start, exec, killer, stop, switch, link, up, host, bounds>>

GiveUpWaiting(j, outcome) ==
    /\ outcome \in waiting[j]
    /\ waiting' = Set(waiting, j, waiting[j] \ {outcome})
    /\ UNCHANGED <<kind, grant, start, exec, row, killer, stop, switch, channel, host, bounds>>

StartInFlight(j) == \E i \in DOMAIN down : down[i].kind \in {"start", "exec"} /\ down[i].job = j

\* scheduler_tick: a job without a result long after its timeout is lost.
MarkLost(j) ==
    /\ row[j] \in {"starting", "running"}
    /\ proc[j] \in {"none", "ended"}
    /\ ~StartInFlight(j)
    /\ row' = Set(row, j, "lost")
    /\ UNCHANGED <<kind, grant, start, exec, killer, stop, waiting, switch, channel, host, bounds>>

\* Is job j's row in a transaction that has not committed?
InTx(j) == start[j] = "calling" \/ exec[j] = "calling"

\* An answer counts while its call still waits.
OnAnswer(m) ==
    \/ /\ m.kind \in {"started", "opened"} /\ start[m.job] = "calling"
       /\ Conclude(m.job, "over", "running", "active")
       /\ UNCHANGED <<killer, stop, waiting, down>>
    \/ /\ m.kind = "refused" /\ start[m.job] = "calling"
       /\ Conclude(m.job, "over", "refused", "failed")
       /\ UNCHANGED <<killer, stop, waiting, down>>
    \/ /\ m.kind \in {"started", "refused"} /\ exec[m.job] = "calling"
       /\ ExecOver(m.job, "over", IF m.kind = "started" THEN "running" ELSE "refused")
       /\ UNCHANGED down
    \/ /\ m.kind = "stopped" /\ m.by = "task"
       /\ killer' = Set(killer, m.job, "none")
       /\ UNCHANGED <<kind, grant, start, exec, row, stop, waiting, down>>
    \/ /\ m.kind = "stopped" /\ m.by = "stop"
       /\ stop' = stop \ {m.job}
       /\ Ended(m.job)
       /\ UNCHANGED <<kind, start, exec, row, killer, waiting, down>>

Late(m) ==
    \/ m.kind \in {"started", "opened", "refused"} /\ ~InTx(m.job)
    \/ m.kind = "stopped" /\ m.by = "nobody"

\* The broker's receive loop takes the next message of the connection.
Receive ==
    /\ link /\ up # <<>>
    /\ up' = Tail(up)
    /\ LET m == Head(up) IN
       \/ m.kind \in Reported /\ (OnResult(m.job, m.kind) \/ OnEarlyResult(m.job, m.kind))
       \/ OnAnswer(m)
       \/ Late(m) /\ UNCHANGED <<broker, down>>
    /\ UNCHANGED <<switch, link, host, bounds>>

(***************************************************************************)
(* The broker's side of the kill switch.                                   *)
(***************************************************************************)

\* hostexec::lockdown sets the flag, and calls the host after that.
BrokerLock ==
    /\ locks < MaxLocks /\ locks' = locks + 1
    /\ blocked' = TRUE /\ tell' = "due"
    /\ UNCHANGED <<broker, hook, channel, host, faults>>

BrokerTell ==
    /\ tell = "due" /\ tell' = "none"
    /\ IF link THEN Send([kind |-> "lockdown"]) ELSE UNCHANGED down
    /\ UNCHANGED <<broker, blocked, hook, link, up, host, bounds>>

\* lockdown runs inside lockdown_route: the handler goes with its request, and
\* the call is not made.
TellDropped ==
    /\ tell = "due" /\ tell' = "dropped"
    /\ UNCHANGED <<broker, blocked, hook, channel, host, bounds>>

\* shell.close for the shells that ended.
StaleCloses ==
    LET gone == SetToSeq({j \in Jobs : kind[j] = "shell" /\ grant[j] = "ended"})
    IN  [i \in DOMAIN gone |-> [kind |-> "close", job |-> gone[i], by |-> "nobody"]]

\* Mutant: a host that connects is not told of the lockdown.
OnConnectSilent ==
    /\ hook = "due" /\ hook' = "none"
    /\ down' = down \o StaleCloses
    /\ UNCHANGED <<broker, blocked, tell, link, up, host, bounds>>

\* on_connect, a task of its own: other messages may overtake it.
OnConnect ==
    /\ hook = "due" /\ hook' = "none"
    /\ down' = down \o (IF blocked THEN <<[kind |-> "lockdown"]>> ELSE <<>>) \o StaleCloses
    /\ UNCHANGED <<broker, blocked, tell, link, up, host, bounds>>

\* on_connect's transaction fails: the error is logged and nothing is sent.
OnConnectFails ==
    /\ Fault
    /\ hook = "due" /\ hook' = "failed"
    /\ UNCHANGED <<broker, blocked, tell, channel, host, locks>>

\* hostexec::unlock clears the flag.
BrokerUnlock ==
    /\ blocked /\ blocked' = FALSE
    /\ UNCHANGED <<broker, tell, hook, channel, host, bounds>>

(***************************************************************************)
(* The channel.                                                            *)
(***************************************************************************)

Cut ==
    /\ Fault /\ link
    /\ Disconnected({down, <<>>})
    /\ UNCHANGED <<broker, blocked, tell, host, locks>>

Reconnect ==
    /\ ~link /\ link' = TRUE /\ hook' = "due"
    /\ down' = <<>>
    /\ UNCHANGED <<broker, blocked, tell, up, host, bounds>>

\* The broker dies and starts again: calls, tasks and the transactions of
\* provisionings under way are gone, the rows stay.
BrokerCrash ==
    /\ Fault
    /\ start' = [j \in Jobs |-> IF start[j] = "calling" THEN "dropped" ELSE start[j]]
    /\ exec' = [j \in Jobs |-> IF exec[j] = "calling" THEN "dropped" ELSE exec[j]]
    /\ killer' = [j \in Jobs |-> "none"]
    /\ stop' = {}
    /\ waiting' = [j \in Jobs |-> {}]
    /\ tell' = "none"
    /\ Disconnected({<<>>, [i \in DOMAIN down |->
                               IF down[i].kind \in {"kill", "close"} THEN [down[i] EXCEPT !.by = "nobody"]
                               ELSE down[i]]})
    /\ UNCHANGED <<kind, grant, row, blocked, host, locks>>

(***************************************************************************)
(* hostd.                                                                  *)
(***************************************************************************)

\* An answer or a result is sent, and lost when the connection is down.
Reply(m) == up' = IF link THEN Append(up, m) ELSE up

AlreadyRan(j) == proc[j] \in InJobs \cup {"orphan"} \/ spool[j] # "none"

\* job_start, shell_open and shell_exec: refused for a job that ran, on a
\* locked host, by the host's policy, because the shell is not open, or
\* because the job could not be spooled.
Refuse(j) ==
    /\ Reply([kind |-> "refused", job |-> j])
    /\ UNCHANGED host

\* shell_open: the approval is spent and the shell kept with its expiry.
OpenShell(j) ==
    /\ ~locked
    /\ open' = open \cup {j}
    /\ Reply([kind |-> "opened", job |-> j])
    /\ UNCHANGED <<proc, killed, spool, locked, locking>>

\* job_start, shell_exec and launch: spooled and registered under the state lock.
LaunchJob(j) ==
    /\ ~AlreadyRan(j) /\ ~locked
    /\ kind[j] = "shell" => j \in open
    /\ spool' = Set(spool, j, "running")
    /\ proc' = Set(proc, j, "queued")
    /\ Reply([kind |-> "started", job |-> j])
    /\ UNCHANGED <<open, killed, locked, locking>>

\* Hostd::kill: a job of this hostd gets the signal, one left from an earlier
\* hostd is stopped, any other is not there.
KillJob(j, who) ==
    /\ killed' = IF proc[j] \in InJobs THEN killed \cup {j} ELSE killed
    /\ proc' = IF proc[j] = "orphan" THEN Set(proc, j, "ended") ELSE proc
    /\ Reply([kind |-> "stopped", job |-> j, by |-> who])
    /\ UNCHANGED <<open, spool, locked, locking>>

\* end_shell: the shell is gone, and the command this hostd runs in it killed.
EndShell(j) ==
    /\ open' = open \ {j}
    /\ killed' = IF j \in open /\ proc[j] \in InJobs THEN killed \cup {j} ELSE killed
    /\ UNCHANGED <<proc, spool, locked, locking>>

\* The shell's own timer.
ShellExpires(j) ==
    /\ j \in open
    /\ EndShell(j)
    /\ UNCHANGED <<broker, switch, channel, bounds>>

\* Spool::ack drops a finished result only.
AckJob(j) ==
    /\ spool' = IF spool[j] \in Reported THEN Set(spool, j, "none") ELSE spool
    /\ UNCHANGED <<proc, open, killed, locked, locking, up>>

\* The session loop takes the next message and handles it before the next.
Handle ==
    /\ down # <<>> /\ "broker" \notin locking
    /\ down' = Tail(down)
    /\ LET m == Head(down) IN
       \/ m.kind \in {"start", "exec"} /\ (Refuse(m.job) \/ LaunchJob(m.job))
       \/ m.kind = "open" /\ (Refuse(m.job) \/ OpenShell(m.job))
       \/ /\ m.kind = "close" /\ EndShell(m.job)
          /\ Reply([kind |-> "stopped", job |-> m.job, by |-> m.by])
       \/ m.kind = "kill" /\ KillJob(m.job, m.by)
       \/ m.kind = "ack" /\ AckJob(m.job)
       \/ /\ m.kind = "lockdown"
          /\ locked' = TRUE /\ locking' = locking \cup {"broker"}
          /\ UNCHANGED <<proc, open, killed, spool, up>>
    /\ UNCHANGED <<broker, switch, link, bounds>>

\* hostctl lockdown, at the host.
LocalLock ==
    /\ locks < MaxLocks /\ locks' = locks + 1
    /\ "local" \notin locking
    /\ locked' = TRUE /\ locking' = locking \cup {"local"}
    /\ UNCHANGED <<broker, switch, channel, proc, open, killed, spool, faults>>

\* Mutant: only jobs whose unit runs are killed.
LockSweepUnits(who) ==
    /\ who \in locking /\ locking' = locking \ {who}
    /\ open' = {}
    /\ killed' = killed \cup {j \in Jobs : proc[j] = "running"}
    /\ proc' = [j \in Jobs |-> IF proc[j] = "orphan" THEN "ended" ELSE proc[j]]
    /\ UNCHANGED <<broker, switch, channel, spool, locked, bounds>>

\* The rest of Hostd::lockdown: shells end and every job there is, is killed.
LockSweep(who) ==
    /\ who \in locking /\ locking' = locking \ {who}
    /\ open' = {}
    /\ killed' = killed \cup {j \in Jobs : proc[j] \in InJobs}
    /\ proc' = [j \in Jobs |-> IF proc[j] = "orphan" THEN "ended" ELSE proc[j]]
    /\ UNCHANGED <<broker, switch, channel, spool, locked, bounds>>

\* Hostd::unlock, with the host's own code or at the host.
Unlock ==
    /\ locked /\ locked' = FALSE
    /\ UNCHANGED <<broker, switch, channel, proc, open, killed, spool, locking, bounds>>

Runs(j, from, to) ==
    /\ proc[j] = from
    /\ proc' = Set(proc, j, to)
    /\ UNCHANGED <<broker, switch, channel, open, killed, spool, locked, locking, bounds>>

\* run_job reads the lock, the executor the kill signal, then the unit runs
\* until it exits, is killed or reaches its timeout.
CheckLock(j) == Runs(j, "queued", IF locked THEN "exited" ELSE "checked")
Execute(j)   == Runs(j, "checked", IF j \in killed THEN "exited" ELSE "running")
Exit(j)      == Runs(j, "running", "exited")
OrphanEnds(j) == Runs(j, "orphan", "ended")

\* run_job's end: the result is spooled and the job no longer registered.
Finish(j) ==
    /\ proc[j] = "exited"
    /\ proc' = Set(proc, j, "ended")
    /\ spool' = Set(spool, j, "done")
    /\ UNCHANGED <<broker, switch, channel, open, killed, locked, locking, bounds>>

\* run_job's end when the result cannot be spooled (write_done): that is only
\* logged, and the file says running until hostd starts again.
FinishUnspooled(j) ==
    /\ Fault
    /\ proc[j] = "exited"
    /\ proc' = Set(proc, j, "ended")
    /\ UNCHANGED <<broker, switch, channel, open, killed, spool, locked, locking, locks>>

\* send_result, at the end of run_job and from resend_loop.  A result that
\* does not arrive whole is dropped by the broker as if it had not been sent.
SendResult(j) ==
    /\ link /\ Quiet
    /\ spool[j] \in Reported /\ proc[j] \notin InJobs
    /\ up' = Append(up, [kind |-> spool[j], job |-> j])
    /\ UNCHANGED <<broker, switch, link, down, host, bounds>>

\* Hostd::recover's view of a job that ran: its unit may be gone or still
\* there, and a locked host stops it.
LeftBy(p) ==
    IF p \in {"running", "orphan"}
    THEN {"ended"} \cup (IF locked' THEN {} ELSE {"orphan"})
    ELSE IF p \in InJobs THEN {"ended"} ELSE {p}

\* Spool::recover: a running job is lost, an old result may be thrown away.
SpoolAfter(j) ==
    IF spool[j] = "running" THEN {"lost"}
    ELSE {spool[j]} \cup (IF row[j] \in {"starting", "running"} \/ InTx(j) THEN {} ELSE {"none"})

\* hostd dies and starts again.  A lockdown under way may not have reached
\* the disk.
HostCrash ==
    /\ Fault
    /\ locked' \in (IF locking = {} THEN {locked} ELSE {locked, FALSE})
    /\ locking' = {}
    /\ open' = {} /\ killed' = {}
    /\ proc' \in {p \in [Jobs -> {"none", "orphan", "ended"}] : \A j \in Jobs : p[j] \in LeftBy(proc[j])}
    /\ spool' \in {s \in [Jobs -> {"none"} \cup Reported] : \A j \in Jobs : s[j] \in SpoolAfter(j)}
    /\ Disconnected({<<>>})
    /\ UNCHANGED <<broker, blocked, tell, locks>>

Next ==
    \/ \E j \in Jobs :
        \/ StartCall(j) \/ StartOffline(j) \/ StartTorn(j) \/ StartTimeout(j)
        \/ KillCall(j) \/ KillMissed(j)
        \/ ExecCall(j) \/ ExecNotSent(j) \/ ExecTorn(j) \/ ExecTimeout(j)
        \/ EndUnasked(j) \/ StopCall(j) \/ StopTimeout(j)
        \/ \E outcome \in Reported : StoreWaiting(j, outcome) \/ GiveUpWaiting(j, outcome)
        \/ MarkLost(j)
        \/ CheckLock(j) \/ Execute(j) \/ Exit(j) \/ OrphanEnds(j)
        \/ Finish(j) \/ FinishUnspooled(j) \/ SendResult(j) \/ ShellExpires(j)
    \/ Receive \/ Handle
    \/ BrokerLock \/ BrokerTell \/ TellDropped \/ OnConnect \/ OnConnectFails \/ BrokerUnlock
    \/ LocalLock \/ Unlock
    \/ \E who \in {"broker", "local"} : LockSweep(who)
    \/ Cut \/ Reconnect \/ BrokerCrash \/ HostCrash

Spec == Init /\ [][Next]_vars

\* The scheduler ticks, calls time out, hostd and the channel keep going, and
\* the processes of jobs end at their timeout.  resend_loop goes through the
\* whole spool, so a result is sent again and again although others are, too.
\* Operators, agents and faults owe nothing.
Fairness ==
    /\ WF_vars(Receive) /\ WF_vars(Handle)
    /\ WF_vars(Reconnect) /\ WF_vars(OnConnect) /\ WF_vars(BrokerTell \/ TellDropped)
    /\ \A who \in {"broker", "local"} : WF_vars(LockSweep(who))
    /\ \A j \in Jobs :
        /\ WF_vars(StartTimeout(j)) /\ WF_vars(ExecTimeout(j)) /\ WF_vars(MarkLost(j))
        /\ SF_vars(SendResult(j))
        /\ WF_vars(CheckLock(j)) /\ WF_vars(Execute(j)) /\ WF_vars(Exit(j))
        /\ WF_vars(OrphanEnds(j)) /\ WF_vars(Finish(j))

FairSpec == Spec /\ Fairness

(***************************************************************************)
(* Properties.                                                             *)
(***************************************************************************)

\* The call that has the job launched: job.start, or a shell's shell.exec.
Call(j) == IF kind[j] = "command" THEN start[j] ELSE exec[j]

\* A job recorded as refused never ran and never will: it was not launched at
\* the host and no job.start of it is in flight.  The timeout of the call
\* races its answer (HostExec::start).  The exception is a call that was torn
\* off with its connection, which deliver reports as not written.
RefusedNeverRan ==
    \A j \in Jobs : row[j] = "refused" /\ Call(j) # "torn" =>
        /\ proc[j] = "none" /\ spool[j] = "none"
        /\ ~StartInFlight(j)

\* hostd drops the outcome of a job only when the broker has a settled row of
\* it: a result is acknowledged after it was stored (on_done, Spool::ack), for
\* every job whose row was committed.
ResultKept ==
    \A j \in Jobs :
        row[j] # "none" /\ proc[j] # "none" /\ spool[j] = "none" => row[j] \in Final

\* When the broker has ended an active grant, its shell is closed at the host,
\* and the process hostd runs for it was told to stop or has exited
\* (HostExec::stop fails unless the host answered).  A unit left from an earlier
\* hostd is outside: its row says lost, and stop does not ask for it.
StoppedMeansKilled ==
    \A j \in Jobs : grant[j] = "ended" =>
        /\ j \notin open
        /\ proc[j] \in {"queued", "checked", "running"} => j \in killed

\* Once a lockdown has run through, nothing runs on the host that was not told
\* to stop, whatever was being admitted or started meanwhile (job_start, run_job,
\* lockdown and recover).  Assumed: systemd lists the units there are and takes
\* the order to stop one (the code logs the failure of either and goes on).
NothingRunsLocked ==
    locked /\ locking = {} =>
        \A j \in Jobs :
            /\ proc[j] # "orphan"
            /\ proc[j] \in {"checked", "running"} => j \in killed

\* The job is over and its result was not spooled.
Unspooled(j) == proc[j] = "ended" /\ spool[j] = "running"

\* A job whose row was committed ends with a settled row and nothing left in
\* the host's spool: lost answers, dropped connections and crashes delay it.
\* Only a result that could not be spooled leaves its file there.
EveryJobSettles ==
    \A j \in Jobs : row[j] # "none" ~> (row[j] \in Final /\ (spool[j] = "none" \/ Unspooled(j)))

\* A host the broker locks down is locked, also when the call does not reach it
\* and it has to connect again (on_connect), unless the lockdown is lifted
\* first.  Two cases leave it to another reconnect: the handler went before its
\* call, or the hook's transaction failed.
BlockedHostGetsLocked ==
    blocked /\ (tell = "due" \/ ~link)
        ~> (locked \/ ~blocked \/ tell = "dropped" \/ hook = "failed")

\* hostexec::lockdown's report of a host it did not reach: "it is locked when
\* it reconnects".
UnreachedHostGetsLocked ==
    blocked /\ ~link ~> (locked \/ ~blocked)

(***************************************************************************)
(* The inductive invariant (see HostJobsProofs).                           *)
(***************************************************************************)

Launches == {"start", "exec"}
Has(q, K, j) == \E i \in DOMAIN q : q[i].kind \in K /\ q[i].job = j
Once(q, K) ==
    \A i, k \in DOMAIN q : q[i].kind \in K /\ q[k].kind \in K /\ q[i].job = q[k].job => i = k

StopAnswered(q, j) == \E i \in DOMAIN q : q[i].kind = "stopped" /\ q[i].job = j /\ q[i].by = "stop"

Untouched(j) == proc[j] = "none" /\ spool[j] = "none" /\ ~Has(down, Launches, j)
Stopped(j) ==
    j \notin open /\ (proc[j] \in {"queued", "checked", "running"} => j \in killed)

\* stop closes a shell and kills a command, when its start is no longer awaited.
StopsFit(q) ==
    \A i \in DOMAIN q : q[i].kind \in {"kill", "close"} /\ q[i].by = "stop" =>
        /\ kind[q[i].job] = (IF q[i].kind = "kill" THEN "command" ELSE "shell")
        /\ start[q[i].job] \in {"over", "dropped"}

\* A row is committed when the call that writes it is over; a shell's command
\* comes after its opening, and a started command was launched.
CallMatchesRow(j) ==
    /\ row[j] # "none" <=> Call(j) \in {"over", "torn"}
    /\ Call(j) = "torn" => row[j] = "refused"
    /\ kind[j] = "command" => exec[j] = "new"
    /\ exec[j] # "new" => start[j] = "over"
    /\ grant[j] \in {"active", "ended"} => start[j] = "over"
    /\ grant[j] \in {"active", "ended"} /\ kind[j] = "command" => proc[j] # "none"

\* A call is made once, so what it asks for is in flight or was done, not both.
LaunchedOnce(j) ==
    /\ Call(j) = "new" => Untouched(j)
    /\ Has(down, Launches, j) => proc[j] = "none"
    /\ proc[j] = "none" => spool[j] = "none"
    /\ Has(down, {"open"}, j) => /\ kind[j] = "shell" /\ start[j] # "new" /\ exec[j] = "new"
                                 /\ grant[j] \notin {"active", "ended"}
    /\ j \in open => kind[j] = "shell"
    /\ kind[j] = "shell" /\ proc[j] \in InJobs /\ j \notin open => j \in killed

\* What hostd answered is still so when the answer arrives.
AnswersHold(j) ==
    /\ Has(up, {"started"}, j) => proc[j] # "none"
    /\ Has(up, {"opened"}, j) => kind[j] = "shell" /\ start[j] # "new" /\ ~Has(down, {"open"}, j)
    /\ Has(up, {"refused"}, j) =>
        /\ start[j] # "new"
        /\ Call(j) # "new" => Untouched(j)
        /\ Call(j) = "new" => /\ ~Has(down, {"open"}, j) /\ ~Has(up, {"opened"}, j)
                              /\ grant[j] # "active"
    /\ Has(up, Reported, j) \/ waiting[j] # {} => proc[j] \in {"ended", "orphan"}
    /\ StopAnswered(up, j) => start[j] \in {"over", "dropped"} /\ (grant[j] = "active" => Stopped(j))

\* A settled job is over at the host, and only a settled job is acknowledged.
SettledIsOver(j) ==
    /\ Has(down, {"ack"}, j) => row[j] \in Final
    /\ row[j] \in Reported => proc[j] \notin InJobs /\ ~Has(down, Launches, j)
    /\ row[j] = "refused" /\ Call(j) # "torn" => Untouched(j)
    /\ proc[j] # "none" /\ spool[j] = "none" => row[j] \in Final \/ Call(j) = "dropped"
    /\ grant[j] = "ended" => Stopped(j)

JobInv(j) == CallMatchesRow(j) /\ LaunchedOnce(j) /\ AnswersHold(j) /\ SettledIsOver(j)

IInv ==
    /\ TypeOK
    /\ Once(down, Launches) /\ Once(down, {"open"}) /\ StopsFit(down)
    /\ \A j \in Jobs : JobInv(j)
    /\ NothingRunsLocked
=============================================================================
