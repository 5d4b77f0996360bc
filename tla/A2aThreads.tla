----------------------------- MODULE A2aThreads -----------------------------
(***************************************************************************)
(* Conversations between two agents, and the access a responder gets on    *)
(* the initiator's behalf.  A thread lives on the initiator's a2a grant    *)
(* (an operator's thread on none); a delegated grant lives on the thread.  *)
(*                                                                         *)
(* open, send and accept read the thread and check containment first, and  *)
(* lock the backing grant and the thread later, in the same transaction:   *)
(* each is two steps, and what the first one saw may be stale in the       *)
(* second.  From the first step on the transaction holds the containment   *)
(* lock and both agent rows shared.  A credential fetch holds the          *)
(* delegated grant and the thread shared while the platform answers, but   *)
(* not the backing grant.  Every other transaction is one step.            *)
(***************************************************************************)
EXTENDS Naturals, FiniteSets

CONSTANTS
    Agents, Operator,   \* the operator's own row is one of the agents
    Threads, Responder, \* threads that may be opened, and with whom
    Backing, HolderOf,  \* the a2a grants threads are opened on, and whose they are
    Term,               \* when a backing grant was given to expire
    Sessions, SessionOf,
    None,               \* no session, no grant, no agent, no thread
    Delegated,          \* access requests on behalf of a thread
    Duration,           \* approved duration of a delegated grant
    MaxMessages,        \* config: max_messages_per_thread
    MayContain, MayDisable,       \* bound: the agents that may come to be held
    MaxCalls, MaxTime, MaxCrashes \* bounds: calls in flight at a time, clock, crashes

ASSUME PartyAssumption ==
    /\ Operator \in Agents
    /\ Responder \in [Threads -> Agents \ {Operator}]
    /\ None \notin Sessions \cup Backing \cup Threads \cup Agents
    /\ SessionOf \in [Sessions -> Agents]
    /\ HolderOf \in [Backing -> Agents \ {Operator}]
ASSUME NumberAssumption ==
    /\ Term \in [Backing -> Nat] /\ Duration \in Nat
    /\ MaxMessages \in Nat \ {0}
    /\ MaxCalls \in Nat /\ MaxTime \in Nat /\ MaxCrashes \in Nat
ASSUME HeldAssumption == MayContain \cup MayDisable \subseteq Agents \ {Operator}

VARIABLES
    now,
    contained, disabled,
    ended,     \* backing grants no longer 'active'
    expiry,    \* grants.expires_at of the backing grants
    state,     \* a2a_threads.state; "none" before the thread exists
    opener,    \* initiator_agent_id
    backing,   \* grant_id; None on the operator's threads
    origin,    \* initiator_session_id
    bound,     \* responder_session_id
    seq,       \* last_seq
    stale,     \* threads past their open or idle timeout
    voices,    \* the sessions each side of a thread has sent from
    gone,      \* closed sessions
    calls,     \* open, send and accept calls between their two steps
    deleg,     \* the delegated requests and grants
    mint,      \* delegated grants a credential is being fetched for
    follow,    \* agents whose threads a containment or disable has yet to close
    crashes

thread == <<state, opener, backing, origin, bound, seq, stale, voices>>
people == <<contained, disabled, follow>>
basis  == <<ended, expiry>>
vars   == <<now, people, basis, thread, gone, calls, deleg, mint, crashes>>

Sides == {"initiator", "responder"}
Side(t, a) == IF a = Responder[t] THEN "responder" ELSE "initiator"
Parties(t) == {opener[t], Responder[t]}
Calls == [kind : {"open", "send", "accept"}, thread : Threads, by : Agents,
          session : Sessions \cup {None}, grant : Backing \cup {None}, at : Nat]
DelegStatus == {"none", "requested", "provisioning", "interrupted", "active", "ended", "failed"}

TypeOK ==
    /\ now \in Nat /\ crashes \in Nat
    /\ contained \in SUBSET Agents /\ disabled \in SUBSET Agents /\ follow \in SUBSET Agents
    /\ ended \in SUBSET Backing /\ expiry \in [Backing -> Nat]
    /\ state \in [Threads -> {"none", "pending_open", "open", "closed"}]
    /\ opener \in [Threads -> Agents \cup {None}]
    /\ backing \in [Threads -> Backing \cup {None}]
    /\ origin \in [Threads -> Sessions \cup {None}]
    /\ bound \in [Threads -> Sessions \cup {None}]
    /\ seq \in [Threads -> 0..MaxMessages]
    /\ stale \in SUBSET Threads
    /\ voices \in [Threads -> [Sides -> SUBSET (Sessions \cup {None})]]
    /\ gone \in SUBSET Sessions
    /\ calls \in SUBSET Calls
    /\ deleg \in [Delegated -> [status : DelegStatus, thread : Threads \cup {None},
                                session : Sessions \cup {None}, expires : Nat]]
    /\ mint \in SUBSET Delegated

Init ==
    /\ now = 0 /\ crashes = 0
    /\ contained = {} /\ disabled = {} /\ follow = {}
    /\ ended = {} /\ expiry = Term
    /\ state = [t \in Threads |-> "none"]
    /\ opener = [t \in Threads |-> None]
    /\ backing = [t \in Threads |-> None]
    /\ origin = [t \in Threads |-> None]
    /\ bound = [t \in Threads |-> None]
    /\ seq = [t \in Threads |-> 0]
    /\ stale = {}
    /\ voices = [t \in Threads |-> [side \in Sides |-> {}]]
    /\ gone = {}
    /\ calls = {}
    /\ deleg = [d \in Delegated |-> [status |-> "none", thread |-> None,
                                      session |-> None, expires |-> 0]]
    /\ mint = {}

(***************************************************************************)
(* Checks and locks.                                                       *)
(***************************************************************************)

Least(x, y) == IF x <= y THEN x ELSE y

Held(a) == a \in contained \cup disabled

\* lockdown::check_pair: with the operator as a party, containment is skipped.
PairClear(pair) ==
    IF Operator \in pair THEN pair \cap disabled = {} ELSE \A a \in pair : ~Held(a)

\* lock_backing_grant, at the stamp the caller took.
GrantLive(g, at) == g # None => g \notin ended /\ expiry[g] > at

\* own_thread, for a call on one side of the thread.
OwnThread(t, a, s) ==
    \/ a = opener[t] /\ origin[t] \in {None, s}
    \/ a = Responder[t] /\ bound[t] \in {None, s}

\* AgentCaller: the agent is enabled, the session it names its own and open.
Authenticated(a, s) == a \notin disabled /\ (s # None => SessionOf[s] = a /\ s \notin gone)

Live(t) == state[t] \in {"pending_open", "open"}

\* The thread row can be locked FOR UPDATE: no credential fetch holds it shared.
Free(t) == \A d \in mint : deleg[d].thread # t

\* The containment lock can be taken exclusively.
NoCheckInFlight == calls = {} /\ mint = {}

\* The agent's row can be updated.
RowFree(a) ==
    /\ \A r \in calls : a \notin {r.by, Responder[r.thread], opener[r.thread]}
    /\ \A d \in mint : Responder[deleg[d].thread] # a

\* The threads of T end, whatever the reason recorded on them.
CloseThreads(T) ==
    /\ state' = [t \in Threads |-> IF t \in T /\ Live(t) THEN "closed" ELSE state[t]]
    /\ stale' = stale \ T
    /\ UNCHANGED <<opener, backing, origin, bound, seq, voices>>

BoundTo(S) == {t \in Threads : Live(t) /\ (origin[t] \in S \/ bound[t] \in S)}
ThreadsOf(a) == {t \in Threads : Live(t) /\ a \in Parties(t)}

(***************************************************************************)
(* The calls of agents and of the operator's chat.                         *)
(***************************************************************************)

\* The transaction up to the stamp (only ever compared with a grant's expiry).
Begin(kind, t, a, s, g, peer) ==
    /\ Cardinality(calls) < MaxCalls
    /\ Authenticated(a, s)
    /\ PairClear({a, peer})
    /\ calls' = calls \cup {[kind |-> kind, thread |-> t, by |-> a,
                             session |-> s, grant |-> g,
                             at |-> IF g = None THEN 0 ELSE now]}
    /\ UNCHANGED <<now, people, basis, thread, gone, deleg, mint, crashes>>

Finished(r) == calls' = calls \ {r}

\* service::open up to the stamp: check_grant, then the activity stamp.
OpenStart(t, a, s, g) ==
    /\ state[t] = "none"
    /\ \A r \in calls : r.thread # t
    /\ a # Responder[t]
    /\ IF a = Operator THEN g = None ELSE g \in Backing /\ HolderOf[g] = a
    /\ GrantLive(g, now)
    /\ Begin("open", t, a, s, g, Responder[t])

\* store::a2a::open: the backing grant is locked and checked again.
OpenFinish(r) ==
    LET t == r.thread IN
    /\ r.kind = "open"
    /\ Finished(r)
    /\ IF GrantLive(r.grant, r.at)
       THEN /\ state' = [state EXCEPT ![t] = "pending_open"]
            /\ opener' = [opener EXCEPT ![t] = r.by]
            /\ backing' = [backing EXCEPT ![t] = r.grant]
            /\ origin' = [origin EXCEPT ![t] = r.session]
            /\ seq' = [seq EXCEPT ![t] = 1]
            /\ voices' = [voices EXCEPT ![t]["initiator"] = {r.session}]
            /\ UNCHANGED <<bound, stale>>
       ELSE UNCHANGED thread
    /\ UNCHANGED <<now, people, basis, gone, deleg, mint, crashes>>

\* service::send up to the stamp, on an unlocked read of the thread.
SendStart(t, a, s) ==
    /\ Live(t) /\ OwnThread(t, a, s)
    /\ Begin("send", t, a, s, backing[t], IF a = opener[t] THEN Responder[t] ELSE opener[t])

\* store::a2a::accept: a pending thread opens, bound to the session given.
Accepted(t, s) ==
    /\ state' = [state EXCEPT ![t] = "open"]
    /\ bound' = [bound EXCEPT ![t] = IF state[t] = "pending_open" /\ @ = None THEN s ELSE @]
    /\ stale' = stale \ {t}

\* store::a2a::append, after the accept a responder's first reply makes.
Appended(t, a, s) ==
    /\ Accepted(t, IF a = Responder[t] THEN s ELSE None)
    /\ seq' = [seq EXCEPT ![t] = @ + 1]
    /\ voices' = [voices EXCEPT ![t][Side(t, a)] = @ \cup {s}]
    /\ UNCHANGED <<opener, backing, origin>>

\* Mutant: the thread is not read again once it is locked.
SendFinishStale(r) ==
    LET t == r.thread IN
    /\ r.kind = "send" /\ Free(t)
    /\ Finished(r)
    /\ CASE ~GrantLive(r.grant, r.at) -> CloseThreads({t})
         [] GrantLive(r.grant, r.at) /\ state[t] # "closed" /\ seq[t] < MaxMessages
              /\ (state[t] = "open" \/ r.by = Responder[t]) -> Appended(t, r.by, r.session)
         [] OTHER -> UNCHANGED thread
    /\ UNCHANGED <<now, people, basis, gone, deleg, mint, crashes>>

\* Mutant: the cap is checked by nobody once the thread is locked.
SendFinishNoCap(r) ==
    LET t == r.thread IN
    /\ r.kind = "send" /\ Free(t)
    /\ Finished(r)
    /\ IF /\ Live(t) /\ OwnThread(t, r.by, r.session) /\ GrantLive(r.grant, r.at)
          /\ (state[t] = "open" \/ r.by = Responder[t])
       THEN Appended(t, r.by, r.session)
       ELSE UNCHANGED thread
    /\ UNCHANGED <<now, people, basis, gone, deleg, mint, crashes>>

\* service::send from the locks on: with a dead backing grant the call fails
\* and the thread's end commits; at the cap, or an initiator's message on a
\* pending thread, nothing is stored; a responder's first reply accepts.
SendFinish(r) ==
    LET t == r.thread
        own == Live(t) /\ OwnThread(t, r.by, r.session)
        fits == seq[t] < MaxMessages /\ (state[t] = "open" \/ r.by = Responder[t])
    IN
    /\ r.kind = "send" /\ Free(t)
    /\ Finished(r)
    /\ \/ own /\ GrantLive(r.grant, r.at) /\ fits /\ Appended(t, r.by, r.session)
       \/ own /\ ~GrantLive(r.grant, r.at) /\ CloseThreads({t})
       \/ ~own /\ UNCHANGED thread
       \/ own /\ GrantLive(r.grant, r.at) /\ ~fits /\ UNCHANGED thread
    /\ UNCHANGED <<now, people, basis, gone, deleg, mint, crashes>>

\* service::accept up to the thread's lock (responder only, pending only).
AcceptStart(t, s) ==
    /\ state[t] = "pending_open" /\ OwnThread(t, Responder[t], s)
    /\ Begin("accept", t, Responder[t], s, None, opener[t])

\* Mutant: the update does not ask for pending_open.
AcceptFinishAny(r) ==
    LET t == r.thread IN
    /\ r.kind = "accept" /\ Free(t)
    /\ Finished(r)
    /\ Accepted(t, r.session)
    /\ UNCHANGED <<now, people, basis, opener, backing, origin, seq, voices, gone, deleg, mint,
                   crashes>>

\* The rest of accept, on the locked thread.
AcceptFinish(r) ==
    LET t == r.thread IN
    /\ r.kind = "accept" /\ Free(t)
    /\ Finished(r)
    /\ IF state[t] = "pending_open" /\ OwnThread(t, r.by, r.session)
       THEN Accepted(t, r.session) /\ UNCHANGED <<opener, backing, origin, seq, voices>>
       ELSE UNCHANGED thread
    /\ UNCHANGED <<now, people, basis, gone, deleg, mint, crashes>>

\* Mutant: the row is closed under a credential fetch.
CloseNoLock(t, a, s) ==
    /\ Live(t) /\ OwnThread(t, a, s)
    /\ Authenticated(a, s)
    /\ CloseThreads({t})
    /\ UNCHANGED <<now, people, basis, gone, calls, deleg, mint, crashes>>

\* service::close: either side ends the thread (a reject is the responder's
\* close of a pending one).  No containment check.
Close(t, a, s) ==
    /\ Live(t) /\ OwnThread(t, a, s)
    /\ Authenticated(a, s)
    /\ Free(t)
    /\ CloseThreads({t})
    /\ UNCHANGED <<now, people, basis, gone, calls, deleg, mint, crashes>>

\* service::end_session: the session and the threads bound to it.
EndSession(s) ==
    /\ Authenticated(SessionOf[s], s)
    /\ \A t \in BoundTo({s}) : Free(t)
    /\ gone' = gone \cup {s}
    /\ CloseThreads(BoundTo({s}))
    /\ UNCHANGED <<now, people, basis, calls, deleg, mint, crashes>>

(***************************************************************************)
(* The system's own closes.                                                *)
(***************************************************************************)

\* close_dead_grants.
DeadThreads == {t \in Threads : Live(t) /\ ~GrantLive(backing[t], now)}

\* Mutant: a pending thread nobody answers has no timeout.
SweepOpenOnly(S) ==
    LET T == BoundTo(S) \cup {t \in stale : state[t] = "open"} \cup DeadThreads IN
    /\ S \subseteq Sessions \ gone
    /\ \A t \in T : Free(t)
    /\ gone' = gone \cup S
    /\ CloseThreads(T)
    /\ UNCHANGED <<now, people, basis, calls, deleg, mint, crashes>>

\* service::sweep, one transaction: idle sessions S with their threads, stale
\* opens, idle threads, threads on a dead backing grant.
Sweep(S) ==
    LET T == BoundTo(S) \cup {t \in stale : Live(t)} \cup DeadThreads IN
    /\ S \subseteq Sessions \ gone
    /\ \A t \in T : Free(t)
    /\ gone' = gone \cup S
    /\ CloseThreads(T)
    /\ UNCHANGED <<now, people, basis, calls, deleg, mint, crashes>>

\* The timeout since a thread was opened (pending) or last active (open).
Age(t) ==
    /\ Live(t) /\ t \notin stale
    /\ stale' = stale \cup {t}
    /\ UNCHANGED <<now, people, basis, state, opener, backing, origin, bound, seq, voices, gone, calls,
                   deleg, mint, crashes>>

\* expire_now_of_agent: the active grants of the agent, delegated ones too.
ExpireNowOf(a) ==
    /\ expiry' = [g \in Backing |->
                    IF HolderOf[g] = a /\ g \notin ended THEN Least(expiry[g], now) ELSE expiry[g]]
    /\ deleg' = [d \in Delegated |->
                    IF deleg[d].status = "active" /\ Responder[deleg[d].thread] = a
                    THEN [deleg[d] EXCEPT !.expires = Least(@, now)] ELSE deleg[d]]

\* Mutant: the entry is recorded without the exclusive containment lock.
ContainNoLock(a) ==
    /\ a \in MayContain \ contained
    /\ contained' = contained \cup {a}
    /\ follow' = follow \cup {a}
    /\ ExpireNowOf(a)
    /\ UNCHANGED <<now, disabled, ended, thread, gone, calls, mint, crashes>>

\* containment::record: the entry, and the agent's grants expire now; its
\* threads are closed by a task that runs after.
Contain(a) ==
    /\ a \in MayContain \ contained
    /\ NoCheckInFlight
    /\ contained' = contained \cup {a}
    /\ follow' = follow \cup {a}
    /\ ExpireNowOf(a)
    /\ UNCHANGED <<now, disabled, ended, thread, gone, calls, mint, crashes>>

Lift(a) ==
    /\ a \in contained
    /\ NoCheckInFlight
    /\ contained' = contained \ {a}
    /\ UNCHANGED <<now, disabled, follow, basis, thread, gone, calls, deleg, mint, crashes>>

\* sandboxes::disable_tree, by the operator or at a lease's end; the threads
\* are closed after its commit.
Disable(a) ==
    /\ a \in MayDisable \ disabled
    /\ NoCheckInFlight
    /\ disabled' = disabled \cup {a}
    /\ follow' = follow \cup {a}
    /\ ExpireNowOf(a)
    /\ UNCHANGED <<now, contained, ended, thread, gone, calls, mint, crashes>>

\* agents::set_disabled(false): only the agent's row is locked.
Enable(a) ==
    /\ a \in disabled
    /\ RowFree(a)
    /\ disabled' = disabled \ {a}
    /\ UNCHANGED <<now, contained, follow, basis, thread, gone, calls, deleg, mint, crashes>>

\* close_threads of a containment, on_agent_disabled: close_with.
CloseAllFor(a) ==
    /\ a \in follow
    /\ \A t \in ThreadsOf(a) : Free(t)
    /\ follow' = follow \ {a}
    /\ CloseThreads(ThreadsOf(a))
    /\ UNCHANGED <<now, contained, disabled, basis, gone, calls, deleg, mint, crashes>>

\* A backing grant is revoked or expired.  Nobody holds it across steps.
EndBacking(g) ==
    /\ g \notin ended
    /\ ended' = ended \cup {g}
    /\ UNCHANGED <<now, people, expiry, thread, gone, calls, deleg, mint, crashes>>

(***************************************************************************)
(* Access on behalf of the initiator.                                      *)
(***************************************************************************)

SetStatus(d, st) == deleg' = [deleg EXCEPT ![d].status = st]

\* delegation::resolve, when the responder asks citing the thread.
Request(d, t, s) ==
    /\ deleg[d].status = "none"
    /\ Authenticated(Responder[t], s)
    /\ state[t] = "open" /\ OwnThread(t, Responder[t], s)
    /\ opener[t] \notin disabled
    /\ deleg' = [deleg EXCEPT ![d] = [status |-> "requested", thread |-> t,
                                      session |-> s, expires |-> 0]]
    /\ UNCHANGED <<now, people, basis, thread, gone, calls, mint, crashes>>

\* Mutant: the expiry is not capped by the backing grant's.
BeginGrantUncapped(d) ==
    LET t == deleg[d].thread IN
    /\ deleg[d].status = "requested"
    /\ IF ~Held(Responder[t]) /\ opener[t] \notin disabled /\ GrantLive(backing[t], now)
          /\ state[t] = "open"
       THEN deleg' = [deleg EXCEPT ![d].status = "provisioning", ![d].expires = now + Duration]
       ELSE SetStatus(d, "failed")
    /\ UNCHANGED <<now, people, basis, thread, gone, calls, mint, crashes>>

\* grants::begin with delegation_backing: refused unless the delegator is
\* enabled, the backing grant live and the thread open; the grant's end is
\* capped by the backing grant's.
BeginGrant(d) ==
    LET t == deleg[d].thread  g == backing[t] IN
    /\ deleg[d].status = "requested"
    /\ IF ~Held(Responder[t]) /\ opener[t] \notin disabled /\ GrantLive(backing[t], now)
          /\ state[t] = "open"
       THEN deleg' = [deleg EXCEPT ![d].status = "provisioning",
                        ![d].expires = IF g = None THEN now + Duration
                                       ELSE Least(now + Duration, expiry[g])]
       ELSE SetStatus(d, "failed")
    /\ UNCHANGED <<now, people, basis, thread, gone, calls, mint, crashes>>

\* finish_provision: containment is checked again, the delegation is not.
FinishGrant(d) ==
    /\ deleg[d].status = "provisioning"
    /\ \/ ~Held(Responder[deleg[d].thread]) /\ SetStatus(d, "active")
       \/ SetStatus(d, "failed")
    /\ UNCHANGED <<now, people, basis, thread, gone, calls, mint, crashes>>

\* The reaper fails a grant whose finishing task died with the broker.
Reap(d) ==
    /\ deleg[d].status = "interrupted"
    /\ SetStatus(d, "failed")
    /\ UNCHANGED <<now, people, basis, thread, gone, calls, mint, crashes>>

\* grants::issuable, at the start of a credential fetch.
Issue(d) ==
    LET t == deleg[d].thread IN
    /\ deleg[d].status = "active" /\ deleg[d].expires > now
    /\ d \notin mint
    /\ ~Held(Responder[t])
    /\ state[t] = "open" /\ GrantLive(backing[t], now)
    /\ mint' = mint \cup {d}
    /\ UNCHANGED <<now, people, basis, thread, gone, calls, deleg, crashes>>

\* The credential leaves (or the fetch fails) and the locks are released.
Issued(d) ==
    /\ d \in mint
    /\ mint' = mint \ {d}
    /\ UNCHANGED <<now, people, basis, thread, gone, calls, deleg, crashes>>

\* The delegated grant is revoked by a person or expires on its own.
EndDelegated(d) ==
    /\ deleg[d].status = "active" /\ d \notin mint
    /\ SetStatus(d, "ended")
    /\ UNCHANGED <<now, people, basis, thread, gone, calls, mint, crashes>>

\* Mutant: the listing joins the session, and misses a sessionless request.
RevokeDelegatedOfSessions(d) ==
    /\ deleg[d].status = "active" /\ d \notin mint
    /\ state[deleg[d].thread] = "closed" /\ deleg[d].session # None
    /\ SetStatus(d, "ended")
    /\ UNCHANGED <<now, people, basis, thread, gone, calls, mint, crashes>>

\* revoke_delegated_for_closed_threads, one grant of its list.
RevokeDelegated(d) ==
    /\ deleg[d].status = "active" /\ d \notin mint
    /\ state[deleg[d].thread] = "closed"
    /\ SetStatus(d, "ended")
    /\ UNCHANGED <<now, people, basis, thread, gone, calls, mint, crashes>>

(***************************************************************************)
(* Time, and a broker crash: transactions roll back, tasks are lost.       *)
(***************************************************************************)

Tick ==
    /\ now < MaxTime
    /\ now' = now + 1
    /\ UNCHANGED <<people, basis, thread, gone, calls, deleg, mint, crashes>>

Crash ==
    /\ crashes < MaxCrashes
    /\ crashes' = crashes + 1
    /\ calls' = {}
    /\ mint' = {}
    /\ follow' = {}
    /\ deleg' = [d \in Delegated |-> IF deleg[d].status = "provisioning"
                                     THEN [deleg[d] EXCEPT !.status = "interrupted"]
                                     ELSE deleg[d]]
    /\ UNCHANGED <<now, contained, disabled, basis, thread, gone>>

Next ==
    \/ \E t \in Threads, s \in Sessions \cup {None} :
          \/ \E a \in Agents, g \in Backing \cup {None} : OpenStart(t, a, s, g)
          \/ \E a \in Agents : SendStart(t, a, s) \/ Close(t, a, s)
          \/ AcceptStart(t, s)
    \/ \E r \in calls : OpenFinish(r) \/ SendFinish(r) \/ AcceptFinish(r)
    \/ \E t \in Threads : Age(t)
    \/ \E s \in Sessions : EndSession(s)
    \/ \E S \in SUBSET Sessions : Sweep(S)
    \/ \E a \in Agents : Contain(a) \/ Lift(a) \/ Disable(a) \/ Enable(a) \/ CloseAllFor(a)
    \/ \E g \in Backing : EndBacking(g)
    \/ \E d \in Delegated, t \in Threads, s \in Sessions \cup {None} : Request(d, t, s)
    \/ \E d \in Delegated :
          \/ BeginGrant(d) \/ FinishGrant(d) \/ Reap(d)
          \/ Issue(d) \/ Issued(d) \/ EndDelegated(d) \/ RevokeDelegated(d)
    \/ Tick
    \/ Crash

Spec == Init /\ [][Next]_vars

(***************************************************************************)
(* A credential fetch ends; timeouts elapse; the scheduler's steps come    *)
(* round every INTERVAL; a finishing task ends.  The sweep may find a row  *)
(* locked, and waits in the database's queue for it: strong fairness.      *)
(***************************************************************************)
Fairness ==
    /\ \A t \in Threads : WF_vars(Age(t))
    /\ SF_vars(Sweep({}))
    /\ \A d \in Delegated :
          /\ WF_vars(Issued(d)) /\ WF_vars(FinishGrant(d)) /\ WF_vars(Reap(d))
          /\ WF_vars(RevokeDelegated(d))

FairSpec == Spec /\ Fairness

(***************************************************************************)
(* Properties.                                                             *)
(***************************************************************************)

\* A credential for a delegated grant is only ever in the making on a thread
\* that is still open: issuable share-locks the thread until the transaction
\* ends, so a close, a sweep or a containment waits (service::close, sweep).
IssuesOnOpenThread == \A d \in mint : state[deleg[d].thread] = "open"

\* Once a session is bound to a side of a thread, everything that side says
\* and every access asked on the thread's behalf came from that session, also
\* when two sessions raced for the thread (own_thread on the locked row).
OneVoicePerSide ==
    /\ \A t \in Threads :
          /\ origin[t] # None => voices[t]["initiator"] \subseteq {origin[t]}
          /\ bound[t] # None => voices[t]["responder"] \subseteq {bound[t]}
    /\ \A d \in Delegated : deleg[d].thread # None =>
          bound[deleg[d].thread] \in {None, deleg[d].session}

\* A delegated grant that has not passed its own end is within the term the
\* backing grant was given (grants::begin: it never outlives the backing grant).
DelegatedWithinTerm ==
    \A d \in Delegated :
        LET t == deleg[d].thread IN
        (deleg[d].status \in {"provisioning", "interrupted", "active"} /\ backing[t] # None)
            => deleg[d].expires <= Term[backing[t]]

\* A message is stored only while the backing grant is active and neither
\* party is held, although both were checked earlier in the call (a2a INV-6,
\* INV-11): the containment lock and the grant's lock close the window.
MessagesCleared ==
    [][\A t \in Threads : seq'[t] > seq[t] =>
          PairClear(Parties(t)') /\ backing'[t] \notin ended]_vars

\* A closed thread stays closed and takes no message, whichever calls were
\* in flight when it closed (store::a2a: every change is conditional).
ClosedForGood ==
    [][\A t \in Threads : state[t] = "closed" => state'[t] = "closed" /\ seq'[t] = seq[t]]_vars

\* Every thread ends: messages are capped, and what nobody closes runs into
\* its timeout, also when the task that should close it died (service::sweep).
EveryThreadEnds == \A t \in Threads : Live(t) ~> state[t] = "closed"

\* Delegated access ends after the delegation did: a grant on a closed thread
\* or on a dead backing grant does not stay, wherever its own provisioning was
\* (INV-12: sweep closes the thread, the scheduler revokes).
DelegationEnds ==
    \A d \in Delegated :
        (deleg[d].thread # None /\ (state[deleg[d].thread] = "closed"
                                      \/ ~GrantLive(backing[deleg[d].thread], now)))
            ~> deleg[d].status \in {"none", "requested", "ended", "failed"}

(***************************************************************************)
(* The inductive invariant (see A2aThreadsProofs).                         *)
(***************************************************************************)

\* A thread has two different parties, and nobody has answered a pending one.
PendingIsUnanswered ==
    \A t \in Threads :
        /\ state[t] # "none" => opener[t] \in Agents \ {Responder[t]}
        /\ state[t] \in {"none", "pending_open"} => bound[t] = None /\ voices[t]["responder"] = {}

\* What the first step of a call saw and the second still relies on: an open
\* has its thread to itself, the parties are clear while the call holds the
\* containment lock and the agents' rows, a send has the thread's grant.
StaysCleared(r) ==
    IF r.kind = "open"
    THEN /\ state[r.thread] = "none" /\ r.by # Responder[r.thread]
         /\ PairClear({r.by, Responder[r.thread]})
         /\ \A q \in calls : q.thread = r.thread => q = r
    ELSE /\ state[r.thread] # "none"
         /\ PairClear(Parties(r.thread))
         /\ r.kind = "send" => r.grant = backing[r.thread]
         /\ r.kind = "accept" => r.by = Responder[r.thread]

CallsStayCleared == \A r \in calls : StaysCleared(r)

\* A request or grant on behalf of a thread names one that was answered.
DelegationsNameThreads ==
    \A d \in Delegated :
        /\ IF deleg[d].status = "none" THEN deleg[d].thread = None
           ELSE deleg[d].thread \in Threads /\ state[deleg[d].thread] \in {"open", "closed"}
        /\ d \in mint => deleg[d].status = "active"

\* Nothing prolongs a backing grant.
NeverProlonged == \A g \in Backing : expiry[g] <= Term[g]

IInv ==
    /\ TypeOK
    /\ PendingIsUnanswered /\ CallsStayCleared
    /\ DelegationsNameThreads /\ NeverProlonged
    /\ IssuesOnOpenThread /\ OneVoicePerSide /\ DelegatedWithinTerm
=============================================================================
