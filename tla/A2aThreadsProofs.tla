-------------------------- MODULE A2aThreadsProofs --------------------------
(***************************************************************************)
(* Proofs about A2aThreads, for every set of agents, threads, grants and   *)
(* sessions and every value of the other constants.                        *)
(***************************************************************************)
EXTENDS A2aThreads, TLAPS

USE PartyAssumption, NumberAssumption, HeldAssumption

\* The initial states satisfy the inductive invariant.
LEMMA InitEstablishes == Init => IInv
  BY DEF Init, IInv, TypeOK, PendingIsUnanswered, CallsStayCleared, DelegationsNameThreads,
      NeverProlonged, IssuesOnOpenThread, OneVoicePerSide, DelegatedWithinTerm, Sides, DelegStatus,
      Calls

\* Closing threads, whoever closes them, keeps the types of the thread rows.
LEMMA CloseTypes ==
  ASSUME TypeOK, NEW T \in SUBSET Threads, CloseThreads(T)
  PROVE  /\ state' \in [Threads -> {"none", "pending_open", "open", "closed"}]
         /\ stale' \in SUBSET Threads
         /\ UNCHANGED <<opener, backing, origin, bound, seq, voices>>
  BY DEF TypeOK, CloseThreads

\* A row of the table of delegated requests and grants.
DelegRow == [status : DelegStatus, thread : Threads \cup {None},
             session : Sessions \cup {None}, expires : Nat]

\* What an update of the status, or of the expiry, leaves of a row.
LEMMA StatusUpdate ==
  ASSUME NEW r \in DelegRow, NEW st \in DelegStatus
  PROVE  [r EXCEPT !.status = st] =
            [status |-> st, thread |-> r.thread, session |-> r.session, expires |-> r.expires]
  BY DEF DelegRow

LEMMA ExpiresUpdate ==
  ASSUME NEW r \in DelegRow, NEW x \in Nat
  PROVE  [r EXCEPT !.expires = x] =
            [status |-> r.status, thread |-> r.thread, session |-> r.session, expires |-> x]
  BY DEF DelegRow

\* A step that only sets a status leaves every other column and row alone.
LEMMA SetStatusEffect ==
  ASSUME TypeOK, NEW d \in Delegated, NEW st \in DelegStatus, SetStatus(d, st)
  PROVE  /\ deleg' \in [Delegated -> DelegRow]
         /\ deleg'[d].status = st
         /\ \A e \in Delegated : /\ e # d => deleg'[e] = deleg[e]
                                 /\ deleg'[e].thread = deleg[e].thread
                                 /\ deleg'[e].session = deleg[e].session
                                 /\ deleg'[e].expires = deleg[e].expires
  <1>1. deleg \in [Delegated -> DelegRow]
    BY DEF TypeOK, DelegRow
  <1>2. deleg' = [deleg EXCEPT ![d] = [deleg[d] EXCEPT !.status = st]]
    BY DEF SetStatus
  <1>3. deleg' = [deleg EXCEPT ![d] = [status |-> st, thread |-> deleg[d].thread,
                                       session |-> deleg[d].session, expires |-> deleg[d].expires]]
    BY <1>1, <1>2, StatusUpdate
  <1> QED BY <1>1, <1>3 DEF DelegRow

\* A hold only brings expiries of the agent's grants forward.
LEMMA ExpireNowEffect ==
  ASSUME TypeOK, NEW a \in Agents, ExpireNowOf(a)
  PROVE  /\ deleg' \in [Delegated -> DelegRow]
         /\ expiry' \in [Backing -> Nat]
         /\ \A g \in Backing : expiry'[g] <= expiry[g]
         /\ \A e \in Delegated : /\ deleg'[e].status = deleg[e].status
                                 /\ deleg'[e].thread = deleg[e].thread
                                 /\ deleg'[e].session = deleg[e].session
                                 /\ deleg'[e].expires <= deleg[e].expires
  <1>1. deleg \in [Delegated -> DelegRow] /\ now \in Nat /\ expiry \in [Backing -> Nat]
    BY DEF TypeOK, DelegRow
  <1>2. \A e \in Delegated : \/ deleg'[e] = deleg[e]
                             \/ deleg'[e] = [deleg[e] EXCEPT !.expires = Least(@, now)]
    BY DEF ExpireNowOf
  <1>3. \A e \in Delegated : deleg[e].expires \in Nat /\ Least(deleg[e].expires, now) \in Nat
                              /\ Least(deleg[e].expires, now) <= deleg[e].expires
    BY <1>1 DEF Least, DelegRow
  <1>4. \A e \in Delegated :
           \/ deleg'[e] = deleg[e]
           \/ deleg'[e] = [status |-> deleg[e].status, thread |-> deleg[e].thread,
                          session |-> deleg[e].session, expires |-> Least(deleg[e].expires, now)]
    BY <1>1, <1>2, <1>3, ExpiresUpdate
  <1>5. deleg' = [e \in Delegated |-> deleg'[e]]
    BY DEF ExpireNowOf
  <1>6. ASSUME NEW e \in Delegated
        PROVE  /\ deleg'[e] \in DelegRow
               /\ deleg'[e].status = deleg[e].status
               /\ deleg'[e].thread = deleg[e].thread
               /\ deleg'[e].session = deleg[e].session
               /\ deleg'[e].expires <= deleg[e].expires
    <2>1. deleg[e] \in DelegRow /\ deleg[e].expires \in Nat
      BY <1>1, <1>3
    <2>2. CASE deleg'[e] = deleg[e]
      BY <2>1, <2>2
    <2>3. CASE deleg'[e] = [status |-> deleg[e].status, thread |-> deleg[e].thread,
                            session |-> deleg[e].session, expires |-> Least(deleg[e].expires, now)]
      BY <1>3, <2>1, <2>3 DEF DelegRow
    <2> QED BY <1>4, <2>2, <2>3
  <1>7. expiry' \in [Backing -> Nat] /\ \A g \in Backing : expiry'[g] <= expiry[g]
    BY <1>1 DEF ExpireNowOf, Least
  <1> QED BY <1>5, <1>6, <1>7

\* grants::begin fails the request or gives the grant an end within the backing
\* grant's.
LEMMA BeginGrantEffect ==
  ASSUME TypeOK, DelegationsNameThreads, NEW d \in Delegated, BeginGrant(d)
  PROVE  LET g == backing[deleg[d].thread] IN
         /\ deleg' \in [Delegated -> DelegRow]
         /\ deleg'[d].status \in {"provisioning", "failed"}
         /\ deleg'[d].thread = deleg[d].thread /\ deleg'[d].session = deleg[d].session
         /\ deleg'[d].status = "provisioning" /\ g \in Backing => deleg'[d].expires <= expiry[g]
         /\ \A e \in Delegated \ {d} : deleg'[e] = deleg[e]
  <1> DEFINE g == backing[deleg[d].thread]
             x == IF g = None THEN now + Duration ELSE Least(now + Duration, expiry[g])
  <1>1. deleg \in [Delegated -> DelegRow]
    BY DEF TypeOK, DelegRow
  <1>2. CASE SetStatus(d, "failed")
    BY <1>1, <1>2, SetStatusEffect DEF DelegStatus
  <1>3. CASE deleg' = [deleg EXCEPT ![d].status = "provisioning", ![d].expires = x]
    <2>1. deleg[d].thread \in Threads
      BY DEF BeginGrant, DelegationsNameThreads
    <2>2. x \in Nat /\ (g \in Backing => x <= expiry[g])
      BY <2>1 DEF TypeOK, Least
    <2>3. deleg[d] \in DelegRow /\ "provisioning" \in DelegStatus
      BY <1>1 DEF DelegStatus
    <2> DEFINE q == [deleg[d] EXCEPT !.status = "provisioning"]
    <2>4. q = [status |-> "provisioning", thread |-> deleg[d].thread,
               session |-> deleg[d].session, expires |-> deleg[d].expires]
      BY <2>3, StatusUpdate
    <2>5. q \in DelegRow
      BY <2>3, <2>4 DEF DelegRow
    <2>6. deleg' = [deleg EXCEPT ![d] = [q EXCEPT !.expires = x]]
      BY <1>1, <1>3
    <2> HIDE DEF q, x
    <2>7. deleg'[d] = [status |-> q.status, thread |-> q.thread,
                       session |-> q.session, expires |-> x]
      BY <1>1, <2>2, <2>5, <2>6, ExpiresUpdate
    <2>8. deleg'[d] = [status |-> "provisioning", thread |-> deleg[d].thread,
                       session |-> deleg[d].session, expires |-> x]
      BY <2>4, <2>7
    <2>9. deleg'[d] \in DelegRow
      BY <2>2, <2>3, <2>8 DEF DelegRow
    <2>10. deleg' \in [Delegated -> DelegRow] /\ \A e \in Delegated \ {d} : deleg'[e] = deleg[e]
      BY <1>1, <2>6, <2>9
    <2> QED BY <2>2, <2>8, <2>10
  <1> QED BY <1>2, <1>3 DEF BeginGrant

\* A crash leaves a grant under way to the reaper.
LEMMA CrashEffect ==
  ASSUME TypeOK, Crash
  PROVE  /\ deleg' \in [Delegated -> DelegRow]
         /\ \A e \in Delegated :
               /\ deleg'[e].status = IF deleg[e].status = "provisioning" THEN "interrupted"
                                     ELSE deleg[e].status
               /\ deleg'[e].thread = deleg[e].thread
               /\ deleg'[e].session = deleg[e].session
               /\ deleg'[e].expires = deleg[e].expires
  <1>1. deleg \in [Delegated -> DelegRow]
    BY DEF TypeOK, DelegRow
  <1>2. ASSUME NEW e \in Delegated
        PROVE  /\ deleg'[e] \in DelegRow
               /\ deleg'[e].status = IF deleg[e].status = "provisioning" THEN "interrupted"
                                     ELSE deleg[e].status
               /\ deleg'[e].thread = deleg[e].thread
               /\ deleg'[e].session = deleg[e].session
               /\ deleg'[e].expires = deleg[e].expires
    <2>1. deleg[e] \in DelegRow
      BY <1>1
    <2>2. CASE deleg[e].status # "provisioning"
      BY <2>1, <2>2 DEF Crash
    <2>3. CASE deleg[e].status = "provisioning"
      <3>1. deleg'[e] = [deleg[e] EXCEPT !.status = "interrupted"]
        BY <2>3 DEF Crash
      <3>2. deleg'[e] = [status |-> "interrupted", thread |-> deleg[e].thread,
                         session |-> deleg[e].session, expires |-> deleg[e].expires]
        BY <2>1, <3>1, StatusUpdate DEF DelegStatus
      <3> QED BY <2>1, <2>3, <3>2 DEF DelegRow, DelegStatus
    <2> QED BY <2>2, <2>3
  <1>3. deleg' = [e \in Delegated |-> deleg'[e]]
    BY DEF Crash
  <1> QED BY <1>2, <1>3

\* Every step keeps the types.
LEMMA TypePreserved == TypeOK /\ DelegationsNameThreads /\ [Next]_vars => TypeOK'
  <1> SUFFICES ASSUME TypeOK, DelegationsNameThreads, [Next]_vars PROVE TypeOK'
    OBVIOUS
  <1> USE DEF TypeOK, thread, people, basis
  <1>0. deleg \in [Delegated -> DelegRow]
    BY DEF DelegRow
  <1>1. ASSUME NEW t \in Threads, NEW s \in Sessions \cup {None}, NEW a \in Agents,
               NEW g \in Backing \cup {None}, OpenStart(t, a, s, g)
        PROVE  TypeOK'
    BY <1>1 DEF OpenStart, Begin, Calls
  <1>2. ASSUME NEW t \in Threads, NEW s \in Sessions \cup {None}, NEW a \in Agents,
               SendStart(t, a, s)
        PROVE  TypeOK'
    BY <1>2 DEF SendStart, Begin, Calls
  <1>3. ASSUME NEW t \in Threads, NEW s \in Sessions \cup {None}, NEW a \in Agents,
               Close(t, a, s)
        PROVE  TypeOK'
    <2>1. CloseThreads({t})
      BY <1>3 DEF Close
    <2> QED BY <1>3, <2>1, CloseTypes DEF Close
  <1>4. ASSUME NEW t \in Threads, NEW s \in Sessions \cup {None}, AcceptStart(t, s)
        PROVE  TypeOK'
    BY <1>4 DEF AcceptStart, Begin, Calls
  <1>5. ASSUME NEW r \in calls, OpenFinish(r) PROVE TypeOK'
    <2>1. /\ r.thread \in Threads /\ r.by \in Agents /\ r.session \in Sessions \cup {None}
          /\ r.grant \in Backing \cup {None} /\ calls' \in SUBSET Calls
      BY <1>5 DEF OpenFinish, Finished, Calls
    <2>2. CASE UNCHANGED thread
      BY <1>5, <2>1, <2>2 DEF OpenFinish
    <2>3. CASE ~UNCHANGED thread
      <3>1. voices' = [voices EXCEPT ![r.thread]["initiator"] = {r.session}]
        BY <1>5, <2>3 DEF OpenFinish
      <3>2. voices' \in [Threads -> [Sides -> SUBSET (Sessions \cup {None})]]
        BY <2>1, <3>1 DEF Sides
      <3>3. state' = [state EXCEPT ![r.thread] = "pending_open"]
            /\ opener' = [opener EXCEPT ![r.thread] = r.by]
            /\ backing' = [backing EXCEPT ![r.thread] = r.grant]
            /\ origin' = [origin EXCEPT ![r.thread] = r.session]
            /\ seq' = [seq EXCEPT ![r.thread] = 1] /\ UNCHANGED <<bound, stale>>
        BY <1>5, <2>3 DEF OpenFinish
      <3>4. seq' \in [Threads -> 0..MaxMessages]
        BY <2>1, <3>3
      <3>5. UNCHANGED <<now, people, basis, gone, deleg, mint, crashes>>
        BY <1>5 DEF OpenFinish
      <3> QED BY <2>1, <3>2, <3>3, <3>4, <3>5
    <2> QED BY <2>2, <2>3
  <1>6. ASSUME NEW r \in calls, SendFinish(r) PROVE TypeOK'
    <2> DEFINE t == r.thread
    <2>1. /\ t \in Threads /\ r.by \in Agents /\ r.session \in Sessions \cup {None}
          /\ calls' \in SUBSET Calls
      BY <1>6 DEF SendFinish, Finished, Calls
    <2>2. CASE UNCHANGED thread
      BY <1>6, <2>1, <2>2 DEF SendFinish
    <2>3. CASE CloseThreads({t})
      BY <1>6, <2>1, <2>3, CloseTypes DEF SendFinish
    <2>4. CASE seq[t] < MaxMessages /\ Appended(t, r.by, r.session)
      <3>1. voices' \in [Threads -> [Sides -> SUBSET (Sessions \cup {None})]]
        BY <2>1, <2>4 DEF Appended, Side, Sides
      <3>2. seq' \in [Threads -> 0..MaxMessages]
        BY <2>1, <2>4 DEF Appended
      <3> QED BY <1>6, <2>1, <2>4, <3>1, <3>2 DEF SendFinish, Appended, Accepted
    <2> QED BY <1>6, <2>2, <2>3, <2>4 DEF SendFinish
  <1>7. ASSUME NEW r \in calls, AcceptFinish(r) PROVE TypeOK'
    BY <1>7 DEF AcceptFinish, Finished, Accepted, Calls
  <1>8. ASSUME NEW t \in Threads, Age(t) PROVE TypeOK'
    BY <1>8 DEF Age
  <1>9. ASSUME NEW s \in Sessions, EndSession(s) PROVE TypeOK'
    BY <1>9, CloseTypes DEF EndSession, BoundTo
  <1>10. ASSUME NEW S \in SUBSET Sessions, Sweep(S) PROVE TypeOK'
    BY <1>10, CloseTypes DEF Sweep, BoundTo, DeadThreads
  <1>11. ASSUME NEW a \in Agents, Contain(a) \/ Disable(a) PROVE TypeOK'
    <2>1. ExpireNowOf(a)
      BY <1>11 DEF Contain, Disable
    <2> QED BY <1>11, <2>1, ExpireNowEffect DEF Contain, Disable, DelegRow
  <1>12. ASSUME NEW a \in Agents, Lift(a) \/ Enable(a) PROVE TypeOK'
    BY <1>12 DEF Lift, Enable
  <1>13. ASSUME NEW a \in Agents, CloseAllFor(a) PROVE TypeOK'
    BY <1>13, CloseTypes DEF CloseAllFor, ThreadsOf
  <1>14. ASSUME NEW g \in Backing, EndBacking(g) PROVE TypeOK'
    BY <1>14 DEF EndBacking
  <1>15. ASSUME NEW d \in Delegated, NEW t \in Threads, NEW s \in Sessions \cup {None},
                Request(d, t, s)
         PROVE  TypeOK'
    BY <1>15 DEF Request, DelegStatus
  <1>16. ASSUME NEW d \in Delegated, BeginGrant(d) PROVE TypeOK'
    BY <1>16, BeginGrantEffect DEF BeginGrant, DelegRow
  <1>17. ASSUME NEW d \in Delegated, FinishGrant(d) \/ Reap(d) PROVE TypeOK'
    BY <1>17, SetStatusEffect DEF FinishGrant, Reap, DelegStatus, DelegRow
  <1>18. ASSUME NEW d \in Delegated, Issue(d) \/ Issued(d) PROVE TypeOK'
    BY <1>18 DEF Issue, Issued
  <1>19. ASSUME NEW d \in Delegated, EndDelegated(d) \/ RevokeDelegated(d) PROVE TypeOK'
    BY <1>19, SetStatusEffect DEF EndDelegated, RevokeDelegated, DelegStatus, DelegRow
  <1>20. CASE Tick
    BY <1>20 DEF Tick
  <1>22. CASE Crash
    BY <1>22, CrashEffect DEF Crash, DelegRow
  <1>21. CASE UNCHANGED vars
    BY <1>21 DEF vars
  <1> QED
    BY <1>1, <1>2, <1>3, <1>4, <1>5, <1>6, <1>7, <1>8, <1>9, <1>10, <1>11, <1>12, <1>13, <1>14,
       <1>15, <1>16, <1>17, <1>18, <1>19, <1>20, <1>21, <1>22 DEF Next

\* Closing threads that no credential fetch holds disturbs nothing.
LEMMA ClosePreserves ==
  ASSUME IInv, TypeOK', NEW T \in SUBSET Threads, CloseThreads(T),
         \A t \in T : Live(t) => Free(t),
         calls' \in SUBSET calls, UNCHANGED <<contained, disabled, basis, deleg, mint>>
  PROVE  IInv'
  <1>1. \A t \in Threads : /\ state'[t] = IF t \in T /\ Live(t) THEN "closed" ELSE state[t]
                           /\ state'[t] \in {"none", "pending_open"} => state'[t] = state[t]
                           /\ state'[t] = "none" <=> state[t] = "none"
    BY DEF CloseThreads, Live, IInv, TypeOK
  <1>2. UNCHANGED <<opener, backing, origin, bound, seq, voices>>
    BY DEF CloseThreads
  <1>3. PendingIsUnanswered'
    BY <1>1, <1>2 DEF PendingIsUnanswered, IInv
  <1>4. CallsStayCleared'
    <2>1. \A r \in calls : r.thread \in Threads /\ StaysCleared(r)
      BY DEF IInv, TypeOK, Calls, CallsStayCleared
    <2>2. \A t \in Threads : Parties(t)' = Parties(t)
      BY <1>2 DEF Parties
    <2>3. \A x : PairClear(x)' <=> PairClear(x)
      BY DEF PairClear, Held
    <2> QED BY <1>1, <1>2, <2>1, <2>2, <2>3 DEF CallsStayCleared, StaysCleared
  <1>5. DelegationsNameThreads'
    BY <1>1 DEF DelegationsNameThreads, Live, IInv
  <1>6. IssuesOnOpenThread'
    <2>1. \A d \in mint : deleg[d].thread \in Threads /\ state[deleg[d].thread] = "open"
      BY DEF IInv, TypeOK, IssuesOnOpenThread, DelegationsNameThreads
    <2> QED BY <1>1, <2>1 DEF IssuesOnOpenThread, Free
  <1>7. NeverProlonged' /\ DelegatedWithinTerm'
    BY <1>2 DEF NeverProlonged, DelegatedWithinTerm, IInv, basis
  <1>8. OneVoicePerSide'
    BY <1>2 DEF OneVoicePerSide, IInv
  <1> QED BY <1>3, <1>4, <1>5, <1>6, <1>7, <1>8 DEF IInv

\* The first step of a call only adds what it saw.
LEMMA BeginPreserves ==
  ASSUME IInv, TypeOK', NEW kind \in {"open", "send", "accept"}, NEW t \in Threads, NEW a \in Agents,
         NEW s \in Sessions \cup {None}, NEW g \in Backing \cup {None}, NEW peer,
         Begin(kind, t, a, s, g, peer),
         IF kind = "open"
         THEN state[t] = "none" /\ a # Responder[t] /\ peer = Responder[t] /\ \A r \in calls : r.thread # t
         ELSE state[t] # "none" /\ {a, peer} = Parties(t) /\ (kind = "send" => g = backing[t])
              /\ (kind = "accept" => a = Responder[t])
  PROVE  IInv'
  <1>1. UNCHANGED <<contained, disabled, expiry, state, opener, backing, origin, bound, voices, deleg, mint>>
    BY DEF Begin, people, basis, thread
  <1>2. CallsStayCleared'
    <2> DEFINE new == [kind |-> kind, thread |-> t, by |-> a, session |-> s, grant |-> g,
                       at |-> IF g = None THEN 0 ELSE now]
    <2>1. calls' = calls \cup {new} /\ PairClear({a, peer})
      BY DEF Begin
    <2>2. \A x : PairClear(x)' <=> PairClear(x)
      BY <1>1 DEF PairClear, Held
    <2>3. \A u \in Threads : Parties(u)' = Parties(u)
      BY <1>1 DEF Parties
    <2>4. new.kind = kind /\ new.thread = t /\ new.by = a /\ new.grant = g
      OBVIOUS
    <2> HIDE DEF new
    <2>5. \A r \in calls : r \in Calls /\ r.thread \in Threads /\ StaysCleared(r)
      BY DEF CallsStayCleared, Calls, IInv, TypeOK
    <2>6. state' = state /\ backing' = backing
      BY <1>1
    <2>7. ASSUME NEW r \in calls PROVE StaysCleared(r)'
      <3>1. kind = "open" => r.thread # t
        OBVIOUS
      <3>2. r.kind = "open" => t # r.thread
        BY <2>5, <3>1 DEF StaysCleared
      <3> QED BY <2>1, <2>2, <2>3, <2>4, <2>5, <2>6, <3>1, <3>2 DEF StaysCleared
    <2>8. ASSUME NEW r, r = new PROVE StaysCleared(r)'
      BY <2>1, <2>2, <2>3, <2>4, <2>6, <2>8 DEF StaysCleared
    <2> QED BY <2>1, <2>7, <2>8 DEF CallsStayCleared
  <1>3. PendingIsUnanswered' /\ DelegationsNameThreads' /\ NeverProlonged'
    BY <1>1 DEF PendingIsUnanswered, DelegationsNameThreads, NeverProlonged, IInv
  <1>4. IssuesOnOpenThread' /\ OneVoicePerSide' /\ DelegatedWithinTerm'
    BY <1>1 DEF IssuesOnOpenThread, OneVoicePerSide, DelegatedWithinTerm, IInv
  <1> QED BY <1>2, <1>3, <1>4 DEF IInv

\* Calls may end and parties may be enabled without disturbing what the other
\* calls rely on; with no call in flight nobody relies on anything.
LEMMA CallsKeepCleared ==
  ASSUME IInv, UNCHANGED <<state, opener, backing, bound, voices>>, calls' \in SUBSET calls,
         calls' = {} \/ (UNCHANGED contained /\ disabled' \subseteq disabled)
  PROVE  PendingIsUnanswered' /\ CallsStayCleared'
  <1>1. PendingIsUnanswered'
    BY DEF PendingIsUnanswered, IInv
  <1>2. CASE calls' = {}
    BY <1>1, <1>2 DEF CallsStayCleared
  <1>3. CASE UNCHANGED contained /\ disabled' \subseteq disabled
    <2>1. \A x : PairClear(x) => PairClear(x)'
      BY <1>3 DEF PairClear, Held
    <2>2. \A r \in calls : r.thread \in Threads /\ StaysCleared(r)
      BY DEF IInv, TypeOK, Calls, CallsStayCleared
    <2>3. \A t \in Threads : Parties(t)' = Parties(t)
      BY DEF Parties
    <2> QED BY <1>1, <2>1, <2>2, <2>3 DEF CallsStayCleared, StaysCleared
  <1> QED BY <1>2, <1>3

\* store::a2a::open makes a thread of two different parties, which no other
\* call and no delegation names yet.
LEMMA OpenPreserves ==
  ASSUME IInv, TypeOK', NEW r \in calls, OpenFinish(r)
  PROVE  IInv'
  <1> DEFINE t == r.thread
  <1>1. /\ t \in Threads /\ r.by \in Agents /\ r.kind = "open" /\ StaysCleared(r)
        /\ calls' = calls \ {r}
        /\ UNCHANGED <<contained, disabled, expiry, deleg, mint>>
    BY DEF OpenFinish, IInv, TypeOK, Calls, CallsStayCleared, Finished, people, basis
  <1>2. /\ state[t] = "none" /\ r.by # Responder[t]
        /\ \A q \in calls : q.thread = t => q = r
        /\ bound[t] = None /\ voices[t]["responder"] = {}
    BY <1>1 DEF StaysCleared, IInv, PendingIsUnanswered
  <1>3. CASE UNCHANGED thread
    <2>1. PendingIsUnanswered' /\ CallsStayCleared'
      BY <1>1, <1>3, CallsKeepCleared DEF thread
    <2>2. DelegationsNameThreads' /\ NeverProlonged' /\ IssuesOnOpenThread'
      BY <1>1, <1>3 DEF IInv, thread, DelegationsNameThreads, NeverProlonged, IssuesOnOpenThread
    <2>3. OneVoicePerSide' /\ DelegatedWithinTerm'
      BY <1>1, <1>3 DEF IInv, thread, OneVoicePerSide, DelegatedWithinTerm
    <2> QED BY <2>1, <2>2, <2>3 DEF IInv
  <1>4. CASE ~UNCHANGED thread
    <2>1. /\ state' = [state EXCEPT ![t] = "pending_open"]
          /\ opener' = [opener EXCEPT ![t] = r.by]
          /\ backing' = [backing EXCEPT ![t] = r.grant]
          /\ origin' = [origin EXCEPT ![t] = r.session]
          /\ voices' = [voices EXCEPT ![t]["initiator"] = {r.session}]
          /\ UNCHANGED bound
      BY <1>4 DEF OpenFinish
    <2>2. /\ state'[t] = "pending_open" /\ opener'[t] = r.by /\ origin'[t] = r.session
          /\ voices'[t]["initiator"] = {r.session} /\ voices'[t]["responder"] = {}
      BY <1>1, <1>2, <2>1 DEF IInv, TypeOK, Sides
    <2>3. \A u \in Threads \ {t} : /\ state'[u] = state[u] /\ opener'[u] = opener[u]
                                   /\ backing'[u] = backing[u] /\ origin'[u] = origin[u]
                                   /\ voices'[u] = voices[u]
      BY <1>1, <2>1 DEF IInv, TypeOK
    <2>4. PendingIsUnanswered'
      BY <1>1, <1>2, <2>1, <2>2, <2>3 DEF IInv, PendingIsUnanswered
    <2>5. CallsStayCleared'
      <3>1. ASSUME NEW q \in calls' PROVE StaysCleared(q)'
        <4>1. q \in calls /\ q.thread \in Threads \ {t} /\ StaysCleared(q)
          BY <1>1, <1>2 DEF IInv, TypeOK, Calls, CallsStayCleared
        <4>2. Parties(q.thread)' = Parties(q.thread)
          BY <2>3, <4>1 DEF Parties
        <4>3. \A x : PairClear(x)' <=> PairClear(x)
          BY <1>1 DEF PairClear, Held
        <4> QED BY <1>1, <2>3, <4>1, <4>2, <4>3 DEF StaysCleared
      <3> QED BY <3>1 DEF CallsStayCleared
    <2>6. \A d \in Delegated : deleg[d].thread # t
      BY <1>1, <1>2 DEF IInv, DelegationsNameThreads
    <2>7. DelegationsNameThreads' /\ NeverProlonged' /\ IssuesOnOpenThread'
      <3>1. \A d \in mint : d \in Delegated /\ deleg[d].thread \in Threads
        BY DEF IInv, TypeOK, DelegationsNameThreads
      <3> QED BY <1>1, <2>3, <2>6, <3>1
            DEF IInv, DelegationsNameThreads, NeverProlonged, IssuesOnOpenThread
    <2>8. OneVoicePerSide'
      BY <1>1, <1>2, <2>1, <2>2, <2>3 DEF IInv, OneVoicePerSide
    <2>9. DelegatedWithinTerm'
      <3>1. \A d \in Delegated : deleg[d].status # "none" => deleg[d].thread \in Threads \ {t}
        BY <2>6 DEF IInv, DelegationsNameThreads
      <3> QED BY <1>1, <2>3, <3>1 DEF IInv, DelegatedWithinTerm
    <2> QED BY <2>4, <2>5, <2>7, <2>8, <2>9 DEF IInv
  <1> QED BY <1>3, <1>4

\* A thread that opens, or stays open, keeps its parties and its grant; who
\* answers a pending thread binds it, and an open one keeps its binding.
LEMMA AnswerPreserves ==
  ASSUME IInv, TypeOK', NEW t \in Threads, NEW s \in Sessions \cup {None}, NEW a \in Parties(t),
         Accepted(t, IF a = Responder[t] THEN s ELSE None), Live(t), OwnThread(t, a, s),
         state[t] = "open" \/ a = Responder[t],
         voices' = voices \/ voices' = [voices EXCEPT ![t][Side(t, a)] = @ \cup {s}],
         calls' \in SUBSET calls,
         UNCHANGED <<opener, backing, origin, contained, disabled, basis, deleg, mint>>
  PROVE  IInv'
  <1>1. /\ opener[t] \in Agents \ {Responder[t]}
        /\ state[t] \in {"pending_open", "open"}
        /\ state[t] = "pending_open" => bound[t] = None /\ voices[t]["responder"] = {}
    BY DEF Live, IInv, PendingIsUnanswered
  <1>2. \A u \in Threads \ {t} : /\ state'[u] = state[u] /\ bound'[u] = bound[u]
                                 /\ voices'[u] = voices[u]
    BY DEF Accepted, IInv, TypeOK
  <1>3. /\ state'[t] = "open"
        /\ state[t] = "open" => bound'[t] = bound[t]
        /\ state[t] = "pending_open" => a = Responder[t] /\ bound'[t] = s
    BY <1>1 DEF Accepted, IInv, TypeOK
  <1>4. PendingIsUnanswered'
    BY <1>1, <1>2, <1>3 DEF IInv, PendingIsUnanswered
  <1>5. CallsStayCleared'
    <2>1. \A r \in calls : r.thread \in Threads /\ StaysCleared(r)
      BY DEF IInv, TypeOK, Calls, CallsStayCleared
    <2>2. \A u \in Threads : Parties(u)' = Parties(u)
      BY DEF Parties
    <2>3. \A x : PairClear(x)' <=> PairClear(x)
      BY DEF PairClear, Held
    <2>4. \A u \in Threads : state'[u] = "none" <=> state[u] = "none"
      BY <1>1, <1>2, <1>3
    <2> QED BY <2>1, <2>2, <2>3, <2>4 DEF CallsStayCleared, StaysCleared
  <1>6. DelegationsNameThreads' /\ NeverProlonged' /\ DelegatedWithinTerm'
    <2>1. DelegationsNameThreads'
      BY <1>2, <1>3 DEF IInv, DelegationsNameThreads
    <2> QED BY <2>1 DEF IInv, NeverProlonged, DelegatedWithinTerm, basis
  <1>7. IssuesOnOpenThread'
    <2>1. \A d \in mint : deleg[d].thread \in Threads
      BY DEF IInv, TypeOK, DelegationsNameThreads
    <2> QED BY <1>2, <1>3, <2>1 DEF IInv, IssuesOnOpenThread
  <1>8. OneVoicePerSide'
    <2>1. voices[t] \in [Sides -> SUBSET (Sessions \cup {None})]
      BY DEF IInv, TypeOK
    <2>2. CASE a = Responder[t]
      <3>1. /\ voices'[t]["initiator"] = voices[t]["initiator"]
            /\ voices'[t]["responder"] \subseteq voices[t]["responder"] \cup {s}
        BY <2>1, <2>2 DEF IInv, TypeOK, Side, Sides
      <3>2. bound[t] \in {None, s}
        BY <1>1, <2>2 DEF OwnThread
      <3>3. bound'[t] # None => voices'[t]["responder"] \subseteq {bound'[t]}
        <4>1. CASE state[t] = "open"
          BY <1>3, <3>1, <3>2, <4>1 DEF IInv, OneVoicePerSide
        <4>2. CASE state[t] = "pending_open"
          BY <1>1, <1>3, <3>1, <4>2
        <4> QED BY <1>1, <4>1, <4>2
      <3>4. \A d \in Delegated : deleg[d].thread = t => bound'[t] \in {None, deleg[d].session}
        <4>1. \A d \in Delegated : deleg[d].thread = t => state[t] # "pending_open"
          BY DEF IInv, DelegationsNameThreads
        <4> QED BY <1>1, <1>3, <4>1 DEF IInv, OneVoicePerSide
      <3>5. ASSUME NEW u \in Threads
            PROVE  /\ origin'[u] # None => voices'[u]["initiator"] \subseteq {origin'[u]}
                   /\ bound'[u] # None => voices'[u]["responder"] \subseteq {bound'[u]}
        BY <1>2, <3>1, <3>3 DEF IInv, OneVoicePerSide
      <3>6. ASSUME NEW d \in Delegated, deleg[d].thread # None
            PROVE  bound'[deleg[d].thread] \in {None, deleg[d].session}
        <4>1. deleg[d].thread \in Threads
          BY <3>6 DEF IInv, DelegationsNameThreads
        <4> QED BY <1>2, <3>4, <3>6, <4>1 DEF IInv, OneVoicePerSide
      <3> QED BY <3>5, <3>6 DEF OneVoicePerSide
    <2>3. CASE a # Responder[t]
      <3>1. /\ voices'[t]["responder"] = voices[t]["responder"]
            /\ voices'[t]["initiator"] \subseteq voices[t]["initiator"] \cup {s}
        BY <2>1, <2>3 DEF IInv, TypeOK, Side, Sides
      <3>2. origin[t] \in {None, s} /\ bound'[t] = bound[t]
        BY <1>1, <1>3, <2>3 DEF OwnThread
      <3>3. bound' = bound
        BY <1>2, <3>2 DEF IInv, TypeOK
      <3>4. ASSUME NEW u \in Threads
            PROVE  /\ origin'[u] # None => voices'[u]["initiator"] \subseteq {origin'[u]}
                   /\ bound'[u] # None => voices'[u]["responder"] \subseteq {bound'[u]}
        BY <1>2, <3>1, <3>2 DEF IInv, OneVoicePerSide
      <3> QED BY <3>3, <3>4 DEF IInv, OneVoicePerSide
    <2> QED BY <2>2, <2>3
  <1> QED BY <1>4, <1>5, <1>6, <1>7, <1>8 DEF IInv

\* Steps that leave threads, delegations and expiries alone, and end calls at most.
LEMMA StutterPreserves ==
  ASSUME IInv, TypeOK', UNCHANGED <<state, opener, backing, origin, bound, voices, expiry, deleg, mint>>,
         calls' \in SUBSET calls,
         calls' = {} \/ (UNCHANGED contained /\ disabled' \subseteq disabled)
  PROVE  IInv'
  <1>1. PendingIsUnanswered' /\ CallsStayCleared'
    BY CallsKeepCleared
  <1>2. DelegationsNameThreads' /\ NeverProlonged' /\ IssuesOnOpenThread'
    BY DEF IInv, DelegationsNameThreads, NeverProlonged, IssuesOnOpenThread
  <1>3. OneVoicePerSide' /\ DelegatedWithinTerm'
    BY DEF IInv, OneVoicePerSide, DelegatedWithinTerm
  <1> QED BY <1>1, <1>2, <1>3 DEF IInv

\* Steps that leave the threads alone: what is left to show is about the
\* delegated rows and the backing grants.
LEMMA DelegationSteps ==
  ASSUME IInv, TypeOK', UNCHANGED <<state, opener, backing, origin, bound, voices>>,
         PendingIsUnanswered', CallsStayCleared',
         \A g \in Backing : expiry'[g] <= expiry[g],
         \A d \in Delegated :
            \/ /\ deleg'[d].thread = deleg[d].thread /\ deleg'[d].session = deleg[d].session
               /\ deleg[d].status = "none" <=> deleg'[d].status = "none"
               /\ \/ deleg'[d].status \notin {"provisioning", "interrupted", "active"}
                  \/ /\ deleg[d].status \in {"provisioning", "interrupted", "active"}
                     /\ deleg'[d].expires <= deleg[d].expires
                  \/ /\ deleg[d].status # "none"
                     /\ LET g == backing[deleg[d].thread] IN g \in Backing => deleg'[d].expires <= expiry[g]
            \/ /\ deleg'[d].thread \in Threads /\ state[deleg'[d].thread] = "open"
               /\ deleg'[d].status = "requested"
               /\ bound[deleg'[d].thread] \in {None, deleg'[d].session},
         \A d \in mint' : deleg'[d].status = "active" /\ state[deleg'[d].thread] = "open"
  PROVE  IInv'
  <1>1. DelegationsNameThreads'
    <2>1. ASSUME NEW d \in Delegated
          PROVE  IF deleg'[d].status = "none" THEN deleg'[d].thread = None
                 ELSE deleg'[d].thread \in Threads /\ state[deleg'[d].thread] \in {"open", "closed"}
      BY DEF IInv, DelegationsNameThreads
    <2> QED BY <2>1 DEF DelegationsNameThreads
  <1>2. NeverProlonged'
    <2>1. \A g \in Backing : expiry[g] \in Nat /\ expiry'[g] \in Nat /\ Term[g] \in Nat
      BY DEF IInv, TypeOK
    <2> QED BY <2>1 DEF IInv, NeverProlonged
  <1>3. IssuesOnOpenThread'
    BY DEF IssuesOnOpenThread
  <1>4. OneVoicePerSide'
    <2>1. ASSUME NEW d \in Delegated, deleg'[d].thread # None
          PROVE  bound[deleg'[d].thread] \in {None, deleg'[d].session}
      BY <2>1 DEF IInv, OneVoicePerSide
    <2> QED BY <2>1 DEF IInv, OneVoicePerSide
  <1>5. DelegatedWithinTerm'
    <2> SUFFICES ASSUME NEW d \in Delegated,
                        deleg'[d].status \in {"provisioning", "interrupted", "active"},
                        backing[deleg'[d].thread] # None
                 PROVE  deleg'[d].expires <= Term[backing[deleg'[d].thread]]
      BY DEF DelegatedWithinTerm
    <2> DEFINE g == backing[deleg[d].thread]
    <2>1. deleg'[d].thread = deleg[d].thread /\ deleg[d].status # "none"
      OBVIOUS
    <2>2. g \in Backing
      BY <2>1 DEF IInv, TypeOK, DelegationsNameThreads
    <2>3. /\ expiry[g] \in Nat /\ Term[g] \in Nat /\ expiry[g] <= Term[g]
          /\ deleg'[d].expires \in Nat /\ deleg[d].expires \in Nat
      BY <2>2 DEF IInv, TypeOK, NeverProlonged
    <2>4. CASE /\ deleg[d].status \in {"provisioning", "interrupted", "active"}
               /\ deleg'[d].expires <= deleg[d].expires
      <3>1. deleg[d].expires <= Term[g]
        BY <2>1, <2>4 DEF IInv, DelegatedWithinTerm
      <3> QED BY <2>1, <2>3, <2>4, <3>1
    <2>5. CASE deleg'[d].expires <= expiry[g]
      BY <2>1, <2>3, <2>5
    <2> HIDE DEF g
    <2> QED BY <2>1, <2>2, <2>4, <2>5 DEF g
  <1> QED BY <1>1, <1>2, <1>3, <1>4, <1>5 DEF IInv

\* Every step keeps the inductive invariant: the thread's lock (Free), the
\* containment lock (NoCheckInFlight) and the second look of each call are what
\* the cases rest on.
LEMMA StepPreserves == IInv /\ [Next]_vars => IInv'
  <1> SUFFICES ASSUME IInv, [Next]_vars PROVE IInv'
    OBVIOUS
  <1>0. TypeOK /\ TypeOK' /\ DelegationsNameThreads
    BY TypePreserved DEF IInv
  <1> USE <1>0
  <1>1. ASSUME NEW t \in Threads, NEW s \in Sessions \cup {None}, NEW a \in Agents,
               NEW g \in Backing \cup {None}, OpenStart(t, a, s, g)
        PROVE  IInv'
    BY <1>1, BeginPreserves DEF OpenStart
  <1>2. ASSUME NEW t \in Threads, NEW s \in Sessions \cup {None}, NEW a \in Agents,
               SendStart(t, a, s)
        PROVE  IInv'
    <2> DEFINE peer == IF a = opener[t] THEN Responder[t] ELSE opener[t]
    <2>1. state[t] # "none" /\ {a, peer} = Parties(t) /\ backing[t] \in Backing \cup {None}
      BY <1>2 DEF SendStart, Live, OwnThread, Parties, TypeOK
    <2>2. Begin("send", t, a, s, backing[t], peer)
      BY <1>2 DEF SendStart
    <2> HIDE DEF peer
    <2> QED BY <2>1, <2>2, BeginPreserves
  <1>3. ASSUME NEW t \in Threads, NEW s \in Sessions \cup {None}, AcceptStart(t, s)
        PROVE  IInv'
    <2>1. /\ state[t] # "none" /\ {Responder[t], opener[t]} = Parties(t) /\ Responder[t] \in Agents
          /\ Begin("accept", t, Responder[t], s, None, opener[t])
      BY <1>3 DEF AcceptStart, Parties
    <2> QED BY <2>1, BeginPreserves
  <1>4. ASSUME NEW t \in Threads, NEW s \in Sessions \cup {None}, NEW a \in Agents, Close(t, a, s)
        PROVE  IInv'
    <2>1. CloseThreads({t}) /\ Free(t)
      BY <1>4 DEF Close
    <2>2. UNCHANGED <<contained, disabled, basis, calls, deleg, mint>>
      BY <1>4 DEF Close, people
    <2> QED BY <2>1, <2>2, ClosePreserves
  <1>5. ASSUME NEW r \in calls, OpenFinish(r) PROVE IInv'
    BY <1>5, OpenPreserves
  <1>6. ASSUME NEW r \in calls, SendFinish(r) PROVE IInv'
    <2> DEFINE t == r.thread
    <2>1. /\ t \in Threads /\ r.by \in Agents /\ r.session \in Sessions \cup {None}
          /\ calls' \in SUBSET calls /\ Free(t)
          /\ UNCHANGED <<contained, disabled, basis, deleg, mint>>
      BY <1>6 DEF SendFinish, Finished, people, TypeOK, Calls
    <2>2. CASE UNCHANGED thread
      BY <2>1, <2>2, StutterPreserves DEF thread, basis
    <2>3. CASE CloseThreads({t})
      BY <2>1, <2>3, ClosePreserves
    <2>4. CASE /\ Live(t) /\ OwnThread(t, r.by, r.session)
               /\ state[t] = "open" \/ r.by = Responder[t]
               /\ Appended(t, r.by, r.session)
      <3>1. r.by \in Parties(t)
        BY <2>4 DEF OwnThread, Parties
      <3> QED BY <2>1, <2>4, <3>1, AnswerPreserves DEF Appended
    <2> QED BY <1>6, <2>2, <2>3, <2>4 DEF SendFinish
  <1>7. ASSUME NEW r \in calls, AcceptFinish(r) PROVE IInv'
    <2> DEFINE t == r.thread
    <2>1. /\ t \in Threads /\ r.by \in Agents /\ r.session \in Sessions \cup {None}
          /\ calls' \in SUBSET calls
          /\ UNCHANGED <<contained, disabled, basis, deleg, mint>>
      BY <1>7 DEF AcceptFinish, Finished, people, TypeOK, Calls
    <2>2. CASE UNCHANGED thread
      BY <2>1, <2>2, StutterPreserves DEF thread, basis
    <2>3. CASE ~UNCHANGED thread
      <3>1. /\ Live(t) /\ OwnThread(t, r.by, r.session) /\ state[t] = "pending_open"
            /\ Accepted(t, r.session) /\ UNCHANGED <<opener, backing, origin, voices>>
        BY <1>7, <2>3 DEF AcceptFinish, Live
      <3>2. r.by = Responder[t]
        BY <1>7 DEF AcceptFinish, IInv, CallsStayCleared, StaysCleared
      <3>3. r.by \in Parties(t)
        BY <3>2 DEF Parties
      <3> QED BY <2>1, <3>1, <3>2, <3>3, AnswerPreserves
    <2> QED BY <2>2, <2>3
  <1>8. ASSUME NEW t \in Threads, Age(t) PROVE IInv'
    BY <1>8, StutterPreserves DEF Age, people, basis
  <1>9. ASSUME NEW s \in Sessions, EndSession(s) PROVE IInv'
    <2>1. /\ BoundTo({s}) \in SUBSET Threads /\ CloseThreads(BoundTo({s}))
          /\ \A t \in BoundTo({s}) : Free(t)
          /\ UNCHANGED <<contained, disabled, basis, calls, deleg, mint>>
      BY <1>9 DEF EndSession, BoundTo, people
    <2> QED BY <2>1, ClosePreserves
  <1>10. ASSUME NEW S \in SUBSET Sessions, Sweep(S) PROVE IInv'
    <2> DEFINE T == BoundTo(S) \cup {t \in stale : Live(t)} \cup DeadThreads
    <2>1. /\ T \in SUBSET Threads /\ CloseThreads(T) /\ \A t \in T : Free(t)
          /\ UNCHANGED <<contained, disabled, basis, calls, deleg, mint>>
      BY <1>10 DEF Sweep, BoundTo, DeadThreads, people, TypeOK
    <2> QED BY <2>1, ClosePreserves
  <1>11. ASSUME NEW a \in Agents, Contain(a) \/ Disable(a) PROVE IInv'
    <2>1. /\ ExpireNowOf(a) /\ calls' = {} /\ mint' = {} /\ calls = {}
          /\ UNCHANGED <<state, opener, backing, origin, bound, voices>>
      BY <1>11 DEF Contain, Disable, NoCheckInFlight, thread
    <2>2. PendingIsUnanswered' /\ CallsStayCleared'
      BY <2>1, CallsKeepCleared
    <2>3. \A d \in Delegated :
             /\ deleg'[d].thread = deleg[d].thread /\ deleg'[d].session = deleg[d].session
             /\ deleg'[d].status = deleg[d].status /\ deleg'[d].expires <= deleg[d].expires
      BY <2>1, ExpireNowEffect
    <2>4. \A g \in Backing : expiry'[g] <= expiry[g]
      BY <2>1, ExpireNowEffect
    <2> QED BY <2>1, <2>2, <2>3, <2>4, DelegationSteps
  <1>12. ASSUME NEW a \in Agents, Lift(a) PROVE IInv'
    BY <1>12, StutterPreserves DEF Lift, NoCheckInFlight, thread, basis
  <1>13. ASSUME NEW a \in Agents, Enable(a) PROVE IInv'
    BY <1>13, StutterPreserves DEF Enable, thread, basis
  <1>14. ASSUME NEW a \in Agents, CloseAllFor(a) PROVE IInv'
    <2>1. /\ ThreadsOf(a) \in SUBSET Threads /\ CloseThreads(ThreadsOf(a))
          /\ \A t \in ThreadsOf(a) : Free(t)
          /\ UNCHANGED <<contained, disabled, basis, calls, deleg, mint>>
      BY <1>14 DEF CloseAllFor, ThreadsOf, people
    <2> QED BY <2>1, ClosePreserves
  <1>15. ASSUME NEW g \in Backing, EndBacking(g) PROVE IInv'
    BY <1>15, StutterPreserves DEF EndBacking, people, thread
  <1>16. ASSUME NEW d \in Delegated, NEW t \in Threads, NEW s \in Sessions \cup {None},
                Request(d, t, s)
         PROVE  IInv'
    <2>1. /\ deleg' = [deleg EXCEPT ![d] = [status |-> "requested", thread |-> t, session |-> s,
                                            expires |-> 0]]
          /\ UNCHANGED <<contained, disabled, expiry, state, opener, backing, origin, bound, voices,
                         calls, mint>>
          /\ state[t] = "open" /\ deleg[d].status = "none"
      BY <1>16 DEF Request, people, basis, thread
    <2>2. bound[t] \in {None, s}
      BY <1>16, <2>1 DEF Request, OwnThread, IInv, PendingIsUnanswered
    <2>3. /\ deleg'[d].status = "requested" /\ deleg'[d].thread = t /\ deleg'[d].session = s
          /\ \A e \in Delegated \ {d} : deleg'[e] = deleg[e]
      BY <2>1 DEF TypeOK
    <2>4. \A e \in mint : e \in Delegated \ {d} /\ deleg[e].status = "active"
                          /\ state[deleg[e].thread] = "open"
      BY <2>1 DEF IInv, TypeOK, DelegationsNameThreads, IssuesOnOpenThread
    <2>5. PendingIsUnanswered' /\ CallsStayCleared'
      BY <2>1, CallsKeepCleared
    <2>6. \A g \in Backing : expiry'[g] <= expiry[g]
      BY <1>0, <2>1 DEF TypeOK
    <2>7. \A e \in Delegated : deleg[e].expires <= deleg[e].expires
      BY <1>0 DEF TypeOK
    <2> QED BY <1>0, <2>1, <2>2, <2>3, <2>4, <2>5, <2>6, <2>7, DelegationSteps
  <1>17. ASSUME NEW d \in Delegated, BeginGrant(d) PROVE IInv'
    <2>1. /\ UNCHANGED <<contained, disabled, expiry, state, opener, backing, origin, bound, voices,
                         calls, mint>>
          /\ deleg[d].status = "requested"
      BY <1>17 DEF BeginGrant, people, basis, thread
    <2>2. LET g == backing[deleg[d].thread] IN
          /\ deleg'[d].status \in {"provisioning", "failed"}
          /\ deleg'[d].thread = deleg[d].thread /\ deleg'[d].session = deleg[d].session
          /\ deleg'[d].status = "provisioning" /\ g \in Backing => deleg'[d].expires <= expiry[g]
          /\ \A e \in Delegated \ {d} : deleg'[e] = deleg[e]
      BY <1>17, BeginGrantEffect
    <2>3. \A e \in mint : e \in Delegated \ {d} /\ deleg[e].status = "active"
                          /\ state[deleg[e].thread] = "open"
      BY <2>1 DEF IInv, TypeOK, DelegationsNameThreads, IssuesOnOpenThread
    <2>4. PendingIsUnanswered' /\ CallsStayCleared'
      BY <2>1, CallsKeepCleared
    <2>5. \A g \in Backing : expiry'[g] <= expiry[g]
      BY <2>1 DEF TypeOK
    <2>6. \A e \in Delegated : deleg[e].expires <= deleg[e].expires
      BY DEF TypeOK
    <2> QED BY <2>1, <2>2, <2>3, <2>4, <2>5, <2>6, DelegationSteps
  <1>18. ASSUME NEW d \in Delegated,
                FinishGrant(d) \/ Reap(d) \/ EndDelegated(d) \/ RevokeDelegated(d)
         PROVE  IInv'
    <2>1. /\ UNCHANGED <<contained, disabled, expiry, state, opener, backing, origin, bound, voices,
                         calls, mint>>
          /\ d \notin mint /\ deleg[d].status # "none"
      BY <1>18 DEF FinishGrant, Reap, EndDelegated, RevokeDelegated, people, basis, thread,
           IInv, DelegationsNameThreads
    <2>2. PICK st \in {"active", "failed", "ended"} :
             /\ SetStatus(d, st)
             /\ st = "active" => deleg[d].status = "provisioning"
      BY <1>18 DEF FinishGrant, Reap, EndDelegated, RevokeDelegated
    <2>3. /\ deleg'[d].status = st
          /\ \A e \in Delegated : /\ e # d => deleg'[e] = deleg[e]
                                  /\ deleg'[e].thread = deleg[e].thread
                                  /\ deleg'[e].session = deleg[e].session
                                  /\ deleg'[e].expires <= deleg[e].expires
      <3>1. \A e \in Delegated : deleg[e].expires \in Nat
        BY DEF TypeOK
      <3> QED BY <2>2, <3>1, SetStatusEffect DEF DelegStatus
    <2>4. \A e \in mint : e \in Delegated \ {d} /\ deleg[e].status = "active"
                          /\ state[deleg[e].thread] = "open"
      BY <2>1 DEF IInv, TypeOK, DelegationsNameThreads, IssuesOnOpenThread
    <2>5. PendingIsUnanswered' /\ CallsStayCleared'
      BY <2>1, CallsKeepCleared
    <2>6. \A g \in Backing : expiry'[g] <= expiry[g]
      BY <2>1 DEF TypeOK
    <2> QED BY <2>1, <2>2, <2>3, <2>4, <2>5, <2>6, DelegationSteps
  <1>19. ASSUME NEW d \in Delegated, Issue(d) \/ Issued(d) PROVE IInv'
    <2>1. /\ UNCHANGED <<contained, disabled, expiry, state, opener, backing, origin, bound, voices,
                         calls, deleg>>
          /\ \A e \in mint' : e \in mint \/ (deleg[e].status = "active" /\ state[deleg[e].thread] = "open")
      BY <1>19 DEF Issue, Issued, people, basis, thread
    <2>2. \A e \in mint : deleg[e].status = "active" /\ state[deleg[e].thread] = "open"
      BY DEF IInv, TypeOK, DelegationsNameThreads, IssuesOnOpenThread
    <2>3. PendingIsUnanswered' /\ CallsStayCleared'
      BY <2>1, CallsKeepCleared
    <2>4. \A g \in Backing : expiry'[g] <= expiry[g]
      BY <2>1 DEF TypeOK
    <2>5. \A e \in Delegated : deleg[e].expires <= deleg[e].expires
      BY DEF TypeOK
    <2> QED BY <2>1, <2>2, <2>3, <2>4, <2>5, DelegationSteps
  <1>20. CASE Tick
    BY <1>20, StutterPreserves DEF Tick, people, thread, basis
  <1>21. CASE Crash
    <2>1. /\ UNCHANGED <<expiry, state, opener, backing, origin, bound, voices>>
          /\ calls' = {} /\ mint' = {}
      BY <1>21 DEF Crash, basis, thread
    <2>2. \A e \in Delegated :
             /\ deleg'[e].status = IF deleg[e].status = "provisioning" THEN "interrupted"
                                   ELSE deleg[e].status
             /\ deleg'[e].thread = deleg[e].thread /\ deleg'[e].session = deleg[e].session
             /\ deleg'[e].expires <= deleg[e].expires
      <3>1. \A e \in Delegated : deleg[e].expires \in Nat
        BY DEF TypeOK
      <3> QED BY <1>21, <3>1, CrashEffect
    <2>3. PendingIsUnanswered' /\ CallsStayCleared'
      BY <2>1, CallsKeepCleared
    <2>4. \A g \in Backing : expiry'[g] <= expiry[g]
      BY <2>1 DEF TypeOK
    <2> QED BY <2>1, <2>2, <2>3, <2>4, DelegationSteps
  <1>22. CASE UNCHANGED vars
    BY <1>22, StutterPreserves DEF vars, people, thread, basis
  <1> QED
    BY <1>1, <1>2, <1>3, <1>4, <1>5, <1>6, <1>7, <1>8, <1>9, <1>10, <1>11, <1>12, <1>13, <1>14,
       <1>15, <1>16, <1>17, <1>18, <1>19, <1>20, <1>21, <1>22 DEF Next

\* The inductive invariant holds in every reachable state.
THEOREM Invariance == Spec => []IInv
  BY InitEstablishes, StepPreserves, PTL DEF Spec

\* The type invariant; with it, no thread ever has more messages than the cap,
\* although the cap is compared before the message is stored.
THEOREM TypeCorrect == Spec => []TypeOK
  <1>1. IInv => TypeOK
    BY DEF IInv
  <1> QED BY <1>1, Invariance, PTL

\* No close, sweep or containment commits on a thread between issuable's check
\* and the hand-out of a delegated credential.
THEOREM CredentialsOnOpenThreads == Spec => []IssuesOnOpenThread
  <1>1. IInv => IssuesOnOpenThread
    BY DEF IInv
  <1> QED BY <1>1, Invariance, PTL

\* However many sessions of an agent race for a thread, the bound one alone has
\* spoken and asked for access on its side.
THEOREM BoundSessionSpeaks == Spec => []OneVoicePerSide
  <1>1. IInv => OneVoicePerSide
    BY DEF IInv
  <1> QED BY <1>1, Invariance, PTL

\* A delegated grant never outlives the term of the grant it rests on.
THEOREM DelegationWithinTerm == Spec => []DelegatedWithinTerm
  <1>1. IInv => DelegatedWithinTerm
    BY DEF IInv
  <1> QED BY <1>1, Invariance, PTL

(***************************************************************************)
(* What a step may never do.                                               *)
(***************************************************************************)

\* Only the second step of an open or a send stores a message, and only on a
\* thread that is not closed; any other step leaves or closes threads.
LEMMA ThreadStep ==
  ASSUME IInv, Next, NEW t \in Threads
  PROVE  \/ seq'[t] = seq[t] /\ (state[t] = "closed" => state'[t] = "closed")
         \/ \E r \in calls : r.thread = t /\ r.kind = "open" /\ OpenFinish(r)
         \/ \E r \in calls : /\ r.thread = t /\ r.kind = "send" /\ SendFinish(r)
                             /\ GrantLive(r.grant, r.at) /\ Live(t)
  <1> DEFINE Goal == \/ seq'[t] = seq[t] /\ (state[t] = "closed" => state'[t] = "closed")
                     \/ \E r \in calls : r.thread = t /\ r.kind = "open" /\ OpenFinish(r)
                     \/ \E r \in calls : /\ r.thread = t /\ r.kind = "send" /\ SendFinish(r)
                                         /\ GrantLive(r.grant, r.at) /\ Live(t)
  <1>0. state \in [Threads -> {"none", "pending_open", "open", "closed"}] /\ seq \in [Threads -> 0..MaxMessages]
    BY DEF IInv, TypeOK
  <1>1. ASSUME UNCHANGED <<state, seq>> PROVE Goal
    BY <1>1
  <1>2. ASSUME NEW T, CloseThreads(T) PROVE Goal
    BY <1>0, <1>2 DEF CloseThreads
  <1>3. ASSUME NEW r \in calls, OpenFinish(r) PROVE Goal
    <2>1. CASE r.thread = t
      BY <1>3, <2>1 DEF OpenFinish
    <2>2. CASE r.thread # t
      BY <1>0, <1>3, <2>2 DEF OpenFinish, thread
    <2> QED BY <2>1, <2>2
  <1>4. ASSUME NEW r \in calls, SendFinish(r) PROVE Goal
    <2>1. CASE UNCHANGED thread
      BY <1>1, <2>1 DEF thread
    <2>2. CASE CloseThreads({r.thread})
      BY <1>2, <2>2
    <2>3. CASE Live(r.thread) /\ GrantLive(r.grant, r.at) /\ Appended(r.thread, r.by, r.session)
      <3>1. CASE r.thread = t
        BY <1>4, <2>3, <3>1 DEF SendFinish
      <3>2. CASE r.thread # t
        BY <1>0, <2>3, <3>2 DEF Appended, Accepted
      <3> QED BY <3>1, <3>2
    <2> QED BY <1>4, <2>1, <2>2, <2>3 DEF SendFinish
  <1>5. ASSUME NEW r \in calls, AcceptFinish(r) PROVE Goal
    BY <1>0, <1>5 DEF AcceptFinish, Accepted, thread
  <1>6. ASSUME NEW u \in Threads, NEW s \in Sessions \cup {None}, NEW a \in Agents,
               NEW g \in Backing \cup {None}, OpenStart(u, a, s, g)
        PROVE  Goal
    BY <1>1, <1>6 DEF OpenStart, Begin, thread
  <1>18. ASSUME NEW u \in Threads, NEW s \in Sessions \cup {None}, NEW a \in Agents, SendStart(u, a, s)
         PROVE  Goal
    BY <1>1, <1>18 DEF SendStart, Begin, thread
  <1>19. ASSUME NEW u \in Threads, NEW s \in Sessions \cup {None}, AcceptStart(u, s) PROVE Goal
    BY <1>1, <1>19 DEF AcceptStart, Begin, thread
  <1>7. ASSUME NEW u \in Threads, NEW s \in Sessions \cup {None}, NEW a \in Agents, Close(u, a, s)
        PROVE  Goal
    BY <1>2, <1>7 DEF Close
  <1>8. ASSUME NEW u \in Threads, Age(u) PROVE Goal
    BY <1>1, <1>8 DEF Age
  <1>9. ASSUME NEW s \in Sessions, EndSession(s) PROVE Goal
    BY <1>2, <1>9 DEF EndSession
  <1>10. ASSUME NEW S \in SUBSET Sessions, Sweep(S) PROVE Goal
    BY <1>2, <1>10 DEF Sweep
  <1>11. ASSUME NEW a \in Agents, Contain(a) \/ Lift(a) \/ Disable(a) \/ Enable(a) PROVE Goal
    BY <1>1, <1>11 DEF Contain, Lift, Disable, Enable, thread
  <1>12. ASSUME NEW a \in Agents, CloseAllFor(a) PROVE Goal
    BY <1>2, <1>12 DEF CloseAllFor
  <1>13. ASSUME NEW g \in Backing, EndBacking(g) PROVE Goal
    BY <1>1, <1>13 DEF EndBacking, thread
  <1>14. ASSUME NEW d \in Delegated, NEW u \in Threads, NEW s \in Sessions \cup {None},
                Request(d, u, s)
         PROVE  Goal
    BY <1>1, <1>14 DEF Request, thread
  <1>15. ASSUME NEW d \in Delegated,
                \/ BeginGrant(d) \/ FinishGrant(d) \/ Reap(d)
                \/ Issue(d) \/ Issued(d) \/ EndDelegated(d) \/ RevokeDelegated(d)
         PROVE  Goal
    BY <1>1, <1>15 DEF BeginGrant, FinishGrant, Reap, Issue, Issued, EndDelegated, RevokeDelegated, thread
  <1>16. ASSUME Tick \/ Crash PROVE Goal
    BY <1>1, <1>16 DEF Tick, Crash, thread
  <1> HIDE DEF Goal
  <1>17. Goal
    BY <1>3, <1>4, <1>5, <1>6, <1>7, <1>8, <1>9, <1>10, <1>11, <1>12, <1>13, <1>14, <1>15, <1>16,
       <1>18, <1>19 DEF Next
  <1> QED BY <1>17 DEF Goal

\* A closed thread is never reopened and takes no further message.
THEOREM ClosedThreadsStay == Spec => ClosedForGood
  <1>1. IInv /\ [Next]_vars =>
          [\A t \in Threads : state[t] = "closed" => state'[t] = "closed" /\ seq'[t] = seq[t]]_vars
    <2> SUFFICES ASSUME IInv, Next, NEW t \in Threads, state[t] = "closed"
                 PROVE  state'[t] = "closed" /\ seq'[t] = seq[t]
      BY DEF vars
    <2>1. ASSUME NEW r \in calls, r.thread = t, r.kind = "open" PROVE FALSE
      BY <2>1 DEF IInv, CallsStayCleared, StaysCleared
    <2> QED BY <2>1, ThreadStep DEF Live
  <1> QED BY <1>1, Invariance, PTL DEF Spec, ClosedForGood

\* When a message is stored, the backing grant is active and both parties are
\* clear at that moment, not only when the call looked.
THEOREM MessagesAreCleared == Spec => MessagesCleared
  <1>1. IInv /\ [Next]_vars =>
          [\A t \in Threads : seq'[t] > seq[t] =>
              PairClear(Parties(t)') /\ backing'[t] \notin ended]_vars
    <2> SUFFICES ASSUME IInv, Next, NEW t \in Threads, seq'[t] > seq[t]
                 PROVE  PairClear(Parties(t)') /\ backing'[t] \notin ended
      BY DEF vars
    <2>0. ended \in SUBSET Backing /\ seq[t] \in Nat
      BY DEF IInv, TypeOK
    <2>1. ASSUME NEW r \in calls, r.thread = t, r.kind = "open", OpenFinish(r)
          PROVE  PairClear(Parties(t)') /\ backing'[t] \notin ended
      <3>1. PairClear({r.by, Responder[t]})
        BY <2>1 DEF IInv, CallsStayCleared, StaysCleared
      <3>2. ~UNCHANGED thread
        BY <2>0 DEF thread
      <3>3. GrantLive(r.grant, r.at) /\ opener'[t] = r.by /\ backing'[t] = r.grant
        BY <2>1, <3>2 DEF OpenFinish, IInv, TypeOK
      <3>4. Parties(t)' = {r.by, Responder[t]}
        BY <3>3 DEF Parties
      <3> QED BY <2>0, <3>1, <3>3, <3>4 DEF GrantLive
    <2>2. ASSUME NEW r \in calls, r.thread = t, r.kind = "send", SendFinish(r), GrantLive(r.grant, r.at)
          PROVE  PairClear(Parties(t)') /\ backing'[t] \notin ended
      <3>1. PairClear(Parties(t)) /\ r.grant = backing[t]
        BY <2>2 DEF IInv, CallsStayCleared, StaysCleared
      <3>2. UNCHANGED <<opener, backing>>
        BY <2>2 DEF SendFinish, Appended, CloseThreads, thread
      <3>3. Parties(t)' = Parties(t)
        BY <3>2 DEF Parties
      <3> QED BY <2>0, <2>2, <3>1, <3>2, <3>3 DEF GrantLive
    <2>3. seq'[t] # seq[t]
      BY <2>0
    <2> QED BY <2>1, <2>2, <2>3, ThreadStep
  <1> QED BY <1>1, Invariance, PTL DEF Spec, MessagesCleared
=============================================================================
