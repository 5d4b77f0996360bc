--------------------------- MODULE HostJobsProofs ---------------------------
(***************************************************************************)
(* Proofs about HostJobs, for every finite set of jobs and every bound on  *)
(* faults, lockdowns and messages in flight.                               *)
(***************************************************************************)
EXTENDS HostJobs, FiniteSetTheorems, TLAPS

(***************************************************************************)
(* Messages in a queue.                                                    *)
(***************************************************************************)

\* The last of a queue one longer, and the others.
LEMMA Appended ==
  ASSUME NEW S, NEW q \in Seq(S), NEW m, NEW u, u = Append(q, m)
  PROVE  /\ Len(q) \in Nat /\ DOMAIN q = 1 .. Len(q) /\ DOMAIN u = 1 .. (Len(q) + 1)
         /\ \A i \in 1 .. Len(q) : u[i] = q[i]
         /\ u[Len(q) + 1] = m
  OBVIOUS

\* The first of a queue, and the others.
LEMMA Taken ==
  ASSUME NEW S, NEW q \in Seq(S), q # <<>>, NEW u, u = Tail(q)
  PROVE  /\ Len(q) \in Nat \ {0} /\ DOMAIN q = 1 .. Len(q) /\ DOMAIN u = 1 .. (Len(q) - 1)
         /\ \A i \in 1 .. (Len(q) - 1) : u[i] = q[i + 1]
         /\ Head(q) = q[1] /\ 1 \in DOMAIN q
         /\ Head(q) \in S /\ u \in Seq(S)
  OBVIOUS

LEMMA QueueElements ==
  ASSUME NEW S, NEW q \in Seq(S)
  PROVE  \A i \in DOMAIN q : q[i] \in S
  OBVIOUS

LEMMA HasAppend ==
  ASSUME NEW S, NEW q \in Seq(S), NEW m, NEW u, u = Append(q, m), NEW K, NEW j
  PROVE  Has(u, K, j) <=> Has(q, K, j) \/ (m.kind \in K /\ m.job = j)
  <1> DEFINE n == Len(q)
  <1>1. /\ n \in Nat /\ DOMAIN q = 1 .. n /\ DOMAIN u = 1 .. (n + 1)
        /\ \A i \in 1 .. n : u[i] = q[i]
        /\ u[n + 1] = m
    BY Appended
  <1> HIDE DEF n
  <1>2. \A i \in 1 .. (n + 1) : i \in 1 .. n \/ i = n + 1
    BY <1>1
  <1>3. n + 1 \in 1 .. (n + 1) /\ \A i \in 1 .. n : i \in 1 .. (n + 1)
    BY <1>1
  <1> QED BY <1>1, <1>2, <1>3 DEF Has

LEMMA HasTail ==
  ASSUME NEW S, NEW q \in Seq(S), q # <<>>, NEW u, u = Tail(q), NEW K, NEW j
  PROVE  /\ Has(u, K, j) => Has(q, K, j)
         /\ Head(q).kind \in K /\ Head(q).job = j => Has(q, K, j)
         /\ Once(q, K) /\ Head(q).kind \in K /\ Head(q).job = j => ~Has(u, K, j)
         /\ Once(q, K) => Once(u, K)
  <1> DEFINE n == Len(q)
  <1>1. /\ n \in Nat \ {0} /\ DOMAIN q = 1 .. n /\ DOMAIN u = 1 .. (n - 1)
        /\ \A i \in 1 .. (n - 1) : u[i] = q[i + 1]
        /\ Head(q) = q[1] /\ 1 \in DOMAIN q
    BY Taken
  <1> HIDE DEF n
  <1>2. \A i \in 1 .. (n - 1) : i + 1 \in 1 .. n /\ i + 1 # 1
    BY <1>1
  <1>3. Has(u, K, j) => Has(q, K, j)
    BY <1>1, <1>2 DEF Has
  <1>4. Head(q).kind \in K /\ Head(q).job = j => Has(q, K, j)
    BY <1>1 DEF Has
  <1>5. Once(q, K) /\ Head(q).kind \in K /\ Head(q).job = j => ~Has(u, K, j)
    BY <1>1, <1>2 DEF Has, Once
  <1>6. Once(q, K) => Once(u, K)
    <2> SUFFICES ASSUME Once(q, K), NEW i \in 1 .. (n - 1), NEW k \in 1 .. (n - 1),
                        u[i].kind \in K /\ u[k].kind \in K /\ u[i].job = u[k].job
                 PROVE  i = k
      BY <1>1 DEF Once
    <2>1. i + 1 = k + 1
      BY <1>1, <1>2 DEF Once
    <2> QED BY <1>1, <2>1
  <1> QED BY <1>3, <1>4, <1>5, <1>6

LEMMA OnceAppend ==
  ASSUME NEW S, NEW q \in Seq(S), NEW m, NEW u, u = Append(q, m), NEW K,
         Once(q, K), m.kind \in K => ~Has(q, K, m.job)
  PROVE  Once(u, K)
  <1> DEFINE n == Len(q)
  <1>1. /\ n \in Nat /\ DOMAIN q = 1 .. n /\ DOMAIN u = 1 .. (n + 1)
        /\ \A i \in 1 .. n : u[i] = q[i]
        /\ u[n + 1] = m
    BY Appended
  <1> HIDE DEF n
  <1>2. \A i \in 1 .. (n + 1) : i \in 1 .. n \/ i = n + 1
    BY <1>1
  <1>3. m.kind \in K => \A i \in 1 .. n : ~(q[i].kind \in K /\ q[i].job = m.job)
    BY <1>1 DEF Has
  <1>4. \A i, k \in 1 .. n : q[i].kind \in K /\ q[k].kind \in K /\ q[i].job = q[k].job => i = k
    BY <1>1 DEF Once
  <1> QED BY <1>1, <1>2, <1>3, <1>4 DEF Once

\* A queue with the same kinds and jobs: only who waits for the answer changed.
SameLabels(q, u) ==
    DOMAIN u = DOMAIN q /\ \A i \in DOMAIN q : u[i].kind = q[i].kind /\ u[i].job = q[i].job

LEMMA HasRelabelled ==
  ASSUME NEW q, NEW u, SameLabels(q, u), NEW K
  PROVE  /\ \A j : Has(u, K, j) <=> Has(q, K, j)
         /\ Once(u, K) <=> Once(q, K)
  BY DEF SameLabels, Has, Once

LEMMA HasEmpty ==
  ASSUME NEW K
  PROVE  /\ \A j : ~Has(<<>>, K, j)
         /\ Once(<<>>, K) /\ StopsFit(<<>>) /\ \A j : ~StopAnswered(<<>>, j)
  BY DEF Has, Once, StopsFit, StopAnswered

LEMMA StaleClosesType ==
  /\ StaleCloses \in Seq([kind : {"close"}, job : Jobs, by : {"nobody"}])
  /\ StaleCloses \in Seq(ToHost)
  <1> DEFINE T == {j \in Jobs : kind[j] = "shell" /\ grant[j] = "ended"}
             R == [kind : {"close"}, job : Jobs, by : {"nobody"}]
  <1>1. IsFiniteSet(T)
    BY JobsAssumption, FS_Subset
  <1>2. Cardinality(T) \in Nat /\ ExistsBijection(1 .. Cardinality(T), T)
    BY <1>1, FS_CardinalityType
  <1> HIDE DEF T
  <1>3. \E f \in [1 .. Cardinality(T) -> T] : IsInjective(f)
    BY <1>2 DEF ExistsBijection, Bijection, Injection
  <1>4. SetToSeq(T) \in [1 .. Cardinality(T) -> T]
    BY <1>3 DEF SetToSeq
  <1> DEFINE g == SetToSeq(T)
             c == [i \in DOMAIN g |-> [kind |-> "close", job |-> g[i], by |-> "nobody"]]
  <1>5. StaleCloses = c
    BY DEF StaleCloses, T
  <1>6. DOMAIN g = 1 .. Cardinality(T) /\ \A i \in 1 .. Cardinality(T) : g[i] \in Jobs
    BY <1>4 DEF T
  <1> HIDE DEF g
  <1>7. c \in [1 .. Cardinality(T) -> R]
    BY <1>6
  <1> HIDE DEF c
  <1>8. \A f, S : \A n \in Nat : f \in [1 .. n -> S] => f \in Seq(S)
    OBVIOUS
  <1>9. R \subseteq ToHost
    BY DEF ToHost, Caller
  <1>10. c \in Seq(R)
    BY <1>2, <1>7, <1>8
  <1>11. c \in [1 .. Cardinality(T) -> ToHost]
    BY <1>7, <1>9
  <1>12. c \in Seq(ToHost)
    BY <1>2, <1>8, <1>11
  <1> QED BY <1>5, <1>10, <1>12

\* A function on a queue's places is a queue.
LEMMA QueueOf ==
  ASSUME NEW S, NEW q \in Seq(S), NEW u, u = [i \in DOMAIN q |-> u[i]],
         \A i \in DOMAIN q : u[i] \in S
  PROVE  u \in Seq(S)
  <1>1. Len(q) \in Nat /\ DOMAIN q = 1 .. Len(q)
    OBVIOUS
  <1>2. u \in [1 .. Len(q) -> S]
    BY <1>1
  <1> QED BY <1>1, <1>2

\* The fields of the messages of each kind.
LEMMA HostMessage ==
  ASSUME NEW m \in ToHost
  PROVE  /\ m.kind \in {"start", "open", "exec", "ack", "kill", "close", "lockdown"}
         /\ m.kind # "lockdown" => m.job \in Jobs
         /\ m.kind \in {"kill", "close"} => m.by \in Caller
                                            /\ m \in [kind : {"kill", "close"}, job : Jobs, by : Caller]
  BY DEF ToHost

LEMMA BrokerMessage ==
  ASSUME NEW m \in ToBroker
  PROVE  /\ m.kind \in {"started", "opened", "refused", "done", "lost", "stopped"}
         /\ m.job \in Jobs
         /\ m.kind = "stopped" => m.by \in Caller /\ m \in [kind : {"stopped"}, job : Jobs, by : Caller]
  BY DEF ToBroker, Reported

\* A message nobody waits for any more keeps its kind and its job.
LEMMA Forgotten ==
  ASSUME NEW K, NEW m \in [kind : K, job : Jobs, by : Caller], NEW v, v = [m EXCEPT !.by = "nobody"]
  PROVE  /\ v \in [kind : K, job : Jobs, by : Caller]
         /\ v.kind = m.kind /\ v.job = m.job /\ v.by = "nobody"
  BY DEF Caller

\* u is the queue q with some callers gone.
Relabelled(q, u) ==
    /\ SameLabels(q, u)
    /\ \A i \in DOMAIN q : u[i] = q[i] \/ u[i].by = "nobody"

LEMMA HostRelabelled ==
  ASSUME NEW q \in Seq(ToHost), NEW u, u = [i \in DOMAIN q |-> u[i]],
         \A i \in DOMAIN q : \/ u[i] = q[i]
                             \/ q[i].kind \in {"kill", "close"} /\ u[i] = [q[i] EXCEPT !.by = "nobody"]
  PROVE  u \in Seq(ToHost) /\ Relabelled(q, u)
  <1>1. \A i \in DOMAIN q : q[i] \in ToHost
    OBVIOUS
  <1>2. ASSUME NEW i \in DOMAIN q
        PROVE  /\ u[i] \in ToHost /\ u[i].kind = q[i].kind /\ u[i].job = q[i].job
               /\ u[i] = q[i] \/ u[i].by = "nobody"
    <2>1. CASE u[i] = q[i]
      BY <1>1, <2>1
    <2>2. CASE q[i].kind \in {"kill", "close"} /\ u[i] = [q[i] EXCEPT !.by = "nobody"]
      <3>1. q[i] \in [kind : {"kill", "close"}, job : Jobs, by : Caller]
        BY <1>1, <2>2, HostMessage
      <3>2. /\ u[i] \in [kind : {"kill", "close"}, job : Jobs, by : Caller]
            /\ u[i].kind = q[i].kind /\ u[i].job = q[i].job /\ u[i].by = "nobody"
        BY <2>2, <3>1, Forgotten
      <3> QED BY <3>2 DEF ToHost
    <2> QED BY <2>1, <2>2
  <1>3. DOMAIN u = DOMAIN q
    OBVIOUS
  <1>4. u \in Seq(ToHost)
    BY <1>2, QueueOf
  <1> QED BY <1>2, <1>3, <1>4 DEF Relabelled, SameLabels

LEMMA BrokerRelabelled ==
  ASSUME NEW q \in Seq(ToBroker), NEW u, u = [i \in DOMAIN q |-> u[i]],
         \A i \in DOMAIN q : \/ u[i] = q[i]
                             \/ q[i].kind = "stopped" /\ u[i] = [q[i] EXCEPT !.by = "nobody"]
  PROVE  u \in Seq(ToBroker) /\ Relabelled(q, u)
  <1>1. \A i \in DOMAIN q : q[i] \in ToBroker
    OBVIOUS
  <1>2. ASSUME NEW i \in DOMAIN q
        PROVE  /\ u[i] \in ToBroker /\ u[i].kind = q[i].kind /\ u[i].job = q[i].job
               /\ u[i] = q[i] \/ u[i].by = "nobody"
    <2>1. CASE u[i] = q[i]
      BY <1>1, <2>1
    <2>2. CASE q[i].kind = "stopped" /\ u[i] = [q[i] EXCEPT !.by = "nobody"]
      <3>1. q[i] \in [kind : {"stopped"}, job : Jobs, by : Caller]
        BY <1>1, <2>2, BrokerMessage
      <3>2. /\ u[i] \in [kind : {"stopped"}, job : Jobs, by : Caller]
            /\ u[i].kind = q[i].kind /\ u[i].job = q[i].job /\ u[i].by = "nobody"
        BY <2>2, <3>1, Forgotten
      <3> QED BY <3>2 DEF ToBroker
    <2> QED BY <2>1, <2>2
  <1>3. DOMAIN u = DOMAIN q
    OBVIOUS
  <1>4. u \in Seq(ToBroker)
    BY <1>2, QueueOf
  <1> QED BY <1>2, <1>3, <1>4 DEF Relabelled, SameLabels

\* A caller that hangs up changes nothing else in flight.
LEMMA HangupEffect ==
  ASSUME down \in Seq(ToHost), up \in Seq(ToBroker), NEW j, NEW who, Hangup(j, who)
  PROVE  /\ down' \in Seq(ToHost) /\ Relabelled(down, down')
         /\ up' \in Seq(ToBroker) /\ Relabelled(up, up')
  <1>1. \A i \in DOMAIN down : down[i] \in ToHost
    OBVIOUS
  <1>2. \A i \in DOMAIN up : up[i] \in ToBroker
    OBVIOUS
  <1>3. /\ down' = [i \in DOMAIN down |-> down'[i]]
        /\ \A i \in DOMAIN down : \/ down'[i] = down[i]
                                  \/ /\ down[i].kind \in {"kill", "close"}
                                     /\ down'[i] = [down[i] EXCEPT !.by = "nobody"]
    <2>1. \A i \in DOMAIN down : down[i].kind # "stopped"
      BY <1>1, HostMessage
    <2> QED BY <2>1 DEF Hangup, Unawaited
  <1>4. /\ up' = [i \in DOMAIN up |-> up'[i]]
        /\ \A i \in DOMAIN up : \/ up'[i] = up[i]
                                \/ up[i].kind = "stopped" /\ up'[i] = [up[i] EXCEPT !.by = "nobody"]
    <2>1. \A i \in DOMAIN up : up[i].kind \notin {"kill", "close"}
      BY <1>2, BrokerMessage
    <2> QED BY <2>1 DEF Hangup, Unawaited
  <1> HIDE DEF Hangup
  <1>5. down' \in Seq(ToHost) /\ Relabelled(down, down')
    BY <1>3, HostRelabelled
  <1>6. up' \in Seq(ToBroker) /\ Relabelled(up, up')
    BY <1>4, BrokerRelabelled
  <1> QED BY <1>5, <1>6

(***************************************************************************)
(* Types.                                                                  *)
(***************************************************************************)

Queues     == down \in Seq(ToHost) /\ up \in Seq(ToBroker)
BrokerType ==
    /\ grant \in [Jobs -> {"provisioning", "active", "failed", "ended"}]
    /\ kind \in [Jobs -> {"command", "shell"}]
    /\ start \in [Jobs -> Stage] /\ exec \in [Jobs -> Stage]
    /\ row \in [Jobs -> {"none", "starting", "running"} \cup Final]
    /\ killer \in [Jobs -> {"none", "idle", "calling"}]
    /\ stop \in SUBSET Jobs
    /\ waiting \in [Jobs -> SUBSET Reported]
SwitchType ==
    /\ blocked \in BOOLEAN /\ link \in BOOLEAN
    /\ tell \in {"none", "due", "dropped"} /\ hook \in {"none", "due", "failed"}
HostType   ==
    /\ proc \in [Jobs -> {"none", "orphan", "ended"} \cup InJobs]
    /\ open \in SUBSET Jobs /\ killed \in SUBSET Jobs
    /\ spool \in [Jobs -> {"none", "running"} \cup Reported]
    /\ locked \in BOOLEAN
    /\ locking \in SUBSET {"broker", "local"}
BoundType  == faults \in Nat /\ locks \in Nat

LEMMA TypeParts == TypeOK <=> Queues /\ BrokerType /\ SwitchType /\ HostType /\ BoundType
  BY DEF TypeOK, Queues, BrokerType, SwitchType, HostType, BoundType

\* What is sent to the host is a message to the host.
LEMMA Sendable ==
  /\ \A j \in Jobs : /\ [kind |-> "start", job |-> j] \in ToHost /\ [kind |-> "open", job |-> j] \in ToHost
                     /\ [kind |-> "exec", job |-> j] \in ToHost /\ Ack(j) \in ToHost
  /\ \A j \in Jobs, by \in Caller : /\ [kind |-> "kill", job |-> j, by |-> by] \in ToHost
                                    /\ [kind |-> "close", job |-> j, by |-> by] \in ToHost
  /\ [kind |-> "lockdown"] \in ToHost
  BY DEF ToHost, Ack

LEMMA Answerable ==
  /\ \A j \in Jobs, k \in {"started", "opened", "refused"} \cup Reported : [kind |-> k, job |-> j] \in ToBroker
  /\ \A j \in Jobs, by \in Caller : [kind |-> "stopped", job |-> j, by |-> by] \in ToBroker
  BY DEF ToBroker

LEMMA QueueMoves ==
  /\ \A S : \A q \in Seq(S), m \in S : Append(q, m) \in Seq(S)
  /\ \A S : \A q \in Seq(S) : q # <<>> => Tail(q) \in Seq(S) /\ Head(q) \in S
  /\ \A S : \A q, u \in Seq(S) : q \o u \in Seq(S)
  /\ \A S : <<>> \in Seq(S)
  OBVIOUS

LEMMA CrashRelabels ==
  ASSUME Queues, BrokerCrash
  PROVE  /\ up' = <<>> /\ down' \in Seq(ToHost)
         /\ down' = <<>> \/ Relabelled(down, down')
  <1> DEFINE u == [i \in DOMAIN down |-> IF down[i].kind \in {"kill", "close"}
                                         THEN [down[i] EXCEPT !.by = "nobody"] ELSE down[i]]
  <1>1. up' = <<>> /\ down' \in {<<>>, u}
    BY DEF BrokerCrash, Disconnected
  <1>2. u = [i \in DOMAIN down |-> u[i]]
    OBVIOUS
  <1>3. \A i \in DOMAIN down : \/ u[i] = down[i]
                               \/ /\ down[i].kind \in {"kill", "close"}
                                  /\ u[i] = [down[i] EXCEPT !.by = "nobody"]
    OBVIOUS
  <1>4. down \in Seq(ToHost)
    BY DEF Queues
  <1> HIDE DEF u
  <1>5. u \in Seq(ToHost) /\ Relabelled(down, u)
    BY <1>2, <1>3, <1>4, HostRelabelled
  <1> QED BY <1>1, <1>5, QueueMoves

\* A call torn off with its connection: of what was in flight and the call's own
\* message the host has all, or not the last, or nothing.
LEMMA TornEffect ==
  ASSUME Queues, NEW i \in Jobs, StartTorn(i) \/ ExecTorn(i)
  PROVE  \E m \in ToHost :
           /\ m.job = i
           /\ down' = <<>> \/ down' = down \/ down' = Append(down, m)
           /\ up' = <<>> /\ down' \in Seq(ToHost)
           /\ \/ StartTorn(i) /\ m.kind = (IF kind[i] = "shell" THEN "open" ELSE "start")
              \/ ExecTorn(i) /\ m.kind = "exec"
  <1>1. CASE StartTorn(i)
    <2>1. /\ StartMessage(i) \in ToHost /\ StartMessage(i).job = i
          /\ StartMessage(i).kind = (IF kind[i] = "shell" THEN "open" ELSE "start")
      BY Sendable DEF StartMessage
    <2>2. up' = <<>> /\ down' \in {<<>>, down, Append(down, StartMessage(i))}
      BY <1>1 DEF StartTorn, Disconnected
    <2> HIDE DEF StartMessage
    <2> QED BY <1>1, <2>1, <2>2, QueueMoves DEF Queues
  <1>2. CASE ExecTorn(i)
    <2> DEFINE m == [kind |-> "exec", job |-> i]
    <2>1. m \in ToHost /\ m.job = i /\ m.kind = "exec"
      BY Sendable
    <2>2. up' = <<>> /\ down' \in {<<>>, down, Append(down, m)}
      BY <1>2 DEF ExecTorn, Disconnected
    <2> HIDE DEF m
    <2> QED BY <1>2, <2>1, <2>2, QueueMoves DEF Queues
  <1> QED BY <1>1, <1>2

\* Every step keeps what is in flight well formed.
LEMMA QueuesPreserved == TypeOK /\ [Next]_vars => Queues'
  <1> SUFFICES ASSUME TypeOK, [Next]_vars PROVE Queues'
    OBVIOUS
  <1>0. Queues /\ down \in Seq(ToHost) /\ up \in Seq(ToBroker)
    BY TypeParts DEF Queues
  <1>1. {"task", "stop", "nobody"} \subseteq Caller
    BY DEF Caller
  <1>2. ASSUME NEW m \in ToHost, Send(m), UNCHANGED up PROVE Queues'
    BY <1>0, <1>2, QueueMoves DEF Send, Queues
  <1>3. ASSUME UNCHANGED <<down, up>> PROVE Queues'
    BY <1>0, <1>3 DEF Queues
  <1>4. ASSUME NEW j \in Jobs, StartCall(j) \/ ExecCall(j) \/ KillCall(j) \/ StopCall(j) PROVE Queues'
    BY <1>1, <1>2, <1>4, Sendable DEF StartCall, StartMessage, ExecCall, KillCall, StopCall
  <1>5. ASSUME NEW j \in Jobs,
               \/ StartOffline(j) \/ StartTimeout(j) \/ ExecNotSent(j) \/ ExecTimeout(j) \/ EndUnasked(j)
               \/ MarkLost(j) \/ CheckLock(j) \/ Execute(j) \/ Exit(j) \/ OrphanEnds(j) \/ Finish(j)
               \/ FinishUnspooled(j) \/ ShellExpires(j)
        PROVE  Queues'
    BY <1>3, <1>5 DEF StartOffline, StartTimeout, ExecNotSent, ExecTimeout, EndUnasked, MarkLost,
         CheckLock, Execute, Exit, OrphanEnds, Finish, FinishUnspooled, ShellExpires, Runs, channel
  <1>6. ASSUME NEW j \in Jobs, KillMissed(j) \/ StopTimeout(j) PROVE Queues'
    BY <1>0, <1>6, HangupEffect DEF KillMissed, StopTimeout, Queues
  <1>7. ASSUME NEW j \in Jobs, NEW outcome \in Reported,
               StoreWaiting(j, outcome) \/ GiveUpWaiting(j, outcome)
        PROVE  Queues'
    BY <1>0, <1>3, <1>7, Sendable, QueueMoves DEF StoreWaiting, GiveUpWaiting, channel, Queues
  <1>8. ASSUME NEW j \in Jobs, SendResult(j) PROVE Queues'
    BY <1>0, <1>8, Answerable, QueueMoves DEF SendResult, Queues
  <1>9. CASE Receive
    <2>1. up' \in Seq(ToBroker) /\ Head(up).job \in Jobs
      BY <1>0, <1>9, QueueMoves, BrokerMessage DEF Receive
    <2>2. down' = down \/ down' = Append(down, Ack(Head(up).job))
      BY <1>9 DEF Receive, OnResult, OnEarlyResult, OnAnswer, Late, broker
    <2> QED BY <1>0, <2>1, <2>2, Sendable, QueueMoves DEF Queues
  <1>10. ASSUME NEW m \in ToBroker, Reply(m) PROVE up' \in Seq(ToBroker)
    BY <1>0, <1>10, QueueMoves DEF Reply
  <1>11. CASE Handle
    <2> DEFINE m == Head(down)
    <2>1. down' \in Seq(ToHost) /\ m \in ToHost
      BY <1>0, <1>11, QueueMoves DEF Handle
    <2>2. /\ m.kind \in {"start", "open", "exec", "ack", "kill", "close", "lockdown"}
          /\ m.kind # "lockdown" => m.job \in Jobs
          /\ m.kind \in {"kill", "close"} => m.by \in Caller
      BY <2>1, HostMessage
    <2>3. CASE UNCHANGED up
      BY <1>0, <2>1, <2>3 DEF Queues
    <2>4. CASE \E a \in ToBroker : Reply(a)
      BY <1>10, <2>1, <2>4 DEF Queues
    <2>5. UNCHANGED up \/ \E a \in ToBroker : Reply(a)
      <3>1. CASE m.kind \in {"start", "exec"} /\ (Refuse(m.job) \/ LaunchJob(m.job))
        BY <2>2, <3>1, Answerable DEF Refuse, LaunchJob
      <3>2. CASE m.kind = "open" /\ (Refuse(m.job) \/ OpenShell(m.job))
        BY <2>2, <3>2, Answerable DEF Refuse, OpenShell
      <3>3. CASE m.kind = "close" /\ Reply([kind |-> "stopped", job |-> m.job, by |-> m.by])
        BY <2>2, <3>3, Answerable
      <3>4. CASE m.kind = "kill" /\ KillJob(m.job, m.by)
        BY <2>2, <3>4, Answerable DEF KillJob
      <3>5. CASE (m.kind = "ack" /\ AckJob(m.job)) \/ UNCHANGED up
        BY <3>5 DEF AckJob
      <3> QED BY <1>11, <3>1, <3>2, <3>3, <3>4, <3>5 DEF Handle
    <2> QED BY <2>3, <2>4, <2>5
  <1>12. CASE \/ BrokerLock \/ TellDropped \/ OnConnectFails \/ BrokerUnlock \/ LocalLock \/ Unlock
              \/ \E who \in {"broker", "local"} : LockSweep(who)
    BY <1>3, <1>12 DEF BrokerLock, TellDropped, OnConnectFails, BrokerUnlock, LocalLock, Unlock, LockSweep, channel
  <1>13. CASE BrokerTell
    BY <1>2, <1>3, <1>13, Sendable DEF BrokerTell
  <1>14. CASE OnConnect
    <2>1. (IF blocked THEN <<[kind |-> "lockdown"]>> ELSE <<>>) \in Seq(ToHost)
      BY Sendable, QueueMoves
    <2>2. StaleCloses \in Seq(ToHost)
      BY StaleClosesType
    <2> QED BY <1>0, <1>14, <2>1, <2>2, QueueMoves DEF OnConnect, Queues
  <1>15. CASE Cut \/ Reconnect \/ HostCrash
    BY <1>0, <1>15, QueueMoves DEF Cut, Disconnected, Reconnect, HostCrash, Queues
  <1>16. CASE BrokerCrash
    BY <1>0, <1>16, CrashRelabels, QueueMoves DEF Queues
  <1>17. CASE UNCHANGED vars
    BY <1>3, <1>17 DEF vars, channel
  <1>18. ASSUME NEW j \in Jobs, StartTorn(j) \/ ExecTorn(j) PROVE Queues'
    BY <1>0, <1>18, TornEffect, QueueMoves DEF Queues
  <1> QED
    BY <1>4, <1>5, <1>6, <1>7, <1>8, <1>9, <1>11, <1>12, <1>13, <1>14, <1>15, <1>16, <1>17, <1>18 DEF Next

\* Every step keeps the types of the two sides.
Sides == BrokerType /\ SwitchType /\ HostType /\ BoundType

LEMMA SidesPreserved == TypeOK /\ [Next]_vars => Sides'
  <1> SUFFICES ASSUME TypeOK, [Next]_vars PROVE Sides'
    OBVIOUS
  <1>0. Queues /\ BrokerType /\ SwitchType /\ HostType /\ BoundType
    BY TypeParts
  <1>b. ASSUME UNCHANGED broker PROVE BrokerType'
    BY <1>0, <1>b DEF BrokerType, broker
  <1>s. ASSUME UNCHANGED switch, UNCHANGED link PROVE SwitchType'
    BY <1>0, <1>s DEF SwitchType, switch
  <1>h. ASSUME UNCHANGED host PROVE HostType'
    BY <1>0, <1>h DEF HostType, host
  <1>n. ASSUME UNCHANGED bounds PROVE BoundType'
    BY <1>0, <1>n DEF BoundType, bounds
  <1>t. /\ grant \in [Jobs -> {"provisioning", "active", "failed", "ended"}]
        /\ kind \in [Jobs -> {"command", "shell"}]
        /\ start \in [Jobs -> Stage] /\ exec \in [Jobs -> Stage]
        /\ row \in [Jobs -> {"none", "starting", "running"} \cup Final]
        /\ killer \in [Jobs -> {"none", "idle", "calling"}]
        /\ stop \in SUBSET Jobs /\ waiting \in [Jobs -> SUBSET Reported]
        /\ {"new", "calling", "over", "torn", "dropped"} \subseteq Stage
    BY <1>0 DEF BrokerType, Stage
  <1>r. {"starting", "running", "refused", "done", "lost"} \subseteq {"none", "starting", "running"} \cup Final
    BY DEF Final
  <1>c. ASSUME NEW j \in Jobs, NEW stage \in {"over", "torn"}, NEW status \in {"starting", "running", "refused"},
               NEW g \in {"active", "failed"}, Conclude(j, stage, status, g)
        PROVE  /\ grant' \in [Jobs -> {"provisioning", "active", "failed", "ended"}]
               /\ kind' \in [Jobs -> {"command", "shell"}]
               /\ start' \in [Jobs -> Stage] /\ exec' \in [Jobs -> Stage]
               /\ row' \in [Jobs -> {"none", "starting", "running"} \cup Final]
    <2>1. UNCHANGED <<kind, exec>> /\ start' \in [Jobs -> Stage]
      BY <1>t, <1>c DEF Conclude, Set
    <2>2. row' = row \/ row' = Set(row, j, status)
      BY <1>c DEF Conclude
    <2>3. row' \in [Jobs -> {"none", "starting", "running"} \cup Final]
      BY <1>t, <1>r, <2>2 DEF Set
    <2>4. grant' \in [Jobs -> {"provisioning", "active", "failed", "ended"}]
      BY <1>t, <1>c DEF Conclude, Set
    <2> QED BY <1>t, <2>1, <2>3, <2>4
  <1>e. ASSUME NEW j \in Jobs, NEW stage \in {"over", "torn"}, NEW status \in {"starting", "running", "refused"},
               ExecOver(j, stage, status)
        PROVE  BrokerType'
    BY <1>t, <1>r, <1>e DEF ExecOver, Set, BrokerType
  <1>1. ASSUME NEW j \in Jobs,
               \/ StartCall(j) \/ StartOffline(j) \/ StartTimeout(j) \/ KillCall(j) \/ KillMissed(j)
               \/ ExecCall(j) \/ ExecNotSent(j) \/ ExecTimeout(j) \/ EndUnasked(j) \/ StopCall(j)
               \/ StopTimeout(j) \/ MarkLost(j)
        PROVE  Sides'
    <2>1. UNCHANGED <<switch, link, host, bounds>>
      BY <1>1 DEF StartCall, StartOffline, StartTimeout, KillCall, KillMissed, ExecCall, ExecNotSent,
           ExecTimeout, EndUnasked, StopCall, StopTimeout, MarkLost, channel
    <2>2. ASSUME StartCall(j) \/ ExecCall(j) PROVE BrokerType'
      BY <1>t, <2>2 DEF StartCall, ExecCall, Set, BrokerType
    <2>3. ASSUME StartOffline(j) \/ StartTimeout(j) PROVE BrokerType'
      <3>1. \E status \in {"starting", "refused"} : Conclude(j, "over", status, "failed")
        BY <2>3 DEF StartOffline, StartTimeout
      <3>2. stop' \in SUBSET Jobs /\ waiting' \in [Jobs -> SUBSET Reported]
        BY <1>t, <2>3 DEF StartOffline, StartTimeout
      <3>3. killer' \in [Jobs -> {"none", "idle", "calling"}]
        BY <1>t, <2>3 DEF StartOffline, StartTimeout, Set
      <3> QED BY <1>c, <3>1, <3>2, <3>3 DEF BrokerType
    <2>4. ASSUME KillCall(j) \/ KillMissed(j) \/ StopCall(j) \/ StopTimeout(j) PROVE BrokerType'
      BY <1>t, <2>4 DEF KillCall, KillMissed, StopCall, StopTimeout, Set, BrokerType
    <2>5. ASSUME ExecNotSent(j) \/ ExecTimeout(j) PROVE BrokerType'
      BY <1>e, <2>5 DEF ExecNotSent, ExecTimeout
    <2>6. ASSUME EndUnasked(j) PROVE BrokerType'
      BY <1>t, <2>6 DEF EndUnasked, Ended, Set, BrokerType
    <2>7. ASSUME MarkLost(j) PROVE BrokerType'
      BY <1>t, <2>7 DEF MarkLost, Set, BrokerType, Final
    <2>8. BrokerType'
      BY <1>1, <2>2, <2>3, <2>4, <2>5, <2>6, <2>7
    <2> QED BY <1>s, <1>h, <1>n, <2>1, <2>8 DEF Sides
  <1>2. ASSUME NEW j \in Jobs, NEW outcome \in Reported,
               StoreWaiting(j, outcome) \/ GiveUpWaiting(j, outcome)
        PROVE  Sides'
    <2>1. UNCHANGED <<switch, link, host, bounds>>
      BY <1>2 DEF StoreWaiting, GiveUpWaiting, channel
    <2>2. BrokerType'
      BY <1>0, <1>2 DEF StoreWaiting, GiveUpWaiting, Stored, Set, BrokerType, Reported, Final
    <2> QED BY <1>s, <1>h, <1>n, <2>1, <2>2 DEF Sides
  <1>3. ASSUME NEW j \in Jobs,
               \/ CheckLock(j) \/ Execute(j) \/ Exit(j) \/ OrphanEnds(j) \/ Finish(j) \/ FinishUnspooled(j)
               \/ SendResult(j) \/ ShellExpires(j)
        PROVE  Sides'
    <2>1. UNCHANGED <<broker, switch, link>>
      BY <1>3 DEF CheckLock, Execute, Exit, OrphanEnds, Finish, FinishUnspooled, SendResult, ShellExpires,
           Runs, channel
    <2>2. HostType'
      BY <1>0, <1>3 DEF CheckLock, Execute, Exit, OrphanEnds, Finish, FinishUnspooled, SendResult, ShellExpires,
           EndShell, Runs, Set, HostType, host, InJobs, Reported
    <2>3. BoundType'
      BY <1>0, <1>3 DEF CheckLock, Execute, Exit, OrphanEnds, Finish, FinishUnspooled, SendResult, ShellExpires,
           Runs, Fault, BoundType, bounds
    <2> QED BY <1>b, <1>s, <2>1, <2>2, <2>3 DEF Sides
  <1>4. CASE Receive
    <2> DEFINE m == Head(up)
    <2>1. m.job \in Jobs
      BY <1>0, <1>4, QueueMoves, BrokerMessage DEF Receive, Queues
    <2>2. UNCHANGED <<switch, link, host, bounds>>
      BY <1>4 DEF Receive
    <2>3. BrokerType'
      <3>1. CASE m.kind \in Reported /\ (OnResult(m.job, m.kind) \/ OnEarlyResult(m.job, m.kind))
        BY <1>0, <2>1, <3>1 DEF OnResult, OnEarlyResult, Stored, Set, BrokerType, Reported, Final
      <3>2. CASE OnAnswer(m)
        <4>1. CASE /\ UNCHANGED <<killer, stop, waiting>>
                   /\ Conclude(m.job, "over", "running", "active") \/ Conclude(m.job, "over", "refused", "failed")
          BY <1>c, <1>t, <2>1, <4>1 DEF BrokerType
        <4>2. CASE ExecOver(m.job, "over", "running") \/ ExecOver(m.job, "over", "refused")
          BY <1>e, <2>1, <4>2
        <4>3. CASE /\ UNCHANGED <<kind, grant, start, exec, row, stop, waiting>>
                   /\ killer' = Set(killer, m.job, "none")
          BY <1>t, <2>1, <4>3 DEF BrokerType, Set
        <4>4. CASE /\ UNCHANGED <<kind, start, exec, row, killer, waiting>>
                   /\ Ended(m.job) /\ stop' = stop \ {m.job}
          BY <1>t, <2>1, <4>4 DEF BrokerType, Ended, Set
        <4> QED BY <3>2, <4>1, <4>2, <4>3, <4>4 DEF OnAnswer
      <3>3. CASE UNCHANGED broker
        BY <1>b, <3>3
      <3> QED BY <1>4, <3>1, <3>2, <3>3 DEF Receive
    <2> QED BY <1>s, <1>h, <1>n, <2>2, <2>3 DEF Sides
  <1>5. CASE Handle
    <2> DEFINE m == Head(down)
    <2>1. m \in ToHost /\ (m.kind # "lockdown" => m.job \in Jobs)
      BY <1>0, <1>5, QueueMoves, HostMessage DEF Handle, Queues
    <2>2. UNCHANGED <<broker, switch, link, bounds>>
      BY <1>5 DEF Handle
    <2> HIDE DEF m
    <2>3. HostType'
      <3>1. ASSUME NEW j \in Jobs, Refuse(j) \/ LaunchJob(j) \/ OpenShell(j) PROVE HostType'
        BY <1>0, <1>h, <3>1 DEF Refuse, LaunchJob, OpenShell, Set, HostType, InJobs
      <3>2. ASSUME NEW j \in Jobs, NEW who, EndShell(j) \/ KillJob(j, who) \/ AckJob(j) PROVE HostType'
        BY <1>0, <3>2 DEF EndShell, KillJob, AckJob, Set, HostType
      <3>3. ASSUME locked' = TRUE, locking' = locking \cup {"broker"}, UNCHANGED <<proc, open, killed, spool>>
            PROVE  HostType'
        BY <1>0, <3>3 DEF HostType
      <3> QED BY <1>5, <2>1, <3>1, <3>2, <3>3 DEF Handle, m
    <2> QED BY <1>b, <1>s, <1>n, <2>2, <2>3 DEF Sides
  <1>6. CASE BrokerLock \/ BrokerTell \/ TellDropped \/ OnConnect \/ OnConnectFails \/ BrokerUnlock
    <2>1. UNCHANGED <<broker, host>>
      BY <1>6 DEF BrokerLock, BrokerTell, TellDropped, OnConnect, OnConnectFails, BrokerUnlock
    <2>2. BoundType'
      BY <1>0, <1>6 DEF BrokerLock, BrokerTell, TellDropped, OnConnect, OnConnectFails, BrokerUnlock,
           Fault, BoundType, bounds
    <2>3. SwitchType'
      BY <1>0, <1>6 DEF BrokerLock, BrokerTell, TellDropped, OnConnect, OnConnectFails, BrokerUnlock,
           SwitchType, channel
    <2> QED BY <1>b, <1>h, <2>1, <2>2, <2>3 DEF Sides
  <1>7. CASE LocalLock \/ Unlock \/ \E who \in {"broker", "local"} : LockSweep(who)
    <2>1. UNCHANGED <<broker, switch, link>>
      BY <1>7 DEF LocalLock, Unlock, LockSweep, channel
    <2>2. BoundType'
      BY <1>0, <1>7 DEF LocalLock, Unlock, LockSweep, BoundType, bounds
    <2>3. HostType'
      <3>1. CASE LocalLock \/ Unlock
        BY <1>0, <3>1 DEF LocalLock, Unlock, HostType
      <3>2. ASSUME NEW who \in {"broker", "local"}, LockSweep(who) PROVE HostType'
        BY <1>0, <3>2 DEF LockSweep, HostType
      <3> QED BY <1>7, <3>1, <3>2
    <2> QED BY <1>b, <1>s, <2>1, <2>2, <2>3 DEF Sides
  <1>8. CASE Cut \/ Reconnect
    <2>1. UNCHANGED <<broker, host>>
      BY <1>8 DEF Cut, Reconnect
    <2>2. BoundType'
      BY <1>0, <1>8 DEF Cut, Reconnect, Fault, BoundType, bounds
    <2>3. SwitchType'
      BY <1>0, <1>8 DEF Cut, Disconnected, Reconnect, SwitchType
    <2> QED BY <1>b, <1>h, <2>1, <2>2, <2>3 DEF Sides
  <1>9. CASE BrokerCrash
    <2>1. BrokerType'
      BY <1>t, <1>9 DEF BrokerCrash, BrokerType
    <2>2. SwitchType' /\ UNCHANGED host
      BY <1>0, <1>9 DEF BrokerCrash, Disconnected, SwitchType
    <2>3. BoundType'
      BY <1>0, <1>9 DEF BrokerCrash, BoundType, Fault
    <2> QED BY <1>h, <2>1, <2>2, <2>3 DEF Sides
  <1>10. CASE HostCrash
    <2>1. UNCHANGED broker /\ SwitchType'
      BY <1>0, <1>10 DEF HostCrash, Disconnected, SwitchType
    <2>2. HostType'
      BY <1>0, <1>10 DEF HostCrash, HostType
    <2>3. BoundType'
      BY <1>0, <1>10 DEF HostCrash, BoundType, Fault
    <2> QED BY <1>b, <2>1, <2>2, <2>3 DEF Sides
  <1>11. CASE UNCHANGED vars
    BY <1>b, <1>s, <1>h, <1>n, <1>11 DEF vars, channel, Sides
  <1>12. ASSUME NEW j \in Jobs, StartTorn(j) \/ ExecTorn(j) PROVE Sides'
    <2>1. UNCHANGED host /\ BoundType'
      BY <1>0, <1>12 DEF StartTorn, ExecTorn, Fault, BoundType
    <2>2. UNCHANGED <<blocked, tell>> /\ link' = FALSE /\ hook' = "none"
      BY <1>12 DEF StartTorn, ExecTorn, Disconnected
    <2>3. SwitchType'
      BY <1>0, <2>2 DEF SwitchType
    <2>4. ASSUME StartTorn(j) PROVE BrokerType'
      <3>1. Conclude(j, "torn", "refused", "failed") /\ UNCHANGED <<killer, stop, waiting>>
        BY <2>4 DEF StartTorn
      <3> QED BY <1>c, <1>t, <3>1 DEF BrokerType
    <2>5. ASSUME ExecTorn(j) PROVE BrokerType'
      BY <1>e, <2>5 DEF ExecTorn
    <2> QED BY <1>h, <1>12, <2>1, <2>3, <2>4, <2>5 DEF Sides
  <1> QED
    BY <1>1, <1>2, <1>3, <1>4, <1>5, <1>6, <1>7, <1>8, <1>9, <1>10, <1>11, <1>12 DEF Next

LEMMA TypePreserved == TypeOK /\ [Next]_vars => TypeOK'
  <1> SUFFICES ASSUME TypeOK, [Next]_vars PROVE TypeOK'
    OBVIOUS
  <1>1. Queues' /\ Sides'
    BY QueuesPreserved, SidesPreserved
  <1> QED BY <1>1 DEF TypeOK, Queues, Sides, BrokerType, SwitchType, HostType, BoundType

(***************************************************************************)
(* What the steps do to the queues, by kind and job.                       *)
(***************************************************************************)

LEMMA SendEffect ==
  ASSUME Queues, NEW m, Send(m)
  PROVE  \A K, j : Has(down', K, j) <=> Has(down, K, j) \/ (m.kind \in K /\ m.job = j)
  BY HasAppend DEF Send, Queues

LEMMA StopAppend ==
  ASSUME NEW q \in Seq(ToBroker), NEW m, NEW u, u = Append(q, m), NEW j,
         StopAnswered(u, j)
  PROVE  StopAnswered(q, j) \/ (m.kind = "stopped" /\ m.job = j /\ m.by = "stop")
  <1> DEFINE n == Len(q)
  <1>1. /\ n \in Nat /\ DOMAIN q = 1 .. n /\ DOMAIN u = 1 .. (n + 1)
        /\ \A i \in 1 .. n : u[i] = q[i]
        /\ u[n + 1] = m
    BY Appended
  <1> HIDE DEF n
  <1>2. \A i \in 1 .. (n + 1) : i \in 1 .. n \/ i = n + 1
    BY <1>1
  <1> QED BY <1>1, <1>2 DEF StopAnswered

LEMMA ReplyEffect ==
  ASSUME Queues, NEW m, Reply(m)
  PROVE  /\ \A K, j : Has(up', K, j) => Has(up, K, j) \/ (m.kind \in K /\ m.job = j)
         /\ \A j : StopAnswered(up', j) =>
                      StopAnswered(up, j) \/ (m.kind = "stopped" /\ m.job = j /\ m.by = "stop")
  <1>1. CASE up' = up
    BY <1>1
  <1>2. CASE up' = Append(up, m)
    BY <1>2, HasAppend, StopAppend DEF Queues
  <1> QED BY <1>1, <1>2 DEF Reply

\* The broker takes the first message.
LEMMA ReceiveEffect ==
  ASSUME Queues, up # <<>>, up' = Tail(up)
  PROVE  /\ \A K, j : Has(up', K, j) => Has(up, K, j)
         /\ \A j : StopAnswered(up', j) => StopAnswered(up, j)
         /\ \A K : Head(up).kind \in K => Has(up, K, Head(up).job)
         /\ Head(up).kind = "stopped" /\ Head(up).by = "stop" => StopAnswered(up, Head(up).job)
         /\ Head(up) \in ToBroker /\ Head(up).job \in Jobs
  <1>1. /\ Len(up) \in Nat \ {0} /\ DOMAIN up = 1 .. Len(up) /\ DOMAIN up' = 1 .. (Len(up) - 1)
        /\ \A i \in 1 .. (Len(up) - 1) : up'[i] = up[i + 1]
        /\ Head(up) = up[1] /\ 1 \in DOMAIN up /\ Head(up) \in ToBroker
    BY Taken DEF Queues
  <1>2. \A K, j : Has(up', K, j) => Has(up, K, j)
    BY HasTail DEF Queues
  <1>3. \A K : Head(up).kind \in K => Has(up, K, Head(up).job)
    BY HasTail DEF Queues
  <1>4. \A j : StopAnswered(up', j) => StopAnswered(up, j)
    <2>1. \A i \in 1 .. (Len(up) - 1) : i + 1 \in 1 .. Len(up)
      BY <1>1
    <2> QED BY <1>1, <2>1 DEF StopAnswered
  <1>5. Head(up).kind = "stopped" /\ Head(up).by = "stop" => StopAnswered(up, Head(up).job)
    BY <1>1 DEF StopAnswered
  <1>6. Head(up).job \in Jobs
    BY <1>1, BrokerMessage
  <1> QED BY <1>1, <1>2, <1>3, <1>4, <1>5, <1>6

\* hostd takes the first message.
LEMMA HandleEffect ==
  ASSUME Queues, down # <<>>, down' = Tail(down)
  PROVE  /\ \A K, j : Has(down', K, j) => Has(down, K, j)
         /\ \A K : Head(down).kind \in K => Has(down, K, Head(down).job)
         /\ \A K : Once(down, K) /\ Head(down).kind \in K => ~Has(down', K, Head(down).job)
         /\ \A K : Once(down, K) => Once(down', K)
         /\ StopsFit(down) => /\ StopsFit(down')
                              /\ Head(down).kind \in {"kill", "close"} /\ Head(down).by = "stop" =>
                                   /\ kind[Head(down).job] = (IF Head(down).kind = "kill" THEN "command" ELSE "shell")
                                   /\ start[Head(down).job] \in {"over", "dropped"}
         /\ Head(down) \in ToHost
  <1>1. /\ Len(down) \in Nat \ {0} /\ DOMAIN down = 1 .. Len(down) /\ DOMAIN down' = 1 .. (Len(down) - 1)
        /\ \A i \in 1 .. (Len(down) - 1) : down'[i] = down[i + 1]
        /\ Head(down) = down[1] /\ 1 \in DOMAIN down /\ Head(down) \in ToHost
    BY Taken DEF Queues
  <1>2. /\ \A K, j : Has(down', K, j) => Has(down, K, j)
        /\ \A K : Once(down, K) => Once(down', K)
    BY HasTail DEF Queues
  <1>3. /\ \A K : Head(down).kind \in K => Has(down, K, Head(down).job)
        /\ \A K : Once(down, K) /\ Head(down).kind \in K => ~Has(down', K, Head(down).job)
    BY HasTail DEF Queues
  <1>4. \A i \in 1 .. (Len(down) - 1) : i + 1 \in 1 .. Len(down)
    BY <1>1
  <1>5. StopsFit(down) => StopsFit(down')
    BY <1>1, <1>4 DEF StopsFit
  <1>6. StopsFit(down) /\ Head(down).kind \in {"kill", "close"} /\ Head(down).by = "stop" =>
          /\ kind[Head(down).job] = (IF Head(down).kind = "kill" THEN "command" ELSE "shell")
          /\ start[Head(down).job] \in {"over", "dropped"}
    BY <1>1 DEF StopsFit
  <1> QED BY <1>1, <1>2, <1>3, <1>5, <1>6

\* Callers that are gone: the same messages, fewer that a stop waits for.
LEMMA RelabelEffect ==
  ASSUME NEW q, NEW u, Relabelled(q, u)
  PROVE  /\ \A K, j : Has(u, K, j) <=> Has(q, K, j)
         /\ \A K : Once(u, K) <=> Once(q, K)
         /\ \A j : StopAnswered(u, j) => StopAnswered(q, j)
         /\ StopsFit(q) => StopsFit(u)
  <1>1. DOMAIN u = DOMAIN q /\ \A i \in DOMAIN q : /\ u[i].kind = q[i].kind /\ u[i].job = q[i].job
                                                   /\ u[i] = q[i] \/ u[i].by = "nobody"
    BY DEF Relabelled, SameLabels
  <1>2. SameLabels(q, u)
    BY DEF Relabelled
  <1>3. /\ \A K, j : Has(u, K, j) <=> Has(q, K, j)
        /\ \A K : Once(u, K) <=> Once(q, K)
    BY <1>2, HasRelabelled
  <1>4. \A j : StopAnswered(u, j) => StopAnswered(q, j)
    BY <1>1 DEF StopAnswered
  <1>5. StopsFit(q) => StopsFit(u)
    BY <1>1 DEF StopsFit
  <1> QED BY <1>3, <1>4, <1>5

\* A queue followed by messages that launch, open and acknowledge nothing and
\* that no stop waits for.
Harmless(p) ==
    \A i \in DOMAIN p : /\ p[i].kind \in {"lockdown", "close"}
                        /\ p[i].kind = "close" => p[i].by # "stop"

LEMMA HarmlessEffect ==
  ASSUME NEW q \in Seq(ToHost), NEW p \in Seq(ToHost), NEW u, u = q \o p, Harmless(p)
  PROVE  /\ \A K \in {Launches, {"open"}, {"ack"}} : /\ \A j : Has(u, K, j) <=> Has(q, K, j)
                                                     /\ Once(q, K) => Once(u, K)
         /\ StopsFit(q) => StopsFit(u)
  <1> DEFINE n == Len(q)
  <1>1. /\ n \in Nat /\ Len(p) \in Nat /\ DOMAIN q = 1 .. n /\ DOMAIN p = 1 .. Len(p)
        /\ DOMAIN u = 1 .. (n + Len(p))
        /\ \A i \in 1 .. n : u[i] = q[i]
        /\ \A i \in (n + 1) .. (n + Len(p)) : u[i] = p[i - n]
    OBVIOUS
  <1> HIDE DEF n
  <1>2. /\ \A i \in 1 .. (n + Len(p)) : i \in 1 .. n \/ (i \in (n + 1) .. (n + Len(p)) /\ i - n \in 1 .. Len(p))
        /\ \A i \in 1 .. n : i \in 1 .. (n + Len(p))
    BY <1>1
  <1>3. \A i \in DOMAIN u : \/ i \in DOMAIN q /\ u[i] = q[i]
                            \/ u[i].kind \in {"lockdown", "close"} /\ (u[i].kind = "close" => u[i].by # "stop")
    BY <1>1, <1>2 DEF Harmless
  <1>4. \A i \in DOMAIN q : i \in DOMAIN u /\ u[i] = q[i]
    BY <1>1, <1>2
  <1>5. ASSUME NEW K \in {Launches, {"open"}, {"ack"}}
        PROVE  /\ \A j : Has(u, K, j) <=> Has(q, K, j)
               /\ Once(q, K) => Once(u, K)
    <2>1. "lockdown" \notin K /\ "close" \notin K
      BY DEF Launches
    <2>2. \A i \in DOMAIN u : u[i].kind \in K => i \in DOMAIN q /\ u[i] = q[i]
      BY <1>3, <2>1
    <2>3. \A j : Has(u, K, j) <=> Has(q, K, j)
      BY <1>4, <2>2 DEF Has
    <2>4. Once(q, K) => Once(u, K)
      BY <2>2 DEF Once
    <2> QED BY <2>3, <2>4
  <1>6. StopsFit(q) => StopsFit(u)
    BY <1>3, <1>4 DEF StopsFit
  <1> QED BY <1>5, <1>6

\* What on_connect sends: the lockdown, and closes nobody waits for.
LEMMA OnConnectEffect ==
  ASSUME Queues, OnConnect
  PROVE  /\ \A K \in {Launches, {"open"}, {"ack"}} : /\ \A j : Has(down', K, j) <=> Has(down, K, j)
                                                     /\ Once(down, K) => Once(down', K)
         /\ StopsFit(down) => StopsFit(down')
  <1> DEFINE l == IF blocked THEN <<[kind |-> "lockdown"]>> ELSE <<>>
             c == StaleCloses
  <1>1. down \in Seq(ToHost) /\ l \in Seq(ToHost) /\ c \in Seq(ToHost)
    BY StaleClosesType, Sendable, QueueMoves DEF Queues
  <1>2. \A i \in DOMAIN l : l[i].kind = "lockdown"
    OBVIOUS
  <1>3. \A i \in DOMAIN c : c[i].kind = "close" /\ c[i].by = "nobody"
    <2>1. c \in Seq([kind : {"close"}, job : Jobs, by : {"nobody"}])
      BY StaleClosesType
    <2> HIDE DEF c
    <2>2. \A i \in DOMAIN c : c[i] \in [kind : {"close"}, job : Jobs, by : {"nobody"}]
      BY <2>1, QueueElements
    <2> QED BY <2>2
  <1>4. down' = down \o l \o c
    BY DEF OnConnect
  <1> HIDE DEF l, c
  <1> DEFINE d == down \o l
  <1>5. d \in Seq(ToHost)
    BY <1>1, QueueMoves
  <1>6. /\ \A K \in {Launches, {"open"}, {"ack"}} : /\ \A j : Has(d, K, j) <=> Has(down, K, j)
                                                    /\ Once(down, K) => Once(d, K)
        /\ StopsFit(down) => StopsFit(d)
    <2>1. Harmless(l)
      BY <1>2 DEF Harmless
    <2> QED BY <1>1, <2>1, HarmlessEffect
  <1>7. down' = d \o c
    BY <1>4
  <1> HIDE DEF d
  <1>8. /\ \A K \in {Launches, {"open"}, {"ack"}} : /\ \A j : Has(down', K, j) <=> Has(d, K, j)
                                                    /\ Once(d, K) => Once(down', K)
        /\ StopsFit(d) => StopsFit(down')
    <2>1. Harmless(c)
      BY <1>3 DEF Harmless
    <2>2. \A q, p \in Seq(ToHost) : Harmless(p) =>
            \A u : u = q \o p =>
               /\ \A K \in {Launches, {"open"}, {"ack"}} : /\ \A j : Has(u, K, j) <=> Has(q, K, j)
                                                           /\ Once(q, K) => Once(u, K)
               /\ StopsFit(q) => StopsFit(u)
      BY HarmlessEffect
    <2>3. \A u : u = d \o c =>
               /\ \A K \in {Launches, {"open"}, {"ack"}} : /\ \A j : Has(u, K, j) <=> Has(d, K, j)
                                                           /\ Once(d, K) => Once(u, K)
               /\ StopsFit(d) => StopsFit(u)
      BY <1>1, <1>5, <2>1, <2>2
    <2> QED BY <1>7, <2>3
  <1> QED BY <1>6, <1>8

(***************************************************************************)
(* The kill switch at the host.                                            *)
(***************************************************************************)

\* Every step keeps a host that has finished its lockdown free of jobs that
\* were not told to stop.
LEMMA LockPreserved == TypeOK /\ NothingRunsLocked /\ [Next]_vars => NothingRunsLocked'
  <1> SUFFICES ASSUME TypeOK, NothingRunsLocked, [Next]_vars PROVE NothingRunsLocked'
    OBVIOUS
  <1>0. /\ proc \in [Jobs -> {"none", "orphan", "ended"} \cup InJobs]
        /\ locking \in SUBSET {"broker", "local"} /\ Queues
    BY TypeParts DEF HostType
  <1>1. ASSUME UNCHANGED <<proc, locked, locking>>, killed \subseteq killed' PROVE NothingRunsLocked'
    BY <1>1 DEF NothingRunsLocked
  <1>2. ASSUME UNCHANGED host PROVE NothingRunsLocked'
    BY <1>1, <1>2 DEF host
  <1>3. ASSUME NEW j \in Jobs,
               \/ StartCall(j) \/ StartOffline(j) \/ StartTimeout(j) \/ KillCall(j) \/ KillMissed(j)
               \/ ExecCall(j) \/ ExecNotSent(j) \/ ExecTimeout(j) \/ EndUnasked(j) \/ StopCall(j)
               \/ StopTimeout(j) \/ MarkLost(j) \/ SendResult(j) \/ StartTorn(j) \/ ExecTorn(j)
        PROVE  NothingRunsLocked'
    BY <1>2, <1>3 DEF StartCall, StartOffline, StartTimeout, KillCall, KillMissed, ExecCall, ExecNotSent,
         ExecTimeout, EndUnasked, StopCall, StopTimeout, MarkLost, SendResult, StartTorn, ExecTorn
  <1>4. ASSUME NEW j \in Jobs, NEW outcome \in Reported,
               StoreWaiting(j, outcome) \/ GiveUpWaiting(j, outcome)
        PROVE  NothingRunsLocked'
    BY <1>2, <1>4 DEF StoreWaiting, GiveUpWaiting
  <1>5. ASSUME NEW j \in Jobs, CheckLock(j) \/ Execute(j) \/ Exit(j) \/ OrphanEnds(j)
        PROVE  NothingRunsLocked'
    BY <1>0, <1>5 DEF CheckLock, Execute, Exit, OrphanEnds, Runs, Set, NothingRunsLocked
  <1>6. ASSUME NEW j \in Jobs, Finish(j) \/ FinishUnspooled(j) PROVE NothingRunsLocked'
    BY <1>0, <1>6 DEF Finish, FinishUnspooled, Set, NothingRunsLocked
  <1>7. ASSUME NEW j, EndShell(j) PROVE NothingRunsLocked'
    BY <1>1, <1>7 DEF EndShell
  <1>8. ASSUME NEW j \in Jobs, ShellExpires(j) PROVE NothingRunsLocked'
    BY <1>7, <1>8 DEF ShellExpires
  <1>9. CASE \/ Receive \/ BrokerLock \/ BrokerTell \/ TellDropped \/ OnConnect \/ OnConnectFails \/ BrokerUnlock
             \/ Cut \/ Reconnect \/ BrokerCrash
    BY <1>2, <1>9 DEF Receive, BrokerLock, BrokerTell, TellDropped, OnConnect, OnConnectFails, BrokerUnlock,
         Cut, Reconnect, BrokerCrash
  <1>10. CASE Handle
    <2> DEFINE m == Head(down)
    <2>1. m \in ToHost /\ (m.kind # "lockdown" => m.job \in Jobs)
      BY <1>0, <1>10, QueueMoves, HostMessage DEF Handle, Queues
    <2> HIDE DEF m
    <2>2. ASSUME NEW j, Refuse(j) \/ OpenShell(j) \/ AckJob(j) PROVE NothingRunsLocked'
      BY <1>1, <1>2, <2>2 DEF Refuse, OpenShell, AckJob
    <2>3. ASSUME NEW j \in Jobs, LaunchJob(j) PROVE NothingRunsLocked'
      BY <2>3 DEF LaunchJob, NothingRunsLocked
    <2>4. ASSUME NEW j \in Jobs, NEW who, KillJob(j, who) PROVE NothingRunsLocked'
      BY <1>0, <2>4 DEF KillJob, Set, NothingRunsLocked
    <2>5. ASSUME locking' = locking \cup {"broker"} PROVE NothingRunsLocked'
      BY <2>5 DEF NothingRunsLocked
    <2> QED BY <1>7, <1>10, <2>1, <2>2, <2>3, <2>4, <2>5 DEF Handle, m
  <1>11. CASE LocalLock \/ Unlock
    BY <1>11 DEF LocalLock, Unlock, NothingRunsLocked
  <1>12. ASSUME NEW who \in {"broker", "local"}, LockSweep(who) PROVE NothingRunsLocked'
    BY <1>0, <1>12 DEF LockSweep, NothingRunsLocked, InJobs
  <1>13. CASE HostCrash
    <2>1. locked' => \A j \in Jobs : proc'[j] \in {"none", "ended"}
      BY <1>0, <1>13 DEF HostCrash, LeftBy, InJobs
    <2> QED BY <2>1 DEF NothingRunsLocked
  <1>14. CASE UNCHANGED vars
    BY <1>2, <1>14 DEF vars
  <1> QED
    BY <1>3, <1>4, <1>5, <1>6, <1>8, <1>9, <1>10, <1>11, <1>12, <1>13, <1>14 DEF Next

(***************************************************************************)
(* Calls are made once.                                                    *)
(***************************************************************************)

\* No step changes what kind of grant it is.
LEMMA KindStays == [Next]_vars => kind' = kind
  <1> SUFFICES ASSUME [Next]_vars PROVE kind' = kind
    OBVIOUS
  <1>1. ASSUME NEW j \in Jobs,
               \/ StartCall(j) \/ StartOffline(j) \/ StartTimeout(j) \/ KillCall(j) \/ KillMissed(j)
               \/ ExecCall(j) \/ ExecNotSent(j) \/ ExecTimeout(j) \/ EndUnasked(j) \/ StopCall(j)
               \/ StopTimeout(j) \/ MarkLost(j) \/ StartTorn(j) \/ ExecTorn(j)
        PROVE  kind' = kind
    BY <1>1 DEF StartCall, StartOffline, StartTimeout, KillCall, KillMissed, ExecCall, ExecNotSent,
         ExecTimeout, EndUnasked, StopCall, StopTimeout, MarkLost, StartTorn, ExecTorn, Conclude, ExecOver
  <1>2. ASSUME NEW j \in Jobs, NEW outcome \in Reported,
               StoreWaiting(j, outcome) \/ GiveUpWaiting(j, outcome)
        PROVE  kind' = kind
    BY <1>2 DEF StoreWaiting, GiveUpWaiting
  <1>3. ASSUME UNCHANGED broker PROVE kind' = kind
    BY <1>3 DEF broker
  <1>4. ASSUME NEW j \in Jobs,
               \/ CheckLock(j) \/ Execute(j) \/ Exit(j) \/ OrphanEnds(j) \/ Finish(j) \/ FinishUnspooled(j)
               \/ SendResult(j) \/ ShellExpires(j)
        PROVE  kind' = kind
    BY <1>3, <1>4 DEF CheckLock, Execute, Exit, OrphanEnds, Finish, FinishUnspooled, SendResult, ShellExpires, Runs
  <1>5. CASE Receive
    BY <1>5 DEF Receive, OnResult, OnEarlyResult, OnAnswer, Conclude, ExecOver, broker
  <1>6. CASE \/ Handle \/ BrokerLock \/ BrokerTell \/ TellDropped \/ OnConnect \/ OnConnectFails \/ BrokerUnlock
             \/ LocalLock \/ Unlock \/ (\E who \in {"broker", "local"} : LockSweep(who)) \/ Cut \/ Reconnect \/ HostCrash
    BY <1>3, <1>6 DEF Handle, BrokerLock, BrokerTell, TellDropped, OnConnect, OnConnectFails, BrokerUnlock, LocalLock,
         Unlock, LockSweep, Cut, Reconnect, HostCrash
  <1>7. CASE BrokerCrash
    BY <1>7 DEF BrokerCrash
  <1>8. CASE UNCHANGED vars
    BY <1>3, <1>8 DEF vars
  <1> QED BY <1>1, <1>2, <1>4, <1>5, <1>6, <1>7, <1>8 DEF Next

\* A start that is over, or was dropped, is not made again.
LEMMA StartStays ==
  TypeOK /\ [Next]_vars => \A j \in Jobs : start[j] \in {"over", "dropped"} => start'[j] \in {"over", "dropped"}
  <1> SUFFICES ASSUME TypeOK, [Next]_vars, NEW j \in Jobs, start[j] \in {"over", "dropped"}
               PROVE  start'[j] \in {"over", "dropped"}
    OBVIOUS
  <1>0. DOMAIN start = Jobs
    BY DEF TypeOK
  <1>1. ASSUME UNCHANGED start PROVE start'[j] \in {"over", "dropped"}
    BY <1>1
  <1>2. ASSUME UNCHANGED broker PROVE start'[j] \in {"over", "dropped"}
    BY <1>2 DEF broker
  <1>3. ASSUME NEW i, start' = Set(start, i, "over") PROVE start'[j] \in {"over", "dropped"}
    BY <1>0, <1>3 DEF Set
  <1>4. ASSUME NEW i \in Jobs, StartCall(i) \/ StartTorn(i) PROVE start'[j] \in {"over", "dropped"}
    BY <1>0, <1>4 DEF StartCall, StartTorn, Conclude, Set
  <1>5. ASSUME NEW i \in Jobs, StartOffline(i) \/ StartTimeout(i) PROVE start'[j] \in {"over", "dropped"}
    BY <1>3, <1>5 DEF StartOffline, StartTimeout, Conclude
  <1>6. ASSUME NEW i \in Jobs,
               \/ KillCall(i) \/ KillMissed(i) \/ ExecCall(i) \/ ExecNotSent(i) \/ ExecTimeout(i) \/ EndUnasked(i)
               \/ StopCall(i) \/ StopTimeout(i) \/ MarkLost(i) \/ ExecTorn(i)
        PROVE  start'[j] \in {"over", "dropped"}
    BY <1>1, <1>6 DEF KillCall, KillMissed, ExecCall, ExecNotSent, ExecTimeout, EndUnasked, StopCall, StopTimeout,
         MarkLost, ExecTorn, ExecOver
  <1>7. ASSUME NEW i \in Jobs, NEW outcome \in Reported,
               StoreWaiting(i, outcome) \/ GiveUpWaiting(i, outcome)
        PROVE  start'[j] \in {"over", "dropped"}
    BY <1>1, <1>7 DEF StoreWaiting, GiveUpWaiting
  <1>8. ASSUME NEW i \in Jobs,
               \/ CheckLock(i) \/ Execute(i) \/ Exit(i) \/ OrphanEnds(i) \/ Finish(i) \/ FinishUnspooled(i)
               \/ SendResult(i) \/ ShellExpires(i)
        PROVE  start'[j] \in {"over", "dropped"}
    BY <1>2, <1>8 DEF CheckLock, Execute, Exit, OrphanEnds, Finish, FinishUnspooled, SendResult, ShellExpires, Runs
  <1>9. CASE Receive
    <2>1. UNCHANGED start \/ UNCHANGED broker \/ \E i : start' = Set(start, i, "over")
      BY <1>9 DEF Receive, OnResult, OnEarlyResult, OnAnswer, Conclude, ExecOver
    <2> QED BY <1>1, <1>2, <1>3, <2>1
  <1>10. CASE \/ Handle \/ BrokerLock \/ BrokerTell \/ TellDropped \/ OnConnect \/ OnConnectFails \/ BrokerUnlock
              \/ LocalLock \/ Unlock \/ (\E who \in {"broker", "local"} : LockSweep(who)) \/ Cut \/ Reconnect \/ HostCrash
    BY <1>2, <1>10 DEF Handle, BrokerLock, BrokerTell, TellDropped, OnConnect, OnConnectFails, BrokerUnlock, LocalLock,
         Unlock, LockSweep, Cut, Reconnect, HostCrash
  <1>11. CASE BrokerCrash
    BY <1>11 DEF BrokerCrash
  <1>12. CASE UNCHANGED vars
    BY <1>2, <1>12 DEF vars
  <1> QED BY <1>4, <1>5, <1>6, <1>7, <1>8, <1>9, <1>10, <1>11, <1>12 DEF Next

Singles(q) == Once(q, Launches) /\ Once(q, {"open"}) /\ StopsFit(q)

\* One more message: a launch or opening that was not in flight, or a kill or
\* close that fits its grant.
LEMMA SinglesAppend ==
  ASSUME NEW q \in Seq(ToHost), Singles(q), NEW m, NEW u, u = Append(q, m),
         m.kind \in Launches => ~Has(q, Launches, m.job),
         m.kind = "open" => ~Has(q, {"open"}, m.job),
         m.kind \in {"kill", "close"} /\ m.by = "stop" =>
             /\ kind[m.job] = (IF m.kind = "kill" THEN "command" ELSE "shell")
             /\ start[m.job] \in {"over", "dropped"}
  PROVE  Singles(u)
  <1>1. Once(u, Launches) /\ Once(u, {"open"})
    BY OnceAppend DEF Singles
  <1>2. StopsFit(u)
    <2> DEFINE n == Len(q)
    <2>1. /\ n \in Nat /\ DOMAIN q = 1 .. n /\ DOMAIN u = 1 .. (n + 1)
          /\ \A i \in 1 .. n : u[i] = q[i]
          /\ u[n + 1] = m
      BY Appended
    <2> HIDE DEF n
    <2>2. \A i \in 1 .. (n + 1) : i \in 1 .. n \/ i = n + 1
      BY <2>1
    <2> QED BY <2>1, <2>2 DEF Singles, StopsFit
  <1> QED BY <1>1, <1>2 DEF Singles

\* Every step keeps at most one launch and one opening of a job in flight.
LEMMA SinglesPreserved == IInv /\ [Next]_vars => Singles(down)'
  <1> SUFFICES ASSUME IInv, [Next]_vars PROVE Singles(down')
    <2>1. ASSUME IInv, [Next]_vars, Singles(down') PROVE Singles(down)'
      <3>1. \A i \in DOMAIN down' : down'[i].kind \in {"kill", "close"} => down'[i].job \in Jobs
        <4>1. down' \in Seq(ToHost)
          BY <2>1, QueuesPreserved DEF IInv, Queues
        <4> QED BY <4>1, QueueElements, HostMessage
      <3>2. kind' = kind /\ \A j \in Jobs : start[j] \in {"over", "dropped"} => start'[j] \in {"over", "dropped"}
        BY <2>1, KindStays, StartStays DEF IInv
      <3>3. Once(down', Launches) /\ Once(down', {"open"}) /\ StopsFit(down)'
        BY <2>1, <3>1, <3>2 DEF Singles, StopsFit
      <3> QED BY <3>3 DEF Singles
    <2> QED BY <2>1
  <1>0. Queues /\ down \in Seq(ToHost) /\ up \in Seq(ToBroker) /\ Singles(down)
    BY TypeParts DEF IInv, Singles, Queues
  <1>1. \A j \in Jobs : JobInv(j)
    BY DEF IInv
  <1>2. ASSUME UNCHANGED down PROVE Singles(down')
    BY <1>0, <1>2
  <1>3. ASSUME down' = <<>> PROVE Singles(down')
    BY <1>3, HasEmpty DEF Singles
  <1>4. ASSUME Relabelled(down, down') PROVE Singles(down')
    BY <1>0, <1>4, RelabelEffect DEF Singles
  <1>5. ASSUME NEW j \in Jobs, StartCall(j) PROVE Singles(down')
    <2>1. start[j] = "new" /\ ~Has(down, {"open"}, j)
      BY <1>1, <1>5 DEF StartCall, JobInv, LaunchedOnce
    <2>2. kind[j] # "shell" => ~Has(down, Launches, j)
      <3>1. kind[j] # "shell" => Call(j) = "new"
        BY <1>0, <2>1 DEF Call, IInv, TypeOK
      <3> QED BY <1>1, <3>1 DEF JobInv, LaunchedOnce, Untouched
    <2> DEFINE m == StartMessage(j)
    <2>3. m.job = j /\ m.kind = (IF kind[j] = "shell" THEN "open" ELSE "start") /\ down' = Append(down, m)
      BY <1>5 DEF StartCall, StartMessage, Send
    <2> HIDE DEF m
    <2> QED BY <1>0, <2>1, <2>2, <2>3, SinglesAppend DEF Launches
  <1>6. ASSUME NEW j \in Jobs, ExecCall(j) PROVE Singles(down')
    <2>1. kind[j] = "shell" /\ exec[j] = "new"
      BY <1>6 DEF ExecCall, ExecAllowed
    <2>2. ~Has(down, Launches, j)
      BY <1>1, <2>1 DEF Call, JobInv, LaunchedOnce, Untouched
    <2> DEFINE m == [kind |-> "exec", job |-> j]
    <2>3. m.job = j /\ m.kind = "exec" /\ down' = Append(down, m)
      BY <1>6 DEF ExecCall, Send
    <2> HIDE DEF m
    <2> QED BY <1>0, <2>2, <2>3, SinglesAppend
  <1>7. ASSUME NEW j \in Jobs, KillCall(j) PROVE Singles(down')
    <2> DEFINE m == [kind |-> "kill", job |-> j, by |-> "task"]
    <2>1. m.kind = "kill" /\ m.by = "task" /\ down' = Append(down, m)
      BY <1>7 DEF KillCall, Send
    <2> HIDE DEF m
    <2> QED BY <1>0, <2>1, SinglesAppend DEF Launches
  <1>8. ASSUME NEW j \in Jobs, StopCall(j) PROVE Singles(down')
    <2> DEFINE m == [kind |-> IF kind[j] = "shell" THEN "close" ELSE "kill", job |-> j, by |-> "stop"]
    <2>1. m.kind = (IF kind[j] = "shell" THEN "close" ELSE "kill") /\ m.job = j /\ down' = Append(down, m)
      BY <1>8 DEF StopCall, Send
    <2>2. kind[j] \in {"command", "shell"}
      BY DEF IInv, TypeOK
    <2>3. start[j] \in {"over", "dropped"}
      BY <1>1, <1>8 DEF StopCall, Endable, JobInv, CallMatchesRow
    <2> HIDE DEF m
    <2> QED BY <1>0, <2>1, <2>2, <2>3, SinglesAppend DEF Launches
  <1>9. ASSUME NEW j, down' = Append(down, Ack(j)) PROVE Singles(down')
    <2>1. Ack(j).kind = "ack"
      BY DEF Ack
    <2> QED BY <1>0, <1>9, <2>1, SinglesAppend DEF Launches
  <1>10. ASSUME NEW j \in Jobs, NEW outcome \in Reported,
                StoreWaiting(j, outcome) \/ GiveUpWaiting(j, outcome)
         PROVE  Singles(down')
    BY <1>2, <1>9, <1>10 DEF StoreWaiting, GiveUpWaiting, channel
  <1>11. ASSUME NEW j \in Jobs,
                \/ StartOffline(j) \/ StartTimeout(j) \/ ExecNotSent(j) \/ ExecTimeout(j) \/ EndUnasked(j)
                \/ MarkLost(j) \/ CheckLock(j) \/ Execute(j) \/ Exit(j) \/ OrphanEnds(j) \/ Finish(j)
                \/ FinishUnspooled(j) \/ ShellExpires(j) \/ SendResult(j)
         PROVE  Singles(down')
    BY <1>2, <1>11 DEF StartOffline, StartTimeout, ExecNotSent, ExecTimeout, EndUnasked, MarkLost,
         CheckLock, Execute, Exit, OrphanEnds, Finish, FinishUnspooled, ShellExpires, SendResult, Runs, channel
  <1>12. ASSUME NEW j \in Jobs, KillMissed(j) \/ StopTimeout(j) PROVE Singles(down')
    BY <1>0, <1>4, <1>12, HangupEffect DEF KillMissed, StopTimeout
  <1>13. CASE Receive
    <2>1. down' = down \/ down' = Append(down, Ack(Head(up).job))
      BY <1>13 DEF Receive, OnResult, OnEarlyResult, OnAnswer, Late, broker
    <2> QED BY <1>2, <1>9, <2>1
  <1>14. CASE Handle
    <2>1. down # <<>> /\ down' = Tail(down)
      BY <1>14 DEF Handle
    <2> QED BY <1>0, <2>1, HandleEffect DEF Singles
  <1>15. CASE \/ BrokerLock \/ TellDropped \/ OnConnectFails \/ BrokerUnlock \/ LocalLock \/ Unlock
              \/ \E who \in {"broker", "local"} : LockSweep(who)
    BY <1>2, <1>15 DEF BrokerLock, TellDropped, OnConnectFails, BrokerUnlock, LocalLock, Unlock, LockSweep, channel
  <1>16. CASE BrokerTell
    <2> DEFINE m == [kind |-> "lockdown"]
    <2>1. m.kind = "lockdown" /\ (down' = down \/ down' = Append(down, m))
      BY <1>16 DEF BrokerTell, Send
    <2> HIDE DEF m
    <2> QED BY <1>0, <1>2, <2>1, SinglesAppend DEF Launches
  <1>17. CASE OnConnect
    BY <1>0, <1>17, OnConnectEffect DEF Singles
  <1>18. CASE Cut \/ Reconnect \/ HostCrash
    BY <1>2, <1>3, <1>18 DEF Cut, Disconnected, Reconnect, HostCrash
  <1>19. CASE BrokerCrash
    BY <1>0, <1>3, <1>4, <1>19, CrashRelabels
  <1>20. CASE UNCHANGED vars
    BY <1>2, <1>20 DEF vars, channel
  <1>21. ASSUME NEW j \in Jobs, StartTorn(j) \/ ExecTorn(j) PROVE Singles(down')
    <2>1. PICK m \in ToHost :
            /\ m.job = j
            /\ down' = <<>> \/ down' = down \/ down' = Append(down, m)
            /\ \/ StartTorn(j) /\ m.kind = (IF kind[j] = "shell" THEN "open" ELSE "start")
               \/ ExecTorn(j) /\ m.kind = "exec"
      BY <1>0, <1>21, TornEffect
    <2>2. m.kind = "open" => ~Has(down, {"open"}, j)
      BY <1>1, <2>1 DEF StartTorn, JobInv, LaunchedOnce
    <2>3. m.kind \in Launches => Call(j) = "new"
      BY <2>1 DEF StartTorn, ExecTorn, ExecAllowed, Call, Launches, IInv, TypeOK
    <2>4. m.kind \in Launches => ~Has(down, Launches, j)
      BY <1>1, <2>3 DEF JobInv, LaunchedOnce, Untouched
    <2>5. m.kind \notin {"kill", "close"}
      BY <2>1
    <2> QED BY <1>0, <1>2, <1>3, <2>1, <2>2, <2>4, <2>5, SinglesAppend
  <1> QED
    BY <1>5, <1>6, <1>7, <1>8, <1>10, <1>11, <1>12, <1>13, <1>14, <1>15, <1>16, <1>17, <1>18, <1>19, <1>20,
       <1>21 DEF Next

(***************************************************************************)
(* Each job.                                                               *)
(***************************************************************************)

\* Nothing of job j came into the queues.
DownFades(j) ==
    /\ Has(down', Launches, j) => Has(down, Launches, j)
    /\ Has(down', {"open"}, j) => Has(down, {"open"}, j)
    /\ Has(down', {"ack"}, j) => Has(down, {"ack"}, j)
UpFades(j) ==
    /\ Has(up', {"started"}, j) => Has(up, {"started"}, j)
    /\ Has(up', {"opened"}, j) => Has(up, {"opened"}, j)
    /\ Has(up', {"refused"}, j) => Has(up, {"refused"}, j)
    /\ Has(up', Reported, j) => Has(up, Reported, j)
    /\ StopAnswered(up', j) => StopAnswered(up, j)
RowStays(j) ==
    /\ kind'[j] = kind[j] /\ grant'[j] = grant[j] /\ start'[j] = start[j] /\ exec'[j] = exec[j]
    /\ row'[j] = row[j] /\ (waiting'[j] # {} => waiting[j] # {})
HostStays(j) ==
    /\ proc'[j] = proc[j] /\ spool'[j] = spool[j]
    /\ (j \in open' <=> j \in open) /\ (j \in killed' <=> j \in killed)
Still(j) == DownFades(j) /\ UpFades(j) /\ RowStays(j) /\ HostStays(j)

\* A step that does not touch a job keeps what is known of it.
LEMMA StillKeeps ==
  ASSUME NEW j, JobInv(j), Still(j)
  PROVE  JobInv(j)'
  <1> USE DEF Still, RowStays, HostStays
  <1>1. Call(j)' = Call(j)
    BY DEF Call
  <1>2. Untouched(j) => Untouched(j)'
    BY DEF Untouched, DownFades
  <1>3. Stopped(j) => Stopped(j)'
    BY DEF Stopped
  <1>4. CallMatchesRow(j)'
    BY <1>1 DEF JobInv, CallMatchesRow
  <1>5. LaunchedOnce(j)'
    BY <1>1, <1>2 DEF JobInv, LaunchedOnce, DownFades
  <1>6. AnswersHold(j)'
    BY <1>1, <1>2, <1>3 DEF JobInv, AnswersHold, DownFades, UpFades
  <1>7. SettledIsOver(j)'
    BY <1>1, <1>2, <1>3 DEF JobInv, SettledIsOver, DownFades
  <1> QED BY <1>4, <1>5, <1>6, <1>7 DEF JobInv

\* Every part of the invariant of one job, its operators expanded.
LEMMA JobInvPrimed ==
  ASSUME NEW j, CallMatchesRow(j)', LaunchedOnce(j)', AnswersHold(j)', SettledIsOver(j)'
  PROVE  JobInv(j)'
  BY DEF JobInv

\* The parts of a step that leave a side alone.
LEMMA Frames ==
  /\ UNCHANGED down => \A j : DownFades(j)
  /\ down' = <<>> => \A j : DownFades(j)
  /\ UNCHANGED up => \A j : UpFades(j)
  /\ up' = <<>> => \A j : UpFades(j)
  /\ UNCHANGED <<kind, grant, start, exec, row, waiting>> => \A j : RowStays(j)
  /\ UNCHANGED <<proc, open, killed, spool>> => \A j : HostStays(j)
  /\ UNCHANGED broker => UNCHANGED <<kind, grant, start, exec, row, waiting>>
  /\ UNCHANGED host => UNCHANGED <<proc, open, killed, spool>>
  /\ UNCHANGED channel => UNCHANGED <<link, down, up>>
  <1>1. UNCHANGED down => \A j : DownFades(j)
    BY DEF DownFades
  <1>2. UNCHANGED up => \A j : UpFades(j)
    BY DEF UpFades
  <1>3. down' = <<>> => \A j : DownFades(j)
    BY HasEmpty DEF DownFades
  <1>4. up' = <<>> => \A j : UpFades(j)
    BY HasEmpty DEF UpFades
  <1>5. UNCHANGED <<kind, grant, start, exec, row, waiting>> => \A j : RowStays(j)
    BY DEF RowStays
  <1>6. UNCHANGED <<proc, open, killed, spool>> => \A j : HostStays(j)
    BY DEF HostStays
  <1> QED BY <1>1, <1>2, <1>3, <1>4, <1>5, <1>6 DEF broker, host, channel

\* The steps that only move messages nobody acts on, flags and helpers.
LEMMA QuietSteps ==
  ASSUME IInv, NEW j \in Jobs,
         \/ \E i \in Jobs : KillCall(i) \/ KillMissed(i) \/ StopTimeout(i)
         \/ \E i \in Jobs, outcome \in Reported : GiveUpWaiting(i, outcome)
         \/ BrokerLock \/ BrokerTell \/ TellDropped \/ OnConnect \/ OnConnectFails \/ BrokerUnlock
         \/ LocalLock \/ Unlock \/ Cut \/ Reconnect
         \/ UNCHANGED vars
  PROVE  Still(j)
  <1>0. Queues /\ down \in Seq(ToHost) /\ up \in Seq(ToBroker)
    BY TypeParts DEF IInv, Queues
  <1>1. ASSUME NEW i \in Jobs, KillCall(i) PROVE Still(j)
    <2> DEFINE m == [kind |-> "kill", job |-> i, by |-> "task"]
    <2>1. Send(m) /\ m.kind = "kill"
      BY <1>1 DEF KillCall
    <2> HIDE DEF m
    <2>2. DownFades(j)
      BY <1>0, <2>1, SendEffect DEF DownFades, Launches
    <2>3. UNCHANGED <<up, kind, grant, start, exec, row, waiting, host>>
      BY <1>1 DEF KillCall
    <2> QED BY <2>2, <2>3, Frames DEF Still
  <1>2. ASSUME NEW i \in Jobs, KillMissed(i) \/ StopTimeout(i) PROVE Still(j)
    <2>1. Relabelled(down, down') /\ Relabelled(up, up')
      BY <1>0, <1>2, HangupEffect DEF KillMissed, StopTimeout
    <2>2. DownFades(j) /\ UpFades(j)
      BY <2>1, RelabelEffect DEF DownFades, UpFades
    <2>3. UNCHANGED <<kind, grant, start, exec, row, waiting, host>>
      BY <1>2 DEF KillMissed, StopTimeout
    <2> QED BY <2>2, <2>3, Frames DEF Still
  <1>3. ASSUME NEW i \in Jobs, NEW outcome \in Reported, GiveUpWaiting(i, outcome) PROVE Still(j)
    <2>1. waiting'[j] # {} => waiting[j] # {}
      BY <1>3 DEF GiveUpWaiting, Set, IInv, TypeOK
    <2>2. UNCHANGED <<kind, grant, start, exec, row, down, up, host>>
      BY <1>3 DEF GiveUpWaiting, channel
    <2>3. RowStays(j)
      BY <2>1, <2>2 DEF RowStays
    <2> QED BY <2>2, <2>3, Frames DEF Still
  <1>4. CASE BrokerTell
    <2> DEFINE m == [kind |-> "lockdown"]
    <2>1. m.kind = "lockdown" /\ (UNCHANGED down \/ Send(m))
      BY <1>4 DEF BrokerTell
    <2> HIDE DEF m
    <2>2. DownFades(j)
      BY <1>0, <2>1, SendEffect DEF DownFades, Launches
    <2>3. UNCHANGED <<up, broker, host>>
      BY <1>4 DEF BrokerTell
    <2> QED BY <2>2, <2>3, Frames DEF Still
  <1>5. CASE OnConnect
    <2>1. DownFades(j)
      BY <1>0, <1>5, OnConnectEffect DEF DownFades
    <2>2. UNCHANGED <<up, broker, host>>
      BY <1>5 DEF OnConnect
    <2> QED BY <2>1, <2>2, Frames DEF Still
  <1>6. CASE BrokerLock \/ TellDropped \/ OnConnectFails \/ BrokerUnlock \/ LocalLock \/ Unlock
    <2>1. UNCHANGED <<broker, channel, proc, open, killed, spool>>
      BY <1>6 DEF BrokerLock, TellDropped, OnConnectFails, BrokerUnlock, LocalLock, Unlock, host
    <2> QED BY <2>1, Frames DEF Still
  <1>7. CASE Cut \/ Reconnect
    <2>1. UNCHANGED <<broker, host>> /\ (down' = down \/ down' = <<>>) /\ (up' = up \/ up' = <<>>)
      BY <1>7 DEF Cut, Disconnected, Reconnect
    <2> QED BY <2>1, Frames DEF Still
  <1>8. CASE UNCHANGED vars
    BY <1>8, Frames DEF vars, Still
  <1> QED BY <1>1, <1>2, <1>3, <1>4, <1>5, <1>6, <1>7, <1>8

\* The types of one job's state.
LEMMA JobType ==
  ASSUME IInv, NEW j \in Jobs
  PROVE  /\ JobInv(j)
         /\ kind[j] \in {"command", "shell"} /\ grant[j] \in {"provisioning", "active", "failed", "ended"}
         /\ start[j] \in {"new", "calling", "over", "torn", "dropped"}
         /\ exec[j] \in {"new", "calling", "over", "torn", "dropped"}
         /\ row[j] \in {"none", "starting", "running", "done", "lost", "refused"}
         /\ proc[j] \in {"none", "orphan", "ended", "queued", "checked", "running", "exited"}
         /\ spool[j] \in {"none", "running", "done", "lost"}
  BY DEF IInv, TypeOK, Stage, Final, InJobs, Reported

\* What an assignment to one job's place does.
LEMMA HostSet ==
  ASSUME IInv, NEW i \in Jobs, NEW v
  PROVE  /\ Set(proc, i, v)[i] = v /\ \A j \in Jobs : j # i => Set(proc, i, v)[j] = proc[j]
         /\ Set(spool, i, v)[i] = v /\ \A j \in Jobs : j # i => Set(spool, i, v)[j] = spool[j]
  <1>1. DOMAIN proc = Jobs /\ DOMAIN spool = Jobs
    BY DEF IInv, TypeOK
  <1> QED BY <1>1 DEF Set

LEMMA BrokerSet ==
  ASSUME IInv, NEW i \in Jobs, NEW v
  PROVE  /\ Set(grant, i, v)[i] = v /\ \A j \in Jobs : j # i => Set(grant, i, v)[j] = grant[j]
         /\ Set(start, i, v)[i] = v /\ \A j \in Jobs : j # i => Set(start, i, v)[j] = start[j]
         /\ Set(exec, i, v)[i] = v /\ \A j \in Jobs : j # i => Set(exec, i, v)[j] = exec[j]
         /\ Set(row, i, v)[i] = v /\ \A j \in Jobs : j # i => Set(row, i, v)[j] = row[j]
         /\ Set(waiting, i, v)[i] = v /\ \A j \in Jobs : j # i => Set(waiting, i, v)[j] = waiting[j]
  <1>1. DOMAIN grant = Jobs /\ DOMAIN start = Jobs /\ DOMAIN exec = Jobs /\ DOMAIN row = Jobs /\ DOMAIN waiting = Jobs
    BY DEF IInv, TypeOK
  <1> QED BY <1>1 DEF Set

\* A job's process goes on at the host.
LEMMA HostSteps ==
  ASSUME IInv, NEW j \in Jobs, NEW i \in Jobs,
         CheckLock(i) \/ Execute(i) \/ Exit(i) \/ OrphanEnds(i) \/ Finish(i) \/ FinishUnspooled(i)
  PROVE  JobInv(j)'
  <1>1. UNCHANGED <<kind, grant, start, exec, row, waiting, down, up, open, killed>>
    BY DEF CheckLock, Execute, Exit, OrphanEnds, Finish, FinishUnspooled, Runs, broker, channel
  <1>2. /\ proc[i] \in {"queued", "checked", "running", "exited", "orphan"}
        /\ \A k \in Jobs : k # i => proc'[k] = proc[k] /\ spool'[k] = spool[k]
        /\ spool'[i] # "none" \/ spool'[i] = spool[i]
        /\ proc[i] = "queued" => proc'[i] \in {"checked", "exited"}
        /\ proc[i] = "checked" => proc'[i] \in {"running", "exited"}
        /\ proc[i] = "running" => proc'[i] = "exited"
        /\ proc[i] \in {"orphan", "exited"} => proc'[i] = "ended"
    BY HostSet DEF CheckLock, Execute, Exit, OrphanEnds, Finish, FinishUnspooled, Runs
  <1>3. CASE j # i
    BY <1>1, <1>2, <1>3, Frames, StillKeeps, JobType DEF Still, HostStays
  <1>4. CASE j = i
    <2>0. JobInv(i) /\ CallMatchesRow(i) /\ LaunchedOnce(i) /\ AnswersHold(i) /\ SettledIsOver(i)
      BY JobType DEF JobInv
    <2>1. CallMatchesRow(i)'
      BY <1>1, <1>2, <2>0 DEF CallMatchesRow, Call
    <2>2. LaunchedOnce(i)'
      BY <1>1, <1>2, <2>0 DEF LaunchedOnce, Call, Untouched, InJobs
    <2>3. AnswersHold(i)'
      BY <1>1, <1>2, <2>0 DEF AnswersHold, Call, Untouched, InJobs, Stopped
    <2>4. SettledIsOver(i)'
      BY <1>1, <1>2, <2>0 DEF SettledIsOver, Call, Untouched, InJobs, Stopped
    <2> QED BY <1>4, <2>1, <2>2, <2>3, <2>4, JobInvPrimed
  <1> QED BY <1>3, <1>4

\* The broker's steps that send nothing: a call that is over without an answer,
\* a grant that ends unasked, a job given up as lost.
LEMMA BrokerSteps ==
  ASSUME IInv, NEW j \in Jobs, NEW i \in Jobs,
         \/ StartOffline(i) \/ StartTimeout(i) \/ ExecNotSent(i) \/ ExecTimeout(i) \/ EndUnasked(i) \/ MarkLost(i)
  PROVE  JobInv(j)'
  <1>1. UNCHANGED <<kind, waiting, down, up, proc, open, killed, spool>>
    BY DEF StartOffline, StartTimeout, ExecNotSent, ExecTimeout, EndUnasked, MarkLost, Conclude, ExecOver,
           channel, host
  <1>2. CASE j # i
    <2>1. grant'[j] = grant[j] /\ start'[j] = start[j] /\ exec'[j] = exec[j] /\ row'[j] = row[j]
      BY <1>2, BrokerSet DEF StartOffline, StartTimeout, ExecNotSent, ExecTimeout, EndUnasked, MarkLost,
           Conclude, ExecOver, Ended
    <2>2. RowStays(j) /\ HostStays(j) /\ DownFades(j) /\ UpFades(j)
      BY <1>1, <2>1, Frames DEF RowStays
    <2> QED BY <2>2, StillKeeps, JobType DEF Still
  <1>3. CASE j = i
    <2>0. CallMatchesRow(i) /\ LaunchedOnce(i) /\ AnswersHold(i) /\ SettledIsOver(i)
      BY JobType DEF JobInv
    <2>1. CASE StartOffline(i) \/ StartTimeout(i)
      <3>1. /\ start[i] \in {"new", "calling"} /\ start'[i] = "over" /\ grant'[i] = "failed" /\ exec'[i] = exec[i]
            /\ start[i] = "new" \/ kind[i] # "command" \/ row'[i] = "starting"
            /\ kind[i] # "command" => row'[i] = row[i]
            /\ kind[i] = "command" => row'[i] \in {"refused", "starting"}
        BY <2>1, BrokerSet DEF StartOffline, StartTimeout, Conclude
      <3>2. CallMatchesRow(i)'
        BY <1>1, <2>0, <3>1, JobType DEF CallMatchesRow, Call
      <3>3. LaunchedOnce(i)'
        BY <1>1, <2>0, <3>1, JobType DEF LaunchedOnce, CallMatchesRow, Call, Untouched
      <3>4. AnswersHold(i)'
        BY <1>1, <2>0, <3>1, JobType DEF AnswersHold, LaunchedOnce, CallMatchesRow, Call, Untouched
      <3>5. SettledIsOver(i)'
        BY <1>1, <2>0, <3>1, JobType DEF SettledIsOver, LaunchedOnce, CallMatchesRow, Call, Untouched, Final, Reported
      <3> QED BY <1>3, <3>2, <3>3, <3>4, <3>5, JobInvPrimed
    <2>2. CASE ExecNotSent(i) \/ ExecTimeout(i)
      <3>1. /\ exec[i] \in {"new", "calling"} /\ exec'[i] = "over" /\ grant'[i] = grant[i] /\ start'[i] = start[i]
            /\ exec[i] = "new" => kind[i] = "shell" /\ grant[i] = "active"
            /\ row'[i] = "starting" \/ (row'[i] = "refused" /\ exec[i] = "new")
        BY <2>2, BrokerSet DEF ExecNotSent, ExecTimeout, ExecAllowed, ExecOver
      <3>2. kind[i] = "shell" /\ start[i] = "over"
        BY <2>0, <3>1, JobType DEF CallMatchesRow
      <3>3. CallMatchesRow(i)'
        BY <1>1, <2>0, <3>1, <3>2, JobType DEF CallMatchesRow, Call
      <3>4. LaunchedOnce(i)'
        BY <1>1, <2>0, <3>1, <3>2, JobType DEF LaunchedOnce, CallMatchesRow, Call, Untouched
      <3>5. AnswersHold(i)'
        BY <1>1, <2>0, <3>1, <3>2, JobType DEF AnswersHold, LaunchedOnce, CallMatchesRow, Call, Untouched, Stopped
      <3>6. SettledIsOver(i)'
        BY <1>1, <2>0, <3>1, <3>2, JobType
           DEF SettledIsOver, LaunchedOnce, CallMatchesRow, Call, Untouched, Final, Reported, Stopped
      <3> QED BY <1>3, <3>3, <3>4, <3>5, <3>6, JobInvPrimed
    <2>3. CASE EndUnasked(i)
      <3>1. /\ kind[i] = "command" /\ row[i] \notin {"starting", "running"}
            /\ exec'[i] = exec[i] /\ start'[i] = start[i] /\ row'[i] = row[i]
            /\ \/ grant[i] = "active" /\ grant'[i] = "ended"
               \/ grant[i] = "provisioning" /\ grant'[i] = "failed"
        BY <2>3, BrokerSet, JobType DEF EndUnasked, Endable, MustAsk, Ended
      <3>2. grant'[i] = "ended" => Stopped(i)
        BY <2>0, <3>1, JobType
           DEF CallMatchesRow, LaunchedOnce, SettledIsOver, Call, Untouched, Final, Reported, Stopped, InJobs
      <3>3. CallMatchesRow(i)'
        BY <1>1, <2>0, <3>1, JobType DEF CallMatchesRow, Call
      <3>4. LaunchedOnce(i)'
        BY <1>1, <2>0, <3>1, JobType DEF LaunchedOnce, CallMatchesRow, Call, Untouched
      <3>5. AnswersHold(i)'
        BY <1>1, <2>0, <3>1, JobType DEF AnswersHold, LaunchedOnce, CallMatchesRow, Call, Untouched, Stopped
      <3>6. SettledIsOver(i)'
        BY <1>1, <2>0, <3>1, <3>2, JobType DEF SettledIsOver, Call, Untouched, Stopped
      <3> QED BY <1>3, <3>3, <3>4, <3>5, <3>6, JobInvPrimed
    <2>4. CASE MarkLost(i)
      <3>1. /\ row[i] \in {"starting", "running"} /\ row'[i] = "lost" /\ proc[i] \in {"none", "ended"}
            /\ exec'[i] = exec[i] /\ start'[i] = start[i] /\ grant'[i] = grant[i]
            /\ ~Has(down, Launches, i)
        BY <2>4, BrokerSet DEF MarkLost, StartInFlight, Has, Launches
      <3>2. CallMatchesRow(i)'
        BY <1>1, <2>0, <3>1, JobType DEF CallMatchesRow, Call
      <3>3. LaunchedOnce(i)'
        BY <1>1, <2>0, <3>1, JobType DEF LaunchedOnce, Call, Untouched
      <3>4. AnswersHold(i)'
        BY <1>1, <2>0, <3>1, JobType DEF AnswersHold, Call, Untouched, Stopped
      <3>5. SettledIsOver(i)'
        BY <1>1, <2>0, <3>1, JobType DEF SettledIsOver, Call, Untouched, Stopped, Final, Reported, InJobs
      <3> QED BY <1>3, <3>2, <3>3, <3>4, <3>5, JobInvPrimed
    <2> QED BY <2>1, <2>2, <2>3, <2>4
  <1> QED BY <1>2, <1>3

\* The broker calls the host, once per job.
LEMMA CallSteps ==
  ASSUME IInv, NEW j \in Jobs, NEW i \in Jobs, StartCall(i) \/ ExecCall(i)
  PROVE  JobInv(j)'
  <1> DEFINE m == [kind |-> IF exec' # exec THEN "exec" ELSE IF kind[i] = "shell" THEN "open" ELSE "start",
                   job  |-> i]
  <1>0. Queues
    BY TypeParts DEF IInv
  <1>1. UNCHANGED <<kind, grant, row, waiting, up, proc, open, killed, spool>>
    BY DEF StartCall, ExecCall, host
  <1>2. /\ m.job = i /\ Send(m) /\ ((exec'[j] = exec[j] /\ start'[j] = start[j]) \/ j = i)
        /\ \/ StartCall(i) /\ m.kind = (IF kind[i] = "shell" THEN "open" ELSE "start")
           \/ ExecCall(i) /\ m.kind = "exec"
    <2>1. CASE StartCall(i)
      BY <2>1, BrokerSet DEF StartCall, StartMessage
    <2>2. CASE ExecCall(i)
      <3>1. exec[i] = "new" /\ exec'[i] = "calling"
        BY <2>2, BrokerSet DEF ExecCall, ExecAllowed
      <3>2. exec' # exec
        BY <3>1
      <3> QED BY <2>2, <3>2, BrokerSet DEF ExecCall
    <2> QED BY <2>1, <2>2
  <1> HIDE DEF m
  <1>3. \A K, k : Has(down', K, k) <=> Has(down, K, k) \/ (m.kind \in K /\ m.job = k)
    BY <1>0, <1>2, SendEffect
  <1>4. CASE j # i
    <2>1. DownFades(j) /\ RowStays(j)
      BY <1>1, <1>2, <1>3, <1>4 DEF DownFades, RowStays
    <2> QED BY <1>1, <2>1, StillKeeps, JobType, Frames DEF Still
  <1>5. CASE j = i
    <2>0. CallMatchesRow(i) /\ LaunchedOnce(i) /\ AnswersHold(i) /\ SettledIsOver(i)
      BY JobType DEF JobInv
    <2>1. CASE StartCall(i) /\ m.kind = (IF kind[i] = "shell" THEN "open" ELSE "start")
      <3>1. /\ start[i] = "new" /\ start'[i] = "calling" /\ exec'[i] = exec[i]
            /\ Has(down', {"ack"}, i) <=> Has(down, {"ack"}, i)
            /\ Has(down', {"open"}, i) <=> Has(down, {"open"}, i) \/ kind[i] = "shell"
            /\ Has(down', Launches, i) <=> Has(down, Launches, i) \/ kind[i] # "shell"
        BY <1>2, <1>3, <2>1, BrokerSet DEF StartCall, Launches
      <3>2. CallMatchesRow(i)'
        BY <1>1, <2>0, <3>1, JobType DEF CallMatchesRow, Call
      <3>3. LaunchedOnce(i)'
        BY <1>1, <2>0, <3>1, JobType DEF LaunchedOnce, CallMatchesRow, Call, Untouched
      <3>4. AnswersHold(i)'
        BY <1>1, <2>0, <3>1, JobType DEF AnswersHold, LaunchedOnce, CallMatchesRow, Call, Untouched, Stopped
      <3>5. SettledIsOver(i)'
        BY <1>1, <2>0, <3>1, JobType
           DEF SettledIsOver, LaunchedOnce, CallMatchesRow, Call, Untouched, Stopped, Final, Reported
      <3> QED BY <1>5, <3>2, <3>3, <3>4, <3>5, JobInvPrimed
    <2>2. CASE ExecCall(i) /\ m.kind = "exec"
      <3>1. /\ kind[i] = "shell" /\ grant[i] = "active"
            /\ exec[i] = "new" /\ exec'[i] = "calling" /\ start'[i] = start[i]
            /\ Has(down', {"ack"}, i) <=> Has(down, {"ack"}, i)
            /\ Has(down', {"open"}, i) <=> Has(down, {"open"}, i)
            /\ Has(down', Launches, i)
        BY <1>2, <1>3, <2>2, BrokerSet DEF ExecCall, ExecAllowed, Launches
      <3>2. CallMatchesRow(i)'
        BY <1>1, <2>0, <3>1, JobType DEF CallMatchesRow, Call
      <3>3. LaunchedOnce(i)'
        BY <1>1, <2>0, <3>1, JobType DEF LaunchedOnce, CallMatchesRow, Call, Untouched
      <3>4. AnswersHold(i)'
        BY <1>1, <2>0, <3>1, JobType DEF AnswersHold, LaunchedOnce, CallMatchesRow, Call, Untouched, Stopped
      <3>5. SettledIsOver(i)'
        BY <1>1, <2>0, <3>1, JobType
           DEF SettledIsOver, LaunchedOnce, CallMatchesRow, Call, Untouched, Stopped, Final, Reported
      <3> QED BY <1>5, <3>2, <3>3, <3>4, <3>5, JobInvPrimed
    <2> QED BY <1>2, <2>1, <2>2
  <1> QED BY <1>4, <1>5

\* A call is torn off: the job counts as refused, and may be on its way all the
\* same.
LEMMA TornStep ==
  ASSUME IInv, NEW j \in Jobs, NEW i \in Jobs, StartTorn(i) \/ ExecTorn(i)
  PROVE  JobInv(j)'
  <1>0. Queues /\ down \in Seq(ToHost)
    BY TypeParts DEF IInv, Queues
  <1>1. PICK m \in ToHost :
          /\ m.job = i
          /\ down' = <<>> \/ down' = down \/ down' = Append(down, m)
          /\ up' = <<>>
          /\ \/ StartTorn(i) /\ m.kind = (IF kind[i] = "shell" THEN "open" ELSE "start")
             \/ ExecTorn(i) /\ m.kind = "exec"
    BY <1>0, TornEffect
  <1>2. UNCHANGED <<kind, waiting, proc, open, killed, spool>>
    BY DEF StartTorn, ExecTorn, Conclude, ExecOver, host
  <1>3. \A K, k : Has(down', K, k) => Has(down, K, k) \/ (m.kind \in K /\ m.job = k)
    <2>1. CASE down' = Append(down, m)
      BY <1>0, <2>1, HasAppend
    <2> QED BY <1>1, <2>1, HasEmpty
  <1>4. CASE j # i
    <2>1. grant'[j] = grant[j] /\ start'[j] = start[j] /\ exec'[j] = exec[j] /\ row'[j] = row[j]
      BY <1>4, BrokerSet DEF StartTorn, ExecTorn, Conclude, ExecOver
    <2>2. DownFades(j) /\ RowStays(j)
      BY <1>1, <1>2, <1>3, <1>4, <2>1 DEF DownFades, RowStays
    <2> QED BY <1>1, <1>2, <2>2, StillKeeps, JobType, Frames DEF Still
  <1>5. CASE j = i
    <2>0. CallMatchesRow(i) /\ LaunchedOnce(i) /\ AnswersHold(i) /\ SettledIsOver(i)
      BY JobType DEF JobInv
    <2>1. /\ ~Has(up', {"started"}, i) /\ ~Has(up', {"opened"}, i) /\ ~Has(up', {"refused"}, i)
          /\ ~Has(up', Reported, i) /\ ~StopAnswered(up', i)
      BY <1>1, HasEmpty
    <2>2. AnswersHold(i)'
      BY <1>2, <2>0, <2>1 DEF AnswersHold
    <2>3. CASE StartTorn(i) /\ m.kind = (IF kind[i] = "shell" THEN "open" ELSE "start")
      <3>1. /\ start[i] = "new" /\ start'[i] = "torn" /\ exec'[i] = exec[i] /\ grant'[i] = "failed"
            /\ row'[i] = (IF kind[i] = "command" THEN "refused" ELSE row[i])
            /\ Has(down', {"ack"}, i) => Has(down, {"ack"}, i)
            /\ Has(down', {"open"}, i) => Has(down, {"open"}, i) \/ kind[i] = "shell"
            /\ Has(down', Launches, i) => Has(down, Launches, i) \/ kind[i] # "shell"
        BY <1>1, <1>3, <2>3, BrokerSet DEF StartTorn, Conclude, Launches
      <3>2. exec[i] = "new" /\ Call(i) = "new" /\ Untouched(i)
        BY <2>0, <3>1, JobType DEF CallMatchesRow, LaunchedOnce, Call
      <3>3. CallMatchesRow(i)'
        BY <1>2, <2>0, <3>1, <3>2, JobType DEF CallMatchesRow, Call
      <3>4. LaunchedOnce(i)'
        BY <1>2, <2>0, <3>1, <3>2, JobType DEF LaunchedOnce, Call, Untouched
      <3>5. SettledIsOver(i)'
        BY <1>2, <2>0, <3>1, <3>2, JobType
           DEF SettledIsOver, CallMatchesRow, Call, Untouched, Final, Reported
      <3> QED BY <1>5, <2>2, <3>3, <3>4, <3>5, JobInvPrimed
    <2>4. CASE ExecTorn(i) /\ m.kind = "exec"
      <3>1. /\ kind[i] = "shell" /\ grant[i] = "active" /\ grant'[i] = "active"
            /\ exec[i] = "new" /\ exec'[i] = "torn" /\ start'[i] = start[i] /\ row'[i] = "refused"
            /\ Has(down', {"ack"}, i) => Has(down, {"ack"}, i)
            /\ Has(down', {"open"}, i) => Has(down, {"open"}, i)
        BY <1>1, <1>3, <2>4, BrokerSet DEF ExecTorn, ExecAllowed, ExecOver
      <3>2. start[i] = "over" /\ Call(i) = "new" /\ Untouched(i)
        BY <2>0, <3>1, JobType DEF CallMatchesRow, LaunchedOnce, Call
      <3>3. CallMatchesRow(i)'
        BY <1>2, <2>0, <3>1, <3>2, JobType DEF CallMatchesRow, Call
      <3>4. LaunchedOnce(i)'
        BY <1>2, <2>0, <3>1, <3>2, JobType DEF LaunchedOnce, Call, Untouched
      <3>5. SettledIsOver(i)'
        BY <1>2, <2>0, <3>1, <3>2, JobType
           DEF SettledIsOver, CallMatchesRow, Call, Untouched, Final, Reported
      <3> QED BY <1>5, <2>2, <3>3, <3>4, <3>5, JobInvPrimed
    <2> QED BY <1>1, <2>3, <2>4
  <1> QED BY <1>4, <1>5

\* A grant's end is asked for: nothing of the job changes until the answer.
LEMMA StopCallStep ==
  ASSUME IInv, NEW j \in Jobs, NEW i \in Jobs, StopCall(i)
  PROVE  JobInv(j)'
  <1> DEFINE m == [kind |-> IF kind[i] = "shell" THEN "close" ELSE "kill", job |-> i, by |-> "stop"]
  <1>1. Queues /\ Send(m) /\ m.kind \in {"kill", "close"}
    BY TypeParts DEF IInv, StopCall
  <1> HIDE DEF m
  <1>2. DownFades(j)
    BY <1>1, SendEffect DEF DownFades, Launches
  <1>3. UNCHANGED <<up, kind, grant, start, exec, row, waiting, host>>
    BY DEF StopCall
  <1> QED BY <1>2, <1>3, Frames, StillKeeps, JobType DEF Still

\* A result is stored and acknowledged: by the task that waited for its row, or
\* as it arrives.
LEMMA ResultStored ==
  ASSUME IInv, NEW j \in Jobs, NEW i \in Jobs, NEW outcome \in Reported,
         row[i] # "none", Stored(i, outcome),
         down' = Append(down, Ack(i)) \/ down' = down,
         Has(up, Reported, i) \/ waiting[i] # {},
         UpFades(j), HostStays(j),
         UNCHANGED <<kind, grant, start, exec>>,
         waiting'[j] # {} => waiting[j] # {}
  PROVE  JobInv(j)'
  <1> DEFINE m == Ack(i)
  <1>0. Queues
    BY TypeParts DEF IInv
  <1>1. m.kind = "ack" /\ m.job = i /\ (Send(m) \/ down' = down)
    BY DEF Ack, Send
  <1> HIDE DEF m
  <1>2. /\ \A k : Has(down', Launches, k) <=> Has(down, Launches, k)
        /\ \A k : Has(down', {"open"}, k) <=> Has(down, {"open"}, k)
        /\ \A k : Has(down', {"ack"}, k) => Has(down, {"ack"}, k) \/ k = i
    BY <1>0, <1>1, SendEffect DEF Launches
  <1>3. /\ j # i => row'[j] = row[j]
        /\ row[i] \in Final => row'[i] = row[i]
        /\ row[i] \notin Final => row'[i] = outcome
    BY BrokerSet DEF Stored
  <1>4. CASE j # i
    <2>1. DownFades(j) /\ RowStays(j)
      BY <1>2, <1>3, <1>4 DEF DownFades, RowStays
    <2> QED BY <2>1, StillKeeps, JobType DEF Still
  <1>5. CASE j = i
    <2>0. CallMatchesRow(i) /\ LaunchedOnce(i) /\ AnswersHold(i) /\ SettledIsOver(i)
      BY JobType DEF JobInv
    <2>1. /\ kind'[i] = kind[i] /\ grant'[i] = grant[i] /\ start'[i] = start[i] /\ exec'[i] = exec[i]
          /\ row'[i] \in {"done", "lost", "refused"} /\ row'[i] \in Final
          /\ row'[i] = "refused" <=> row[i] = "refused"
          /\ proc[i] \in {"ended", "orphan"}
      BY <1>3, <2>0 DEF AnswersHold, Final, Reported
    <2>2. CallMatchesRow(i)'
      BY <1>5, <2>0, <2>1, JobType DEF CallMatchesRow, Call, HostStays
    <2>3. LaunchedOnce(i)'
      BY <1>2, <1>5, <2>0, <2>1, JobType DEF LaunchedOnce, Call, Untouched, HostStays
    <2>4. AnswersHold(i)'
      BY <1>2, <1>5, <2>0, <2>1, JobType DEF AnswersHold, Call, Untouched, HostStays, UpFades, Stopped
    <2>5. SettledIsOver(i)'
      BY <1>2, <1>5, <2>0, <2>1, JobType DEF SettledIsOver, LaunchedOnce, Call, Untouched, HostStays, Stopped, InJobs
    <2> QED BY <1>5, <2>2, <2>3, <2>4, <2>5, JobInvPrimed
  <1> QED BY <1>4, <1>5

LEMMA StoreWaitingStep ==
  ASSUME IInv, NEW j \in Jobs, NEW i \in Jobs, NEW outcome \in Reported, StoreWaiting(i, outcome)
  PROVE  JobInv(j)'
  <1>1. /\ row[i] # "none" /\ Stored(i, outcome) /\ waiting[i] # {}
        /\ down' = Append(down, Ack(i)) \/ down' = down
        /\ UNCHANGED <<kind, grant, start, exec, up, host>>
    BY DEF StoreWaiting
  <1>2. waiting'[j] # {} => waiting[j] # {}
    BY BrokerSet DEF StoreWaiting
  <1> QED BY <1>1, <1>2, ResultStored, Frames

\* A result is sent only by a hostd that ran the job and no longer does.
LEMMA SendResultStep ==
  ASSUME IInv, NEW j \in Jobs, NEW i \in Jobs, SendResult(i)
  PROVE  JobInv(j)'
  <1> DEFINE m == [kind |-> spool[i], job |-> i]
  <1>0. Queues /\ up \in Seq(ToBroker)
    BY TypeParts DEF IInv, Queues
  <1>1. /\ m.kind = spool[i] /\ m.job = i /\ up' = Append(up, m)
        /\ spool[i] \in Reported /\ proc[i] \notin InJobs
        /\ UNCHANGED <<kind, grant, start, exec, row, waiting, down, proc, open, killed, spool>>
    BY DEF SendResult, broker, host
  <1> HIDE DEF m
  <1>a. Reply(m)
    BY <1>1 DEF SendResult, Reply
  <1>2. /\ \A K, k : Has(up', K, k) => Has(up, K, k) \/ (m.kind \in K /\ m.job = k)
        /\ \A k : StopAnswered(up', k) => StopAnswered(up, k) \/ m.kind = "stopped"
    BY <1>0, <1>a, ReplyEffect
  <1>3. /\ Has(up', {"started"}, j) => Has(up, {"started"}, j)
        /\ Has(up', {"opened"}, j) => Has(up, {"opened"}, j)
        /\ Has(up', {"refused"}, j) => Has(up, {"refused"}, j)
        /\ StopAnswered(up', j) => StopAnswered(up, j)
        /\ Has(up', Reported, j) => Has(up, Reported, j) \/ j = i
    BY <1>1, <1>2 DEF Reported
  <1>4. CASE j # i
    BY <1>1, <1>3, <1>4, Frames, StillKeeps, JobType DEF Still, UpFades
  <1>5. CASE j = i
    <2>0. CallMatchesRow(i) /\ LaunchedOnce(i) /\ AnswersHold(i) /\ SettledIsOver(i)
      BY JobType DEF JobInv
    <2>1. proc[i] \in {"ended", "orphan"}
      BY <1>1, <2>0, JobType DEF LaunchedOnce, InJobs, Reported
    <2>2. CallMatchesRow(i)'
      BY <1>1, <2>0 DEF CallMatchesRow, Call
    <2>3. LaunchedOnce(i)'
      BY <1>1, <2>0 DEF LaunchedOnce, Call, Untouched
    <2>4. AnswersHold(i)'
      BY <1>1, <1>3, <1>5, <2>0, <2>1 DEF AnswersHold, Call, Untouched, Stopped
    <2>5. SettledIsOver(i)'
      BY <1>1, <2>0 DEF SettledIsOver, Call, Untouched, Stopped
    <2> QED BY <1>5, <2>2, <2>3, <2>4, <2>5, JobInvPrimed
  <1> QED BY <1>4, <1>5

\* A shell ends at the host, by its own timer.
LEMMA ShellExpiresStep ==
  ASSUME IInv, NEW j \in Jobs, NEW i \in Jobs, ShellExpires(i)
  PROVE  JobInv(j)'
  <1>1. UNCHANGED <<kind, grant, start, exec, row, waiting, down, up, proc, spool>>
    BY DEF ShellExpires, EndShell, broker, channel
  <1>2. /\ j # i => (j \in open' <=> j \in open) /\ (j \in killed' <=> j \in killed)
        /\ i \in open /\ i \notin open' /\ (i \in killed => i \in killed') /\ (proc[i] \in InJobs => i \in killed')
    BY DEF ShellExpires, EndShell
  <1>3. CASE j # i
    BY <1>1, <1>2, <1>3, Frames, StillKeeps, JobType DEF Still, HostStays
  <1>4. CASE j = i
    <2>0. CallMatchesRow(i) /\ LaunchedOnce(i) /\ AnswersHold(i) /\ SettledIsOver(i)
      BY JobType DEF JobInv
    <2>1. CallMatchesRow(i)'
      BY <1>1, <2>0 DEF CallMatchesRow, Call
    <2>2. LaunchedOnce(i)'
      BY <1>1, <1>2, <2>0 DEF LaunchedOnce, Call, Untouched
    <2>3. AnswersHold(i)'
      BY <1>1, <1>2, <2>0 DEF AnswersHold, Call, Untouched, Stopped
    <2>4. SettledIsOver(i)'
      BY <1>1, <1>2, <2>0 DEF SettledIsOver, Call, Untouched, Stopped
    <2> QED BY <1>4, <2>1, <2>2, <2>3, <2>4, JobInvPrimed
  <1> QED BY <1>3, <1>4

\* A lockdown ends every shell and kills every job.
LEMMA LockSweepStep ==
  ASSUME IInv, NEW j \in Jobs, NEW who, LockSweep(who)
  PROVE  JobInv(j)'
  <1>1. UNCHANGED <<kind, grant, start, exec, row, waiting, down, up, spool>>
    BY DEF LockSweep, broker, channel
  <1>2. /\ j \notin open' /\ (j \in killed => j \in killed') /\ (proc[j] \in InJobs => j \in killed')
        /\ proc'[j] = proc[j] \/ (proc[j] = "orphan" /\ proc'[j] = "ended")
    BY DEF LockSweep
  <1>3. CallMatchesRow(j) /\ LaunchedOnce(j) /\ AnswersHold(j) /\ SettledIsOver(j)
    BY JobType DEF JobInv
  <1>4. CallMatchesRow(j)'
    BY <1>1, <1>2, <1>3 DEF CallMatchesRow, Call
  <1>5. LaunchedOnce(j)'
    BY <1>1, <1>2, <1>3 DEF LaunchedOnce, Call, Untouched, InJobs
  <1>6. AnswersHold(j)'
    BY <1>1, <1>2, <1>3 DEF AnswersHold, Call, Untouched, Stopped, InJobs
  <1>7. SettledIsOver(j)'
    BY <1>1, <1>2, <1>3 DEF SettledIsOver, Call, Untouched, Stopped, InJobs
  <1> QED BY <1>4, <1>5, <1>6, <1>7, JobInvPrimed

\* The broker dies: a call under way is dropped and its row never written.
LEMMA BrokerCrashStep ==
  ASSUME IInv, NEW j \in Jobs, BrokerCrash
  PROVE  JobInv(j)'
  <1>0. Queues
    BY TypeParts DEF IInv
  <1>1. /\ UNCHANGED <<kind, grant, row, proc, open, killed, spool>>
        /\ start'[j] = (IF start[j] = "calling" THEN "dropped" ELSE start[j])
        /\ exec'[j] = (IF exec[j] = "calling" THEN "dropped" ELSE exec[j])
        /\ waiting'[j] = {}
    BY DEF BrokerCrash, host
  <1>2. /\ DownFades(j)
        /\ ~Has(up', {"started"}, j) /\ ~Has(up', {"opened"}, j) /\ ~Has(up', {"refused"}, j)
        /\ ~Has(up', Reported, j) /\ ~StopAnswered(up', j)
    <2>1. DownFades(j)
      BY <1>0, CrashRelabels, RelabelEffect, Frames DEF DownFades
    <2> QED BY <1>0, <2>1, CrashRelabels, HasEmpty
  <1>3. CallMatchesRow(j) /\ LaunchedOnce(j) /\ AnswersHold(j) /\ SettledIsOver(j)
    BY JobType DEF JobInv
  <1>4. CallMatchesRow(j)'
    BY <1>1, <1>3, JobType DEF CallMatchesRow, Call
  <1>5. LaunchedOnce(j)'
    BY <1>1, <1>2, <1>3, JobType DEF LaunchedOnce, Call, Untouched, DownFades
  <1>6. AnswersHold(j)'
    BY <1>1, <1>2, <1>3 DEF AnswersHold
  <1>7. SettledIsOver(j)'
    BY <1>1, <1>2, <1>3, JobType DEF SettledIsOver, Call, Untouched, Stopped, DownFades
  <1> QED BY <1>4, <1>5, <1>6, <1>7, JobInvPrimed

\* hostd dies: what was in flight is gone, a job it ran is over or left to
\* itself, and a result is thrown away only for a job nobody waits for.
LEMMA HostCrashStep ==
  ASSUME IInv, NEW j \in Jobs, HostCrash
  PROVE  JobInv(j)'
  <1>1. /\ UNCHANGED <<kind, grant, start, exec, row, waiting>>
        /\ j \notin open' /\ j \notin killed'
    BY DEF HostCrash, broker
  <1>2. /\ proc'[j] \in {"none", "orphan", "ended"}
        /\ proc'[j] = "none" <=> proc[j] = "none"
        /\ proc[j] = "ended" => proc'[j] = "ended"
    <2>1. proc'[j] \in LeftBy(proc[j]) /\ proc'[j] \in {"none", "orphan", "ended"}
      BY DEF HostCrash
    <2> QED BY <2>1, JobType DEF LeftBy, InJobs
  <1>3. spool'[j] = "none" => \/ spool[j] = "none"
                              \/ ~(row[j] \in {"starting", "running"} \/ InTx(j))
    <2>1. spool'[j] \in SpoolAfter(j)
      BY DEF HostCrash
    <2> QED BY <2>1 DEF SpoolAfter
  <1>4. spool[j] = "none" => spool'[j] = "none"
    <2>1. spool'[j] \in SpoolAfter(j)
      BY DEF HostCrash
    <2> QED BY <2>1 DEF SpoolAfter
  <1>5. /\ ~Has(down', Launches, j) /\ ~Has(down', {"open"}, j) /\ ~Has(down', {"ack"}, j)
        /\ ~Has(up', {"started"}, j) /\ ~Has(up', {"opened"}, j) /\ ~Has(up', {"refused"}, j)
        /\ ~Has(up', Reported, j) /\ ~StopAnswered(up', j)
    BY HasEmpty DEF HostCrash, Disconnected
  <1>6. CallMatchesRow(j) /\ LaunchedOnce(j) /\ AnswersHold(j) /\ SettledIsOver(j)
    BY JobType DEF JobInv
  <1>7. CallMatchesRow(j)'
    BY <1>1, <1>2, <1>6, JobType DEF CallMatchesRow, Call
  <1>8. LaunchedOnce(j)'
    BY <1>1, <1>2, <1>4, <1>5, <1>6, JobType DEF LaunchedOnce, Call, Untouched, InJobs
  <1>9. AnswersHold(j)'
    BY <1>1, <1>2, <1>5, <1>6, JobType DEF AnswersHold
  <1>10. SettledIsOver(j)'
    <2>1. proc[j] # "none" /\ spool'[j] = "none" => row[j] \in Final \/ Call(j) = "dropped"
      BY <1>3, <1>6, JobType DEF SettledIsOver, CallMatchesRow, LaunchedOnce, Untouched, Call, InTx, Final
    <2>2. Stopped(j)'
      BY <1>1, <1>2 DEF Stopped
    <2> QED BY <1>1, <1>2, <1>4, <1>5, <1>6, <2>1, <2>2, JobType DEF SettledIsOver, Untouched, Call, InJobs
  <1> QED BY <1>7, <1>8, <1>9, <1>10, JobInvPrimed

\* The broker takes a message: a result, an answer that counts, or a late one.
LEMMA ReceiveStep ==
  ASSUME IInv, NEW j \in Jobs, Receive
  PROVE  JobInv(j)'
  <1>0. Queues /\ up # <<>> /\ up' = Tail(up)
    BY TypeParts DEF IInv, Receive
  <1>a. Head(up).job \in Jobs
    BY <1>0, ReceiveEffect
  <1>b. PICK i \in Jobs, m \in {Head(up)} : m = Head(up) /\ i = Head(up).job
    BY <1>a
  <1>1. /\ UpFades(j) /\ HostStays(j) /\ m.job = i
        /\ \A K : m.kind \in K => Has(up, K, i)
        /\ m.kind = "stopped" /\ m.by = "stop" => StopAnswered(up, i)
    <2>1. UNCHANGED <<proc, open, killed, spool>>
      BY DEF Receive, host
    <2> QED BY <1>0, <1>b, <2>1, ReceiveEffect, Frames DEF UpFades
  <1>2. \/ m.kind \in Reported /\ (OnResult(i, m.kind) \/ OnEarlyResult(i, m.kind))
        \/ OnAnswer(m)
        \/ UNCHANGED <<broker, down>>
    BY <1>b DEF Receive
  <1>3. UNCHANGED <<proc, open, killed, spool>>
    BY DEF Receive, host
  <1>4. CallMatchesRow(i) /\ LaunchedOnce(i) /\ AnswersHold(i) /\ SettledIsOver(i)
    BY <1>1, JobType DEF JobInv
  <1>5. CASE m.kind \in Reported /\ OnResult(i, m.kind)
    <2>1. /\ row[i] # "none" /\ Stored(i, m.kind) /\ down' = Append(down, Ack(i))
          /\ UNCHANGED <<kind, grant, start, exec, waiting>>
      BY <1>5 DEF OnResult
    <2> QED BY <1>1, <1>5, <2>1, ResultStored
  <1>6. CASE m.kind \in Reported /\ OnEarlyResult(i, m.kind)
    <2>1. /\ UNCHANGED <<kind, grant, start, exec, row, down>>
          /\ j # i => waiting'[j] = waiting[j]
      BY <1>1, <1>6, BrokerSet DEF OnEarlyResult
    <2>2. CASE j # i
      <3>1. RowStays(j) /\ DownFades(j)
        BY <2>1, <2>2, Frames DEF RowStays
      <3> QED BY <1>1, <3>1, StillKeeps, JobType DEF Still
    <2>3. CASE j = i
      <3>1. proc[i] \in {"ended", "orphan"}
        BY <1>1, <1>4, <1>6 DEF AnswersHold
      <3>2. CallMatchesRow(i)'
        BY <1>3, <1>4, <2>1 DEF CallMatchesRow, Call
      <3>3. LaunchedOnce(i)'
        BY <1>3, <1>4, <2>1 DEF LaunchedOnce, Call, Untouched
      <3>4. AnswersHold(i)'
        BY <1>1, <1>3, <1>4, <2>1, <2>3, <3>1 DEF AnswersHold, UpFades, Call, Untouched, Stopped
      <3>5. SettledIsOver(i)'
        BY <1>3, <1>4, <2>1 DEF SettledIsOver, Call, Untouched, Stopped
      <3> QED BY <2>3, <3>2, <3>3, <3>4, <3>5, JobInvPrimed
    <2> QED BY <2>2, <2>3
  <1>7. ASSUME UNCHANGED <<kind, waiting, down>>,
               j # i => grant'[j] = grant[j] /\ start'[j] = start[j] /\ exec'[j] = exec[j] /\ row'[j] = row[j],
               CallMatchesRow(i)', LaunchedOnce(i)', AnswersHold(i)', SettledIsOver(i)'
        PROVE  JobInv(j)'
    <2>1. CASE j # i
      <3>1. RowStays(j) /\ DownFades(j)
        BY <1>7, <2>1, Frames DEF RowStays
      <3> QED BY <1>1, <3>1, StillKeeps, JobType DEF Still
    <2> QED BY <1>7, <2>1, JobInvPrimed
  <1>8. UpFades(i)
    BY <1>0, ReceiveEffect DEF UpFades
  <1>9. CASE m.kind \in {"started", "opened"} /\ start[i] = "calling" /\ Conclude(i, "over", "running", "active")
             /\ UNCHANGED <<waiting, down>>
    <2>1. /\ UNCHANGED <<kind, waiting, down>> /\ exec'[i] = exec[i]
          /\ start'[i] = "over" /\ grant'[i] = "active"
          /\ row'[i] = (IF kind[i] = "command" THEN "running" ELSE row[i])
          /\ j # i => grant'[j] = grant[j] /\ start'[j] = start[j] /\ exec'[j] = exec[j] /\ row'[j] = row[j]
      BY <1>1, <1>9, BrokerSet DEF Conclude
    <2>2. \/ kind[i] = "command" /\ proc[i] # "none"
          \/ kind[i] = "shell" /\ ~Has(down, {"open"}, i) /\ Has(up, {"opened"}, i) /\ exec[i] = "new"
      BY <1>1, <1>4, <1>9, JobType DEF AnswersHold, LaunchedOnce, CallMatchesRow, Call, Untouched
    <2>3. CallMatchesRow(i)'
      BY <1>1, <1>3, <1>4, <1>9, <2>1, <2>2, JobType DEF CallMatchesRow, Call
    <2>4. LaunchedOnce(i)'
      BY <1>1, <1>3, <1>4, <1>9, <2>1, <2>2, JobType DEF LaunchedOnce, Call, Untouched
    <2>5. AnswersHold(i)'
      BY <1>1, <1>3, <1>4, <1>8, <1>9, <2>1, <2>2, JobType DEF AnswersHold, UpFades, Call, Untouched, Stopped
    <2>6. SettledIsOver(i)'
      BY <1>1, <1>3, <1>4, <1>9, <2>1, <2>2, JobType
         DEF SettledIsOver, LaunchedOnce, CallMatchesRow, Call, Untouched, Stopped, Final, Reported
    <2> QED BY <1>7, <2>1, <2>3, <2>4, <2>5, <2>6
  <1>10. CASE m.kind = "refused" /\ start[i] = "calling" /\ Conclude(i, "over", "refused", "failed")
              /\ UNCHANGED <<waiting, down>>
    <2>1. /\ UNCHANGED <<kind, waiting, down>> /\ exec'[i] = exec[i]
          /\ start'[i] = "over" /\ grant'[i] = "failed"
          /\ row'[i] = (IF kind[i] = "command" THEN "refused" ELSE row[i])
          /\ j # i => grant'[j] = grant[j] /\ start'[j] = start[j] /\ exec'[j] = exec[j] /\ row'[j] = row[j]
      BY <1>1, <1>10, BrokerSet DEF Conclude
    <2>2. kind[i] = "command" => Untouched(i)
      BY <1>1, <1>4, <1>10, JobType DEF AnswersHold, Call
    <2>3. CallMatchesRow(i)'
      BY <1>1, <1>3, <1>4, <1>10, <2>1, <2>2, JobType DEF CallMatchesRow, Call
    <2>4. LaunchedOnce(i)'
      BY <1>1, <1>3, <1>4, <1>10, <2>1, <2>2, JobType DEF LaunchedOnce, CallMatchesRow, Call, Untouched
    <2>5. AnswersHold(i)'
      BY <1>1, <1>3, <1>4, <1>8, <1>10, <2>1, <2>2, JobType
         DEF AnswersHold, CallMatchesRow, UpFades, Call, Untouched, Stopped
    <2>6. SettledIsOver(i)'
      BY <1>1, <1>3, <1>4, <1>10, <2>1, <2>2, JobType
         DEF SettledIsOver, CallMatchesRow, Call, Untouched, Stopped, Final, Reported
    <2> QED BY <1>7, <2>1, <2>3, <2>4, <2>5, <2>6
  <1>11. CASE m.kind \in {"started", "refused"} /\ exec[i] = "calling" /\ UNCHANGED down
              /\ ExecOver(i, "over", IF m.kind = "started" THEN "running" ELSE "refused")
    <2>1. /\ UNCHANGED <<kind, waiting, down>> /\ start'[i] = start[i] /\ grant'[i] = grant[i]
          /\ exec'[i] = "over"
          /\ row'[i] = "running" \/ (row'[i] = "refused" /\ m.kind = "refused")
          /\ j # i => grant'[j] = grant[j] /\ start'[j] = start[j] /\ exec'[j] = exec[j] /\ row'[j] = row[j]
      BY <1>1, <1>11, BrokerSet DEF ExecOver
    <2>2. kind[i] = "shell" /\ start[i] = "over" /\ (row'[i] = "refused" => Untouched(i))
      BY <1>1, <1>4, <1>11, <2>1, JobType DEF AnswersHold, CallMatchesRow, Call
    <2>3. CallMatchesRow(i)'
      BY <1>1, <1>3, <1>4, <1>11, <2>1, <2>2, JobType DEF CallMatchesRow, Call
    <2>4. LaunchedOnce(i)'
      BY <1>1, <1>3, <1>4, <1>11, <2>1, <2>2, JobType DEF LaunchedOnce, CallMatchesRow, Call, Untouched
    <2>5. AnswersHold(i)'
      BY <1>1, <1>3, <1>4, <1>8, <1>11, <2>1, <2>2, JobType DEF AnswersHold, UpFades, Call, Untouched, Stopped
    <2>6. SettledIsOver(i)'
      BY <1>1, <1>3, <1>4, <1>11, <2>1, <2>2, JobType
         DEF SettledIsOver, CallMatchesRow, Call, Untouched, Stopped, Final, Reported
    <2> QED BY <1>7, <2>1, <2>3, <2>4, <2>5, <2>6
  <1>12. CASE m.kind = "stopped" /\ m.by = "stop" /\ Ended(i) /\ UNCHANGED <<kind, start, exec, row, waiting, down>>
    <2>1. /\ UNCHANGED <<kind, waiting, down, start, exec, row>>
          /\ grant'[i] = (IF grant[i] = "active" THEN "ended" ELSE "failed")
          /\ j # i => grant'[j] = grant[j]
      BY <1>1, <1>12, BrokerSet DEF Ended
    <2>2. grant[i] = "active" => Stopped(i)
      BY <1>1, <1>4, <1>12 DEF AnswersHold
    <2>3. CallMatchesRow(i)'
      BY <1>3, <1>4, <2>1, JobType DEF CallMatchesRow, Call
    <2>4. LaunchedOnce(i)'
      BY <1>3, <1>4, <2>1, JobType DEF LaunchedOnce, Call, Untouched
    <2>5. AnswersHold(i)'
      BY <1>3, <1>4, <1>8, <2>1, JobType DEF AnswersHold, UpFades, Call, Untouched, Stopped
    <2>6. SettledIsOver(i)'
      BY <1>3, <1>4, <2>1, <2>2, JobType DEF SettledIsOver, Call, Untouched, Stopped
    <2> QED BY <1>7, <2>1, <2>3, <2>4, <2>5, <2>6
  <1>13. CASE UNCHANGED <<kind, grant, start, exec, row, waiting, down>>
    BY <1>1, <1>13, Frames, StillKeeps, JobType DEF Still
  <1>14. CASE OnAnswer(m)
    BY <1>1, <1>9, <1>10, <1>11, <1>12, <1>13, <1>14 DEF OnAnswer
  <1> QED BY <1>2, <1>5, <1>6, <1>13, <1>14 DEF broker

\* hostd takes a message and handles it.
LEMMA HandleStep ==
  ASSUME IInv, NEW j \in Jobs, Handle
  PROVE  JobInv(j)'
  <1>0. /\ Queues /\ down # <<>> /\ down' = Tail(down)
        /\ Once(down, Launches) /\ Once(down, {"open"}) /\ StopsFit(down)
    BY TypeParts DEF IInv, Handle
  <1>1. PICK m \in {Head(down)} : m = Head(down)
    OBVIOUS
  <1>2. /\ \A K, k : Has(down', K, k) => Has(down, K, k)
        /\ \A K : m.kind \in K => Has(down, K, m.job)
        /\ m.kind \in Launches => ~Has(down', Launches, m.job)
        /\ m.kind = "open" => ~Has(down', {"open"}, m.job)
        /\ m.kind \in {"kill", "close"} /\ m.by = "stop" =>
             /\ kind[m.job] = (IF m.kind = "kill" THEN "command" ELSE "shell")
             /\ start[m.job] \in {"over", "dropped"}
        /\ m \in ToHost
    BY <1>0, <1>1, HandleEffect
  <1>3. DownFades(j)
    BY <1>2 DEF DownFades
  <1>4. UNCHANGED <<kind, grant, start, exec, row, waiting>> /\ RowStays(j)
    BY Frames DEF Handle, broker
  <1>5. m.kind # "lockdown" => m.job \in Jobs
    BY <1>2, HostMessage
  <1>6. ASSUME UNCHANGED <<up, proc, open, killed, spool>> PROVE JobInv(j)'
    BY <1>3, <1>4, <1>6, StillKeeps, JobType, Frames DEF Still
  <1>7. ASSUME NEW i \in Jobs, NEW a, Reply(a), a.job = i,
               j # i => HostStays(j),
               CallMatchesRow(i)', LaunchedOnce(i)', AnswersHold(i)', SettledIsOver(i)'
        PROVE  JobInv(j)'
    <2>1. CASE j # i
      <3>1. UpFades(j)
        BY <1>0, <1>7, <2>1, ReplyEffect DEF UpFades
      <3> QED BY <1>3, <1>4, <1>7, <2>1, <3>1, StillKeeps, JobType DEF Still
    <2> QED BY <1>7, <2>1, JobInvPrimed
  <1>8. ASSUME NEW i \in Jobs, i = m.job
        PROVE  /\ CallMatchesRow(i) /\ LaunchedOnce(i) /\ AnswersHold(i) /\ SettledIsOver(i)
               /\ Has(down', Launches, i) => Has(down, Launches, i)
               /\ Has(down', {"open"}, i) => Has(down, {"open"}, i)
               /\ Has(down', {"ack"}, i) => Has(down, {"ack"}, i)
    BY <1>2, <1>8, JobType DEF JobInv
  <1>9. ASSUME NEW a, Reply(a)
        PROVE  /\ \A K, k : Has(up', K, k) => Has(up, K, k) \/ (a.kind \in K /\ a.job = k)
               /\ \A k : StopAnswered(up', k) =>
                           StopAnswered(up, k) \/ (a.kind = "stopped" /\ a.job = k /\ a.by = "stop")
    BY <1>0, <1>9, ReplyEffect
  <1>10. ASSUME NEW i \in Jobs, i = m.job, m.kind \in {"start", "exec", "open"}, Refuse(i) PROVE JobInv(j)'
    <2> DEFINE a == [kind |-> "refused", job |-> i]
    <2>1. a.kind = "refused" /\ a.job = i /\ Reply(a) /\ UNCHANGED <<proc, open, killed, spool>>
      BY <1>10 DEF Refuse, host
    <2> HIDE DEF a
    <2>2. /\ Has(up', {"started"}, i) => Has(up, {"started"}, i)
          /\ Has(up', {"opened"}, i) => Has(up, {"opened"}, i)
          /\ Has(up', Reported, i) => Has(up, Reported, i)
          /\ StopAnswered(up', i) => StopAnswered(up, i)
      BY <1>9, <2>1 DEF Reported
    <2>3. /\ m.kind \in Launches => Has(down, Launches, i) /\ ~Has(down', Launches, i)
          /\ m.kind = "open" => Has(down, {"open"}, i) /\ ~Has(down', {"open"}, i)
          /\ m.kind = "open" \/ m.kind \in Launches
      BY <1>2, <1>10 DEF Launches
    <2>4. CallMatchesRow(i)'
      BY <1>4, <1>8, <1>10, <2>1 DEF CallMatchesRow, Call
    <2>5. LaunchedOnce(i)'
      BY <1>4, <1>8, <1>10, <2>1 DEF LaunchedOnce, Call, Untouched
    <2>6. AnswersHold(i)'
      BY <1>4, <1>8, <1>10, <2>1, <2>2, <2>3, JobType
         DEF AnswersHold, LaunchedOnce, CallMatchesRow, Call, Untouched, Stopped
    <2>7. SettledIsOver(i)'
      BY <1>4, <1>8, <1>10, <2>1 DEF SettledIsOver, Call, Untouched, Stopped
    <2>8. HostStays(j)
      BY <2>1, Frames
    <2> QED BY <1>7, <2>1, <2>4, <2>5, <2>6, <2>7, <2>8
  <1>11. ASSUME NEW i \in Jobs, i = m.job, m.kind \in {"start", "exec"}, LaunchJob(i) PROVE JobInv(j)'
    <2> DEFINE a == [kind |-> "started", job |-> i]
    <2>1. /\ a.kind = "started" /\ a.job = i /\ Reply(a) /\ UNCHANGED <<open, killed>>
          /\ kind[i] = "shell" => i \in open
          /\ proc'[i] = "queued" /\ spool'[i] = "running"
          /\ j # i => proc'[j] = proc[j] /\ spool'[j] = spool[j]
      BY <1>11, HostSet DEF LaunchJob
    <2> HIDE DEF a
    <2>2. /\ Has(up', {"opened"}, i) => Has(up, {"opened"}, i)
          /\ Has(up', {"refused"}, i) => Has(up, {"refused"}, i)
          /\ Has(up', Reported, i) => Has(up, Reported, i)
          /\ StopAnswered(up', i) => StopAnswered(up, i)
      BY <1>9, <2>1 DEF Reported
    <2>3. Has(down, Launches, i) /\ ~Has(down', Launches, i)
      BY <1>2, <1>11 DEF Launches
    <2>4. proc[i] = "none" /\ ~Untouched(i) /\ Call(i) # "new"
      BY <1>8, <1>11, <2>3 DEF LaunchedOnce, Untouched
    <2>5. CallMatchesRow(i)'
      BY <1>4, <1>8, <1>11, <2>1 DEF CallMatchesRow, Call
    <2>6. LaunchedOnce(i)'
      BY <1>4, <1>8, <1>11, <2>1, <2>3, <2>4, JobType DEF LaunchedOnce, Call
    <2>7. AnswersHold(i)'
      BY <1>4, <1>8, <1>11, <2>1, <2>2, <2>3, <2>4, JobType DEF AnswersHold, CallMatchesRow, Call, Stopped
    <2>8. SettledIsOver(i)'
      BY <1>4, <1>8, <1>11, <2>1, <2>3, <2>4, JobType DEF SettledIsOver, CallMatchesRow, Call, Stopped
    <2>9. j # i => HostStays(j)
      BY <2>1 DEF HostStays
    <2> QED BY <1>7, <2>1, <2>5, <2>6, <2>7, <2>8, <2>9
  <1>12. ASSUME NEW i \in Jobs, i = m.job, m.kind = "open", OpenShell(i) PROVE JobInv(j)'
    <2> DEFINE a == [kind |-> "opened", job |-> i]
    <2>1. /\ a.kind = "opened" /\ a.job = i /\ Reply(a) /\ UNCHANGED <<proc, killed, spool>>
          /\ i \in open' /\ (j # i => (j \in open' <=> j \in open))
      BY <1>12 DEF OpenShell
    <2> HIDE DEF a
    <2>2. /\ Has(up', {"started"}, i) => Has(up, {"started"}, i)
          /\ Has(up', {"refused"}, i) => Has(up, {"refused"}, i)
          /\ Has(up', Reported, i) => Has(up, Reported, i)
          /\ StopAnswered(up', i) => StopAnswered(up, i)
      BY <1>9, <2>1 DEF Reported
    <2>3. Has(down, {"open"}, i) /\ ~Has(down', {"open"}, i)
      BY <1>2, <1>12
    <2>4. /\ kind[i] = "shell" /\ start[i] # "new" /\ exec[i] = "new" /\ grant[i] \notin {"active", "ended"}
          /\ Call(i) = "new" /\ ~Has(up, {"refused"}, i)
      BY <1>8, <1>12, <2>3 DEF LaunchedOnce, AnswersHold, Call
    <2>5. CallMatchesRow(i)'
      BY <1>4, <1>8, <1>12, <2>1 DEF CallMatchesRow, Call
    <2>6. LaunchedOnce(i)'
      BY <1>4, <1>8, <1>12, <2>1, <2>3, <2>4, JobType DEF LaunchedOnce, Call, Untouched
    <2>7. AnswersHold(i)'
      BY <1>4, <1>8, <1>12, <2>1, <2>2, <2>3, <2>4, JobType DEF AnswersHold, Call, Untouched
    <2>8. SettledIsOver(i)'
      BY <1>4, <1>8, <1>12, <2>1, <2>4, JobType DEF SettledIsOver, Call, Untouched
    <2>9. j # i => HostStays(j)
      BY <2>1 DEF HostStays
    <2> QED BY <1>7, <2>1, <2>5, <2>6, <2>7, <2>8, <2>9
  <1>13. ASSUME NEW i \in Jobs, i = m.job, NEW by, by = m.by,
                \/ m.kind = "close" /\ EndShell(i) /\ Reply([kind |-> "stopped", job |-> i, by |-> by])
                \/ m.kind = "kill" /\ KillJob(i, by)
         PROVE  JobInv(j)'
    <2> DEFINE a == [kind |-> "stopped", job |-> i, by |-> by]
    <2>1. /\ a.kind = "stopped" /\ a.job = i /\ a.by = by /\ Reply(a) /\ UNCHANGED spool
          /\ i \in open' => i \in open
          /\ i \in killed => i \in killed'
          /\ j # i => proc'[j] = proc[j] /\ (j \in open' <=> j \in open) /\ (j \in killed' <=> j \in killed)
      BY <1>13, HostSet DEF EndShell, KillJob
    <2> HIDE DEF a
    <2>2. \/ /\ m.kind = "close" /\ i \notin open' /\ proc'[i] = proc[i]
             /\ i \in open /\ proc[i] \in InJobs => i \in killed'
          \/ /\ m.kind = "kill" /\ (i \in open' <=> i \in open)
             /\ proc[i] \in InJobs => i \in killed'
             /\ proc'[i] = proc[i] \/ (proc[i] = "orphan" /\ proc'[i] = "ended")
      BY <1>13, HostSet DEF EndShell, KillJob
    <2>3. /\ Has(up', {"started"}, i) => Has(up, {"started"}, i)
          /\ Has(up', {"opened"}, i) => Has(up, {"opened"}, i)
          /\ Has(up', {"refused"}, i) => Has(up, {"refused"}, i)
          /\ Has(up', Reported, i) => Has(up, Reported, i)
          /\ StopAnswered(up', i) => StopAnswered(up, i) \/ by = "stop"
      BY <1>9, <2>1 DEF Reported
    <2>4. by = "stop" => /\ kind[i] = (IF m.kind = "kill" THEN "command" ELSE "shell")
                         /\ start[i] \in {"over", "dropped"}
      BY <1>2, <1>13
    <2>5. Stopped(i) => Stopped(i)'
      BY <2>1, <2>2 DEF Stopped
    <2>6. by = "stop" => Stopped(i)'
      BY <1>8, <1>13, <2>1, <2>2, <2>4 DEF LaunchedOnce, Stopped, InJobs
    <2>7. CallMatchesRow(i)'
      BY <1>4, <1>8, <1>13, <2>2 DEF CallMatchesRow, Call
    <2>8. LaunchedOnce(i)'
      BY <1>4, <1>8, <1>13, <2>1, <2>2, JobType DEF LaunchedOnce, Call, Untouched, InJobs
    <2>9. AnswersHold(i)'
      BY <1>4, <1>8, <1>13, <2>1, <2>2, <2>3, <2>4, <2>5, <2>6, JobType DEF AnswersHold, Call, Untouched
    <2>10. SettledIsOver(i)'
      BY <1>4, <1>8, <1>13, <2>1, <2>2, <2>5, JobType DEF SettledIsOver, Call, Untouched, InJobs
    <2>11. j # i => HostStays(j)
      BY <2>1 DEF HostStays
    <2> QED BY <1>7, <2>1, <2>7, <2>8, <2>9, <2>10, <2>11
  <1>14. ASSUME NEW i \in Jobs, i = m.job, m.kind = "ack", AckJob(i) PROVE JobInv(j)'
    <2>1. /\ UNCHANGED <<up, proc, open, killed>>
          /\ j # i => spool'[j] = spool[j]
          /\ spool'[i] \in {spool[i], "none"}
      BY <1>14, HostSet DEF AckJob
    <2>2. row[i] \in Final
      BY <1>2, <1>8, <1>14 DEF SettledIsOver
    <2>3. CASE j # i
      <3>1. HostStays(j)
        BY <2>1, <2>3 DEF HostStays
      <3> QED BY <1>3, <1>4, <2>1, <3>1, StillKeeps, JobType, Frames DEF Still
    <2>4. CASE j = i
      <3>1. CallMatchesRow(i)'
        BY <1>4, <1>8, <1>14, <2>1 DEF CallMatchesRow, Call
      <3>2. LaunchedOnce(i)'
        BY <1>4, <1>8, <1>14, <2>1, <2>2 DEF LaunchedOnce, Call, Untouched
      <3>3. AnswersHold(i)'
        BY <1>4, <1>8, <1>14, <2>1 DEF AnswersHold, Call, Untouched, Stopped
      <3>4. SettledIsOver(i)'
        BY <1>4, <1>8, <1>14, <2>1, <2>2 DEF SettledIsOver, Call, Untouched, Stopped
      <3> QED BY <2>4, <3>1, <3>2, <3>3, <3>4, JobInvPrimed
    <2> QED BY <2>3, <2>4
  <1>15. \/ m.kind \in {"start", "exec"} /\ (Refuse(m.job) \/ LaunchJob(m.job))
         \/ m.kind = "open" /\ (Refuse(m.job) \/ OpenShell(m.job))
         \/ /\ m.kind = "close" /\ EndShell(m.job)
            /\ Reply([kind |-> "stopped", job |-> m.job, by |-> m.by])
         \/ m.kind = "kill" /\ KillJob(m.job, m.by)
         \/ m.kind = "ack" /\ AckJob(m.job)
         \/ UNCHANGED <<proc, open, killed, spool, up>>
    BY <1>1 DEF Handle
  <1> QED BY <1>5, <1>6, <1>10, <1>11, <1>12, <1>13, <1>14, <1>15

\* Every step keeps what is known of every job.
LEMMA JobsPreserved == IInv /\ [Next]_vars => \A j \in Jobs : JobInv(j)'
  <1> SUFFICES ASSUME IInv, [Next]_vars, NEW j \in Jobs PROVE JobInv(j)'
    OBVIOUS
  <1>1. ASSUME Still(j) PROVE JobInv(j)'
    BY <1>1, StillKeeps, JobType
  <1>2. ASSUME NEW i \in Jobs, StartCall(i) \/ ExecCall(i) PROVE JobInv(j)'
    BY <1>2, CallSteps
  <1>3. ASSUME NEW i \in Jobs,
               \/ StartOffline(i) \/ StartTimeout(i) \/ ExecNotSent(i) \/ ExecTimeout(i) \/ EndUnasked(i) \/ MarkLost(i)
        PROVE  JobInv(j)'
    BY <1>3, BrokerSteps
  <1>4. ASSUME NEW i \in Jobs, KillCall(i) \/ KillMissed(i) \/ StopTimeout(i) PROVE JobInv(j)'
    BY <1>1, <1>4, QuietSteps
  <1>5. ASSUME NEW i \in Jobs, StopCall(i) PROVE JobInv(j)'
    BY <1>5, StopCallStep
  <1>6. ASSUME NEW i \in Jobs, NEW outcome \in Reported,
               StoreWaiting(i, outcome) \/ GiveUpWaiting(i, outcome)
        PROVE  JobInv(j)'
    BY <1>1, <1>6, StoreWaitingStep, QuietSteps
  <1>7. ASSUME NEW i \in Jobs,
               CheckLock(i) \/ Execute(i) \/ Exit(i) \/ OrphanEnds(i) \/ Finish(i) \/ FinishUnspooled(i)
        PROVE  JobInv(j)'
    BY <1>7, HostSteps
  <1>8. ASSUME NEW i \in Jobs, SendResult(i) \/ ShellExpires(i) PROVE JobInv(j)'
    BY <1>8, SendResultStep, ShellExpiresStep
  <1>9. CASE Receive \/ Handle
    BY <1>9, ReceiveStep, HandleStep
  <1>10. CASE \/ BrokerLock \/ BrokerTell \/ TellDropped \/ OnConnect \/ OnConnectFails \/ BrokerUnlock
              \/ LocalLock \/ Unlock \/ Cut \/ Reconnect \/ UNCHANGED vars
    BY <1>1, <1>10, QuietSteps
  <1>11. ASSUME NEW who \in {"broker", "local"}, LockSweep(who) PROVE JobInv(j)'
    BY <1>11, LockSweepStep
  <1>12. CASE BrokerCrash \/ HostCrash
    BY <1>12, BrokerCrashStep, HostCrashStep
  <1>13. ASSUME NEW i \in Jobs, StartTorn(i) \/ ExecTorn(i) PROVE JobInv(j)'
    BY <1>13, TornStep
  <1> QED BY <1>2, <1>3, <1>4, <1>5, <1>6, <1>7, <1>8, <1>9, <1>10, <1>11, <1>12, <1>13 DEF Next

LEMMA InitEstablishes == Init => IInv
  <1> SUFFICES ASSUME Init PROVE IInv
    OBVIOUS
  <1>1. TypeOK
    BY QueueMoves DEF Init, TypeOK, Stage
  <1>2. Once(down, Launches) /\ Once(down, {"open"}) /\ StopsFit(down)
    BY HasEmpty DEF Init
  <1>3. \A K, j : ~Has(down, K, j) /\ ~Has(up, K, j) /\ ~StopAnswered(up, j)
    BY HasEmpty DEF Init
  <1>4. ASSUME NEW j \in Jobs PROVE JobInv(j)
    <2>1. /\ grant[j] = "provisioning" /\ start[j] = "new" /\ exec[j] = "new" /\ row[j] = "none"
          /\ waiting[j] = {} /\ proc[j] = "none" /\ spool[j] = "none" /\ open = {}
      BY DEF Init
    <2>2. CallMatchesRow(j) /\ LaunchedOnce(j)
      BY <1>3, <2>1 DEF CallMatchesRow, LaunchedOnce, Call, Untouched, InJobs
    <2>3. AnswersHold(j) /\ SettledIsOver(j)
      BY <1>3, <2>1 DEF AnswersHold, SettledIsOver, Reported
    <2> QED BY <2>2, <2>3 DEF JobInv
  <1>5. NothingRunsLocked
    BY DEF Init, NothingRunsLocked
  <1> QED BY <1>1, <1>2, <1>4, <1>5 DEF IInv

(***************************************************************************)
(* The theorems.                                                           *)
(***************************************************************************)

\* The inductive invariant holds in every reachable state, for every finite set
\* of jobs and every bound on faults, lockdowns and messages in flight: torn
\* calls, failing hooks and results that were not spooled included.
THEOREM Invariance == Spec => []IInv
  <1>1. IInv /\ [Next]_vars => IInv'
    <2> SUFFICES ASSUME IInv, [Next]_vars PROVE IInv'
      OBVIOUS
    <2>1. TypeOK /\ NothingRunsLocked
      BY DEF IInv
    <2>2. TypeOK' /\ NothingRunsLocked'
      BY <2>1, TypePreserved, LockPreserved
    <2>3. Singles(down)'
      BY SinglesPreserved
    <2>4. \A j \in Jobs : JobInv(j)'
      BY JobsPreserved
    <2> QED BY <2>2, <2>3, <2>4 DEF IInv, Singles
  <1> QED BY <1>1, InitEstablishes, PTL DEF Spec

\* The rows, the calls, what is in flight and what hostd keeps have their types
\* throughout (HostExec, Hostd, Spool).
THEOREM TypeCorrect == Spec => []TypeOK
  <1>1. IInv => TypeOK
    BY DEF IInv
  <1> QED BY <1>1, Invariance, PTL

\* A job recorded as refused never ran and never will, whatever raced the call's
\* answer (HostExec::start, shell_exec), unless its call was torn off with the
\* connection: deliver calls that one not written, though hostd may get it.
THEOREM RefusedStaysRefused == Spec => []RefusedNeverRan
  <1>1. IInv => RefusedNeverRan
    <2> SUFFICES ASSUME IInv, NEW j \in Jobs, row[j] = "refused", Call(j) # "torn"
                 PROVE  proc[j] = "none" /\ spool[j] = "none" /\ ~StartInFlight(j)
      BY DEF RefusedNeverRan
    <2>1. Untouched(j)
      BY JobType DEF JobInv, SettledIsOver
    <2> QED BY <2>1 DEF Untouched, StartInFlight, Has, Launches
  <1> QED BY <1>1, Invariance, PTL

\* hostd drops the outcome of a job with a committed row only when the row has
\* settled (on_done, Spool::ack, Spool::recover).
THEOREM NoResultIsDropped == Spec => []ResultKept
  <1>1. IInv => ResultKept
    <2> SUFFICES ASSUME IInv, NEW j \in Jobs, row[j] # "none", proc[j] # "none", spool[j] = "none"
                 PROVE  row[j] \in Final
      BY DEF ResultKept
    <2>1. Call(j) \in {"over", "torn"} /\ (row[j] \in Final \/ Call(j) = "dropped")
      BY JobType DEF JobInv, CallMatchesRow, SettledIsOver
    <2> QED BY <2>1
  <1> QED BY <1>1, Invariance, PTL

\* An active grant that the broker has ended is closed at the host and its
\* process told to stop (HostExec::stop).
THEOREM EndedMeansStopped == Spec => []StoppedMeansKilled
  <1>1. IInv => StoppedMeansKilled
    BY JobType DEF JobInv, SettledIsOver, Stopped, StoppedMeansKilled
  <1> QED BY <1>1, Invariance, PTL

\* After a lockdown nothing runs that was not told to stop (Hostd::lockdown,
\* run_job, recover).
THEOREM LockedHostIsQuiet == Spec => []NothingRunsLocked
  <1>1. IInv => NothingRunsLocked
    BY DEF IInv
  <1> QED BY <1>1, Invariance, PTL
=============================================================================
