---------------------------- MODULE ActivityFeed ----------------------------
(***************************************************************************)
(* The a2a events feed: writers stamp the threads they touch with the      *)
(* activity clock, and a reader pages through what changed after its       *)
(* cursor.  A stamp is taken before the writing transaction commits, so    *)
(* transactions may commit in another order than their stamps; the clock's *)
(* horizon keeps the reader below every stamp still in flight.             *)
(*                                                                         *)
(* There is one reader, and every thread is in its view.  Time is counted  *)
(* in the clock's own unit, TICK.                                          *)
(***************************************************************************)
EXTENDS Naturals, FiniteSets

CONSTANTS
    Threads,    \* thread ids, which break ties in the feed's order
    Limit,      \* LIST_LIMIT
    MaxWriters, \* bound: transactions in flight
    MaxWall,    \* bound: the wall clock
    MaxStamp,   \* bound: the last stamp handed out
    MaxBoots    \* bound: restarts of the broker

ASSUME ThreadAssumption == Threads \subseteq Nat /\ IsFiniteSet(Threads)
ASSUME LimitAssumption  == Limit \in Nat \ {0}
ASSUME BoundAssumption  ==
    MaxWriters \in Nat /\ MaxWall \in Nat /\ MaxStamp \in Nat /\ MaxBoots \in Nat

VARIABLES
    wall,     \* the wall clock; it may step back
    last,     \* ActivityClock.last
    flight,   \* ActivityClock.in_flight: a stamp, and has its transaction committed?
    act,      \* a2a_threads.last_activity_at; 0 while there is no thread
    closed,   \* closed threads
    horizon,  \* the horizon of the poll under way; 0 between polls
    cursor,   \* the reader's cursor; 0 before it has one
    unseen,   \* threads with committed activity the reader has not been given
    early,    \* threads closed before the reader had a cursor
    floor,    \* above every stamp of the broker's earlier processes
    boots

clock  == <<last, flight>>
rows   == <<act, closed>>
reader == <<horizon, cursor, unseen, early>>
past   == <<floor, boots>>
vars   == <<wall, clock, rows, reader, past>>

TypeOK ==
    /\ wall \in Nat /\ last \in Nat /\ floor \in Nat /\ boots \in Nat
    /\ flight \in SUBSET [at : Nat \ {0}, done : BOOLEAN]
    /\ act \in [Threads -> Nat]
    /\ closed \in SUBSET Threads
    /\ horizon \in 0..(last + 1) /\ cursor \in Nat
    /\ unseen \in SUBSET Threads /\ early \in SUBSET Threads

Init ==
    /\ wall = 0 /\ last = 0 /\ floor = 0 /\ boots = 0
    /\ flight = {}
    /\ act = [t \in Threads |-> 0]
    /\ closed = {}
    /\ horizon = 0 /\ cursor = 0
    /\ unseen = {} /\ early = {}

Greatest(x, y) == IF x >= y THEN x ELSE y

\* now().max(last + TICK).
Fresh == Greatest(wall, last + 1)

\* ActivityClock::stamp.
Stamp ==
    /\ Cardinality(flight) < MaxWriters
    /\ Fresh <= MaxStamp
    /\ last' = Fresh
    /\ flight' = flight \cup {[at |-> Fresh, done |-> FALSE]}
    /\ UNCHANGED <<wall, rows, reader, past>>

Committed(w) == flight' = (flight \ {w}) \cup {[w EXCEPT !.done = TRUE]}

\* A transaction opens a thread, or accepts or sends on one.
CommitTouch(w, t) ==
    /\ w \in flight /\ ~w.done /\ t \notin closed
    /\ Committed(w)
    /\ act' = [act EXCEPT ![t] = w.at]
    /\ unseen' = unseen \cup {t}
    /\ UNCHANGED <<wall, last, closed, horizon, cursor, early, past>>

\* A transaction closes threads: one (close), or any number with one stamp
\* (sweep, end_session, close_with).
CommitClose(w, T) ==
    /\ w \in flight /\ ~w.done
    /\ T # {}
    /\ \A t \in T : act[t] # 0 /\ t \notin closed
    /\ Committed(w)
    /\ act' = [t \in Threads |-> IF t \in T THEN w.at ELSE act[t]]
    /\ closed' = closed \cup T
    /\ unseen' = unseen \cup T
    /\ early' = IF cursor = 0 THEN early \cup T ELSE early
    /\ UNCHANGED <<wall, last, horizon, cursor, past>>

\* Mutant: the stamp of a transaction that rolls back is never dropped.
DropCommitted(w) ==
    /\ w \in flight /\ w.done
    /\ flight' = flight \ {w}
    /\ UNCHANGED <<wall, last, rows, reader, past>>

\* Stamp::drop, after the commit or a rollback.
Drop(w) ==
    /\ w \in flight
    /\ flight' = flight \ {w}
    /\ UNCHANGED <<wall, last, rows, reader, past>>

\* Mutant: the horizon does not look at the stamps in flight.
HorizonNoFlight ==
    /\ horizon = 0
    /\ horizon' = Fresh
    /\ last' = Greatest(last, Fresh - 1)
    /\ UNCHANGED <<wall, flight, rows, cursor, unseen, early, past>>

\* Mutant: the horizon handed out is not remembered.
HorizonForgotten ==
    /\ horizon = 0
    /\ \/ \E w \in flight : (\A v \in flight : w.at <= v.at) /\ horizon' = w.at
       \/ flight = {} /\ horizon' = Fresh
    /\ UNCHANGED <<wall, clock, rows, cursor, unseen, early, past>>

\* ActivityClock::horizon_settling, before the poll's query.
Horizon ==
    /\ horizon = 0
    /\ \/ /\ flight # {}
          /\ \E w \in flight : (\A v \in flight : w.at <= v.at) /\ horizon' = w.at
          /\ UNCHANGED last
       \/ /\ flight = {}
          /\ horizon' = Fresh
          /\ last' = Greatest(last, Fresh - 1)
    /\ UNCHANGED <<wall, flight, rows, cursor, unseen, early, past>>

\* Mutant: the cursor is not compared strictly.
ActivityBeforeAgain ==
    {t \in Threads : /\ act[t] # 0 /\ act[t] < horizon
                     /\ IF cursor = 0 THEN t \notin closed ELSE act[t] >= cursor}

\* store::a2a::activity_before.
ActivityBefore ==
    {t \in Threads : /\ act[t] # 0 /\ act[t] < horizon
                     /\ IF cursor = 0 THEN t \notin closed ELSE act[t] > cursor}

\* ORDER BY last_activity_at, id.
Precedes(t, u) == act[t] < act[u] \/ (act[t] = act[u] /\ t < u)
FirstOf(R, n) == {t \in R : Cardinality({u \in R : Precedes(u, t)}) < n}

\* At most Limit rows, and not some but not all rows of one stamp (unless the
\* page holds no other).
Page(R) ==
    IF Cardinality(R) <= Limit THEN R
    ELSE LET cut == CHOOSE t \in FirstOf(R, Limit + 1) \ FirstOf(R, Limit) : TRUE
             kept == {t \in FirstOf(R, Limit) : act[t] # act[cut]}
         IN  IF kept # {} THEN kept ELSE FirstOf(R, Limit)

\* The query of events_snapshot_settling, the page and the new cursor.
Query ==
    /\ horizon # 0
    /\ \E P \in {Page(ActivityBefore)} :
          /\ cursor' = IF P = {} THEN cursor
                       ELSE CHOOSE c \in {act[t] : t \in P} : \A t \in P : act[t] <= c
          /\ unseen' = unseen \ P
    /\ horizon' = 0
    /\ UNCHANGED <<wall, clock, rows, early, past>>

\* The wall clock moves, forward or back.  Assumed: never back across a restart
\* to a time an earlier process has already handed out.
SetWall(w) ==
    /\ w # wall /\ w >= floor
    /\ wall' = w
    /\ UNCHANGED <<clock, rows, reader, past>>

\* A restart forgets the clock; transactions in flight are over.
Restart ==
    /\ boots < MaxBoots
    /\ wall > last
    /\ boots' = boots + 1 /\ floor' = Greatest(floor, last + 1)
    /\ last' = 0 /\ flight' = {} /\ horizon' = 0
    /\ UNCHANGED <<wall, rows, cursor, unseen, early>>

Next ==
    \/ Stamp
    \/ \E w \in flight : \/ \E t \in Threads : CommitTouch(w, t)
                         \/ \E T \in SUBSET Threads : CommitClose(w, T)
                         \/ Drop(w)
    \/ Horizon
    \/ Query
    \/ \E w \in 0..MaxWall : SetWall(w)
    \/ Restart

Spec == Init /\ [][Next]_vars

(***************************************************************************)
(* Every transaction ends and its stamp is dropped; the reader polls       *)
(* again and again.                                                        *)
(***************************************************************************)
Fairness ==
    /\ WF_vars(\E w \in flight : Drop(w))
    /\ WF_vars(Horizon) /\ WF_vars(Query)

FairSpec == Spec /\ Fairness

\* A stamp is on more threads than a page holds.
Overfull(stamp) == Cardinality({t \in Threads : act[t] = stamp}) > Limit

\* No activity is skipped: what the reader has not been given lies above its
\* cursor, whatever the order in which transactions committed.  (Threads that
\* ended before the reader had a cursor are not announced to it.)  The exception
\* is a stamp on more threads than a page holds: the page is cut inside it, and
\* the strict cursor passes the rest.
NoneSkipped == cursor # 0 => \A t \in unseen \ early : act[t] > cursor \/ Overfull(act[t])

\* None is repeated: whatever a poll's query would answer with, at any moment
\* after the horizon was taken, has not been given to the reader yet.
NoneRepeated == horizon # 0 => ActivityBefore \subseteq unseen

\* Activity is delivered in the end, although a poll holds it back while an
\* older transaction is in flight and pages are short, unless the thread is
\* closed together with more threads than a page holds.
Delivered == \A t \in Threads :
    (t \in unseen) ~> (t \notin unseen \/ t \in early \/ Overfull(act[t]))

(***************************************************************************)
(* The inductive invariant (see ActivityFeedProofs).                       *)
(***************************************************************************)

\* Above every stamp and horizon handed out so far, also by earlier processes.
Top == Greatest(last + 1, floor)

\* Whatever is committed or given lies below what the clock hands out next.
BelowTop ==
    wall >= floor /\ cursor < Top /\ \A t \in Threads : act[t] < Top

\* A stamp in flight is one nobody else has, above the reader's cursor and not
\* below the horizon of its poll.
StampsInFlight ==
    \A w \in flight :
        /\ w.at <= last /\ cursor < w.at
        /\ horizon # 0 => horizon <= w.at
        /\ \A v \in flight : v.at = w.at => v = w
        /\ ~w.done => \A t \in Threads : act[t] # w.at

\* Only closing gives one stamp to several threads, and they keep it.
SharedAreClosed ==
    \A t, u \in Threads : act[t] # 0 /\ act[t] = act[u] /\ t # u => t \in closed

\* What the reader was given lies up to its cursor; what it was not has activity.
GivenIsBelow ==
    \A t \in Threads :
        /\ act[t] # 0 /\ t \notin unseen => cursor # 0 /\ act[t] <= cursor
        /\ t \in unseen => act[t] # 0

EarlyAreClosed == cursor = 0 => closed \subseteq early

IInv ==
    TypeOK /\ BelowTop /\ StampsInFlight /\ SharedAreClosed /\ GivenIsBelow /\ EarlyAreClosed /\ NoneSkipped
=============================================================================
