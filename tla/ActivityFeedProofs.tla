-------------------------- MODULE ActivityFeedProofs --------------------------
(***************************************************************************)
(* Proofs about ActivityFeed, for every finite set of threads, every page  *)
(* size and every bound.                                                   *)
(***************************************************************************)
EXTENDS ActivityFeed, FiniteSetTheorems, TLAPS

(***************************************************************************)
(* The order of the feed and its pages.                                    *)
(***************************************************************************)

\* How many of R come before t.
Rank(R, t) == Cardinality({u \in R : Precedes(u, t)})

\* ORDER BY last_activity_at, id is a strict total order.
LEMMA TotalOrder ==
  ASSUME act \in [Threads -> Nat]
  PROVE  /\ \A t \in Threads : ~Precedes(t, t)
         /\ \A t, u \in Threads : t = u \/ Precedes(t, u) \/ Precedes(u, t)
         /\ \A t, u, v \in Threads : Precedes(t, u) /\ Precedes(u, v) => Precedes(t, v)
         /\ \A t, u \in Threads : Precedes(t, u) => act[t] <= act[u] /\ act[t] \in Nat /\ act[u] \in Nat
  <1>1. \A t \in Threads : t \in Nat /\ act[t] \in Nat
    BY ThreadAssumption
  <1> QED BY <1>1 DEF Precedes

\* A thread's rank grows along the order and is smaller than the set.
LEMMA RankGrows ==
  ASSUME act \in [Threads -> Nat], NEW R \in SUBSET Threads
  PROVE  /\ IsFiniteSet(R) /\ Cardinality(R) \in Nat
         /\ \A t \in R : Rank(R, t) \in Nat /\ Rank(R, t) < Cardinality(R)
         /\ \A t, u \in R : Precedes(t, u) => Rank(R, t) < Rank(R, u)
         /\ \A t, u \in R : Rank(R, t) < Rank(R, u) => Precedes(t, u)
  <1> DEFINE Before(t) == {v \in R : Precedes(v, t)}
  <1>1. IsFiniteSet(R) /\ Cardinality(R) \in Nat
    BY ThreadAssumption, FS_Subset, FS_CardinalityType
  <1>2. \A T \in SUBSET R : IsFiniteSet(T) /\ Cardinality(T) \in Nat
    BY <1>1, FS_Subset, FS_CardinalityType
  <1>3. \A S, T \in SUBSET R : S \subseteq T /\ S # T => Cardinality(S) < Cardinality(T)
    <2> SUFFICES ASSUME NEW S \in SUBSET R, NEW T \in SUBSET R, S \subseteq T, S # T
                 PROVE  Cardinality(S) < Cardinality(T)
      OBVIOUS
    <2>1. Cardinality(S) <= Cardinality(T) /\ (Cardinality(T) = Cardinality(S) => T = S)
      BY <1>2, FS_Subset
    <2> QED BY <1>2, <2>1
  <1>4. \A t \in R : Before(t) \in SUBSET R /\ Before(t) # R
    BY TotalOrder
  <1>5. \A t, u \in R : Precedes(t, u) => Before(t) \subseteq Before(u) /\ Before(t) # Before(u)
    <2> SUFFICES ASSUME NEW t \in R, NEW u \in R, Precedes(t, u)
                 PROVE  Before(t) \subseteq Before(u) /\ Before(t) # Before(u)
      OBVIOUS
    <2>1. t \in Before(u) /\ t \notin Before(t)
      BY TotalOrder
    <2>2. Before(t) \subseteq Before(u)
      BY TotalOrder
    <2> QED BY <2>1, <2>2
  <1>6. \A t \in R : Rank(R, t) = Cardinality(Before(t))
    BY DEF Rank
  <1> HIDE DEF Before
  <1>7. \A t \in R : Rank(R, t) \in Nat /\ Rank(R, t) < Cardinality(R)
    BY <1>2, <1>3, <1>4, <1>6
  <1>8. \A t, u \in R : Precedes(t, u) => Rank(R, t) < Rank(R, u)
    BY <1>3, <1>4, <1>5, <1>6
  <1>9. \A t, u \in R : Rank(R, t) < Rank(R, u) => Precedes(t, u)
    BY <1>7, <1>8, TotalOrder
  <1> QED BY <1>1, <1>7, <1>8, <1>9

\* Every rank below the size of the set is some thread's.
LEMMA RankTaken ==
  ASSUME act \in [Threads -> Nat], NEW R \in SUBSET Threads, NEW n \in Nat, n < Cardinality(R)
  PROVE  \E t \in R : Rank(R, t) = n
  <1> SUFFICES ASSUME \A t \in R : Rank(R, t) # n PROVE FALSE
    OBVIOUS
  <1> DEFINE c == Cardinality(R)
             I == (0 .. (c - 1)) \ {n}
             f == [t \in R |-> Rank(R, t)]
  <1>1. /\ IsFiniteSet(R) /\ c \in Nat
        /\ \A t \in R : Rank(R, t) \in Nat /\ Rank(R, t) < c
        /\ \A t, u \in R : Precedes(t, u) => Rank(R, t) < Rank(R, u)
    BY RankGrows
  <1>2. n < c
    OBVIOUS
  <1> HIDE DEF c
  <1>3. IsFiniteSet(0 .. (c - 1)) /\ Cardinality(0 .. (c - 1)) = c
    <2>1. 0 \in Int /\ c - 1 \in Int /\ ~(0 > c - 1) /\ (c - 1) - 0 + 1 = c
      BY <1>1, <1>2
    <2>2. /\ IsFiniteSet(0 .. (c - 1))
          /\ Cardinality(0 .. (c - 1)) = IF 0 > c - 1 THEN 0 ELSE (c - 1) - 0 + 1
      BY <2>1, FS_Interval
    <2> QED BY <2>1, <2>2
  <1>4. IsFiniteSet(I) /\ Cardinality(I) = c - 1
    <2>1. n \in 0 .. (c - 1)
      BY <1>1, <1>2
    <2> DEFINE S == 0 .. (c - 1)
    <2>2. IsFiniteSet(S) /\ n \in S /\ Cardinality(S) = c
      BY <1>3, <2>1
    <2> HIDE DEF S
    <2>3. IsFiniteSet(S \ {n}) /\ Cardinality(S \ {n}) = c - 1
      BY <2>2, FS_RemoveElement
    <2> QED BY <2>3 DEF S
  <1>5. f \in [R -> I]
    BY <1>1
  <1>6. Cardinality(I) < Cardinality(R)
    BY <1>1, <1>4 DEF c
  <1> HIDE DEF I, f
  <1>7. \E t, u \in R : t # u /\ f[t] = f[u]
    BY <1>1, <1>4, <1>5, <1>6, FS_PigeonHole
  <1>8. PICK t \in R, u \in R : t # u /\ Rank(R, t) = Rank(R, u)
    BY <1>7 DEF f
  <1> QED BY <1>1, <1>8, TotalOrder

\* The greatest stamp on a page is on it.
LEMMA GreatestStamp ==
  ASSUME act \in [Threads -> Nat], NEW P \in SUBSET Threads, P # {}
  PROVE  \E s \in P : \A t \in P : act[t] <= act[s]
  <1>1. Cardinality(P) \in Nat /\ Cardinality(P) # 0
    BY RankGrows, FS_EmptySet
  <1> DEFINE n == Cardinality(P) - 1
  <1>2. n \in Nat /\ n < Cardinality(P)
    BY <1>1
  <1>3. PICK s \in P : Rank(P, s) = n
    BY <1>2, RankTaken
  <1>4. ASSUME NEW t \in P PROVE act[t] <= act[s]
    <2>1. ~Precedes(s, t)
      BY <1>1, <1>3, RankGrows
    <2>2. t = s \/ Precedes(t, s)
      BY <2>1, TotalOrder
    <2> QED BY <2>2, TotalOrder
  <1> QED BY <1>4

\* What a page leaves lies above everything it has, unless it cuts through a
\* stamp that no page holds.
LEMMA PageIsPrefix ==
  ASSUME act \in [Threads -> Nat], NEW R \in SUBSET Threads
  PROVE  /\ Page(R) \subseteq R
         /\ \A t \in Page(R), u \in R \ Page(R) :
               act[t] < act[u] \/ (act[t] = act[u] /\ Overfull(act[u]))
  <1>1. CASE Cardinality(R) <= Limit
    BY <1>1 DEF Page
  <1>2. CASE ~(Cardinality(R) <= Limit)
    <2> DEFINE F    == FirstOf(R, Limit)
               G    == FirstOf(R, Limit + 1) \ FirstOf(R, Limit)
               cut  == CHOOSE t \in G : TRUE
               kept == {t \in F : act[t] # act[cut]}
    <2>0. Limit \in Nat \ {0} /\ Limit < Cardinality(R)
      BY <1>2, LimitAssumption, RankGrows
    <2>1. /\ \A t \in R : t \in F <=> Rank(R, t) < Limit
          /\ \A t \in R : t \in G <=> Rank(R, t) = Limit
          /\ F \subseteq R /\ G \subseteq R
      BY <2>0, RankGrows DEF FirstOf, Rank
    <2>2. \E t \in R : Rank(R, t) = Limit
      BY <2>0, RankTaken
    <2>3. Page(R) = IF kept # {} THEN kept ELSE F
      BY <1>2 DEF Page
    <2> HIDE DEF F, G
    <2>4. cut \in R /\ Rank(R, cut) = Limit
      BY <2>1, <2>2
    <2> HIDE DEF cut
    <2>5. \A t \in F : Precedes(t, cut) /\ act[t] <= act[cut]
      BY <2>1, <2>4, RankGrows, TotalOrder
    <2>6. \A u \in R \ F : act[cut] <= act[u]
      <3> SUFFICES ASSUME NEW u \in R, u \notin F PROVE act[cut] <= act[u]
        OBVIOUS
      <3>1. ~(Rank(R, u) < Rank(R, cut))
        BY <2>1, <2>4
      <3>2. ~Precedes(u, cut)
        BY <2>4, <3>1, RankGrows
      <3>3. u = cut \/ Precedes(cut, u)
        BY <2>4, <3>2, TotalOrder
      <3> QED BY <2>4, <3>3, TotalOrder
    <2>7. \A t \in R : act[t] \in Nat
      OBVIOUS
    <2>8. kept = {} => Overfull(act[cut])
      <3> SUFFICES ASSUME kept = {} PROVE Overfull(act[cut])
        OBVIOUS
      <3> DEFINE B == {u \in R : Precedes(u, cut)}
                 E == {t \in Threads : act[t] = act[cut]}
      <3>1. Cardinality(B) = Limit
        BY <2>4 DEF Rank
      <3>2. B \subseteq F /\ cut \notin B
        BY <2>1, <2>4, RankGrows, TotalOrder
      <3>3. B \cup {cut} \subseteq E
        BY <2>1, <2>4, <3>2
      <3>5. IsFiniteSet(B) /\ IsFiniteSet(E) /\ Cardinality(E) \in Nat
        BY ThreadAssumption, FS_Subset, FS_CardinalityType
      <3> HIDE DEF B, E
      <3>6. IsFiniteSet(B \cup {cut}) /\ Cardinality(B \cup {cut}) = Limit + 1
        BY <3>1, <3>2, <3>5, FS_AddElement
      <3>7. Cardinality(B \cup {cut}) <= Cardinality(E)
        BY <3>3, <3>5, FS_Subset
      <3>8. Cardinality(E) > Limit
        BY <2>0, <3>5, <3>6, <3>7
      <3> QED BY <3>8 DEF Overfull, E
    <2>9. kept \subseteq R
      BY <2>1
    <2>10. ASSUME NEW t \in kept, NEW u \in R \ kept PROVE act[t] < act[u]
      <3>1. act[t] < act[cut]
        BY <2>1, <2>4, <2>5, <2>7
      <3>2. act[cut] <= act[u]
        BY <2>4, <2>6, <2>7
      <3> QED BY <2>4, <2>7, <2>9, <3>1, <3>2
    <2>11. CASE kept # {}
      <3>1. Page(R) = kept
        BY <2>3, <2>11
      <3> QED BY <2>9, <2>10, <3>1
    <2>12. CASE kept = {}
      <3>1. Page(R) = F /\ F \subseteq R
        BY <2>1, <2>3, <2>12
      <3>2. \A t \in F : act[t] = act[cut]
        BY <2>12
      <3>3. ASSUME NEW t \in F, NEW u \in R \ F
            PROVE  act[t] < act[u] \/ (act[t] = act[u] /\ Overfull(act[u]))
        <4>1. act[cut] <= act[u]
          BY <2>6
        <4>2. act[cut] = act[u] => Overfull(act[u])
          BY <2>8, <2>12
        <4> QED BY <2>4, <2>7, <3>2, <4>1, <4>2
      <3> QED BY <3>1, <3>3
    <2> QED BY <2>11, <2>12
  <1> QED BY <1>1, <1>2

(***************************************************************************)
(* The inductive invariant.                                                *)
(***************************************************************************)

LEMMA Numbers ==
  ASSUME TypeOK
  PROVE  /\ Fresh \in Nat /\ Fresh >= last + 1 /\ Fresh >= wall
         /\ Top \in Nat \ {0} /\ Top >= last + 1 /\ Top >= floor /\ (Top = last + 1 \/ Top = floor)
         /\ wall >= floor => Fresh >= Top
         /\ \A t \in Threads : act[t] \in Nat
         /\ \A w \in flight : w.at \in Nat \ {0} /\ w.done \in BOOLEAN
  <1>1. wall \in Nat /\ last \in Nat /\ floor \in Nat
    BY DEF TypeOK
  <1>2. /\ \A t \in Threads : act[t] \in Nat
        /\ \A w \in flight : w.at \in Nat \ {0} /\ w.done \in BOOLEAN
    BY DEF TypeOK
  <1> QED BY <1>1, <1>2 DEF Fresh, Top, Greatest

LEMMA InitEstablishes == Init => IInv
  <1> SUFFICES ASSUME Init PROVE IInv
    OBVIOUS
  <1>1. TypeOK
    BY DEF Init, TypeOK
  <1>2. BelowTop /\ StampsInFlight /\ SharedAreClosed /\ GivenIsBelow /\ EarlyAreClosed /\ NoneSkipped
    BY DEF Init, BelowTop, StampsInFlight, SharedAreClosed, GivenIsBelow, EarlyAreClosed, NoneSkipped, Overfull, Top, Greatest
  <1> QED BY <1>1, <1>2 DEF IInv

\* The clock hands out a stamp above everything there is.
LEMMA StampStep ==
  ASSUME IInv, Stamp
  PROVE  IInv'
  <1> DEFINE x == [at |-> Fresh, done |-> FALSE]
  <1>0. TypeOK /\ BelowTop /\ StampsInFlight
    BY DEF IInv
  <1>1. /\ last' = Fresh /\ flight' = flight \cup {x}
        /\ UNCHANGED <<wall, act, closed, horizon, cursor, unseen, early, floor, boots>>
    BY DEF Stamp, rows, reader, past
  <1>2. Fresh \in Nat \ {0} /\ Fresh >= last + 1 /\ Fresh >= Top /\ last \in Nat /\ cursor \in Nat
    BY <1>0, Numbers DEF BelowTop, TypeOK
  <1>3. x.at = Fresh /\ x.done = FALSE /\ x \in [at : Nat \ {0}, done : BOOLEAN]
    BY <1>2
  <1> HIDE DEF x
  <1>4. TypeOK'
    <2>1. flight' \in SUBSET [at : Nat \ {0}, done : BOOLEAN]
      BY <1>0, <1>1, <1>3 DEF TypeOK
    <2>2. last' \in Nat /\ horizon' \in 0 .. (last' + 1)
      BY <1>0, <1>1, <1>2 DEF TypeOK
    <2> QED BY <1>0, <1>1, <2>1, <2>2 DEF TypeOK
  <1>5. Top' >= Top /\ Top' \in Nat /\ Top \in Nat
    BY <1>0, <1>1, <1>2, <1>4, Numbers DEF Top, Greatest, TypeOK
  <1>6. BelowTop'
    <2>1. cursor < Top' /\ \A t \in Threads : act[t] < Top'
      BY <1>0, <1>2, <1>5, Numbers DEF BelowTop
    <2> QED BY <1>0, <1>1, <2>1 DEF BelowTop
  <1>7. StampsInFlight'
    <2>1. \A w \in flight : w.at \in Nat /\ w.at <= last /\ w.at < Fresh /\ w.at <= Fresh
      BY <1>0, <1>2, Numbers DEF StampsInFlight
    <2>2. cursor < Fresh /\ (horizon # 0 => horizon <= Fresh) /\ \A t \in Threads : act[t] # Fresh
      BY <1>0, <1>2, Numbers DEF BelowTop, TypeOK
    <2>3. ASSUME NEW w \in flight'
          PROVE  /\ w.at <= Fresh /\ cursor < w.at
                 /\ horizon # 0 => horizon <= w.at
                 /\ \A v \in flight' : v.at = w.at => v = w
                 /\ ~w.done => \A t \in Threads : act[t] # w.at
      <3>1. CASE w = x
        BY <1>1, <1>2, <1>3, <2>1, <2>2, <3>1
      <3>2. CASE w \in flight
        BY <1>0, <1>1, <1>2, <1>3, <2>1, <3>2 DEF StampsInFlight
      <3> QED BY <1>1, <3>1, <3>2
    <2> QED BY <1>1, <2>3 DEF StampsInFlight
  <1>8. SharedAreClosed' /\ GivenIsBelow' /\ EarlyAreClosed' /\ NoneSkipped'
    BY <1>1 DEF IInv, SharedAreClosed, GivenIsBelow, EarlyAreClosed, NoneSkipped, Overfull
  <1> QED BY <1>4, <1>6, <1>7, <1>8 DEF IInv

\* A transaction commits: its threads T get its stamp and have unseen activity.
Commits(w, T) ==
    /\ w \in flight /\ ~w.done
    /\ Committed(w)
    /\ act' = [t \in Threads |-> IF t \in T THEN w.at ELSE act[t]]
    /\ unseen' = unseen \cup T
    /\ UNCHANGED <<wall, last, horizon, cursor, floor, boots>>

LEMMA CommitStep ==
  ASSUME IInv, NEW w, NEW T \in SUBSET Threads, Commits(w, T), T \cap closed = {},
         closed \subseteq closed', \A t, u \in T : t # u => t \in closed',
         closed' \in SUBSET Threads, early' \in SUBSET Threads, early \subseteq early',
         cursor = 0 => closed' \subseteq early'
  PROVE  IInv'
  <1>0. TypeOK /\ BelowTop /\ StampsInFlight /\ SharedAreClosed /\ GivenIsBelow /\ NoneSkipped
    BY DEF IInv
  <1>1. PICK x \in {[w EXCEPT !.done = TRUE]} : x = [w EXCEPT !.done = TRUE]
    OBVIOUS
  <1>2. /\ w \in flight /\ ~w.done /\ flight' = (flight \ {w}) \cup {x}
        /\ \A t \in Threads : act'[t] = IF t \in T THEN w.at ELSE act[t]
        /\ unseen' = unseen \cup T
        /\ UNCHANGED <<wall, last, horizon, cursor, floor, boots>>
    BY <1>1 DEF Commits, Committed
  <1>3. w \in [at : Nat \ {0}, done : BOOLEAN]
    BY <1>0, <1>2 DEF TypeOK
  <1>4. x.at = w.at /\ x.done /\ x \in [at : Nat \ {0}, done : BOOLEAN] /\ w.at \in Nat \ {0}
    BY <1>1, <1>3
  <1>5. /\ w.at <= last /\ cursor < w.at /\ (horizon # 0 => horizon <= w.at)
        /\ \A v \in flight : v.at = w.at => v = w
        /\ \A t \in Threads : act[t] # w.at
    BY <1>0, <1>2 DEF StampsInFlight
  <1>6. TypeOK'
    <2>1. flight' \in SUBSET [at : Nat \ {0}, done : BOOLEAN]
      BY <1>0, <1>2, <1>4 DEF TypeOK
    <2>2. act' \in [Threads -> Nat]
      BY <1>0, <1>4 DEF Commits, TypeOK
    <2> QED BY <1>0, <1>2, <2>1, <2>2 DEF TypeOK
  <1>7. BelowTop'
    <2>1. w.at < Top
      BY <1>0, <1>4, <1>5, Numbers DEF TypeOK
    <2>2. Top' = Top
      BY <1>2 DEF Top
    <2> QED BY <1>0, <1>2, <2>1, <2>2 DEF BelowTop
  <1>8. StampsInFlight'
    <2>1. ASSUME NEW v \in flight'
          PROVE  /\ v.at <= last /\ cursor < v.at
                 /\ horizon # 0 => horizon <= v.at
                 /\ \A y \in flight' : y.at = v.at => y = v
                 /\ ~v.done => \A t \in Threads : act'[t] # v.at
      <3>1. CASE v = x
        BY <1>2, <1>4, <1>5, <3>1
      <3>2. CASE v \in flight /\ v # w
        BY <1>0, <1>2, <1>4, <1>5, <3>2 DEF StampsInFlight
      <3> QED BY <1>2, <3>1, <3>2
    <2> QED BY <1>2, <2>1 DEF StampsInFlight
  <1>9. SharedAreClosed'
    <2>1. ASSUME NEW t \in Threads, NEW u \in Threads, act'[t] # 0, act'[t] = act'[u], t # u
          PROVE  t \in closed'
      <3>1. CASE t \in T /\ u \in T
        BY <2>1, <3>1
      <3>2. CASE t \notin T /\ u \notin T
        BY <1>0, <1>2, <2>1, <3>2 DEF SharedAreClosed
      <3> QED BY <1>2, <1>5, <2>1, <3>1, <3>2
    <2> QED BY <2>1 DEF SharedAreClosed
  <1>10. GivenIsBelow'
    BY <1>0, <1>2, <1>4 DEF GivenIsBelow
  <1>11. EarlyAreClosed'
    BY <1>2 DEF EarlyAreClosed
  <1>12. NoneSkipped'
    <2>1. ASSUME cursor # 0, NEW t \in unseen', t \notin early'
          PROVE  act'[t] > cursor \/ Overfull(act[t])' \/ t \in T
      <3>1. CASE t \notin T
        <4>0. t \in unseen /\ t \in Threads /\ act[t] # 0 /\ act'[t] = act[t]
          BY <1>0, <1>2, <3>1 DEF TypeOK, GivenIsBelow
        <4>1. CASE act[t] > cursor
          BY <4>0, <4>1
        <4>2. CASE Overfull(act[t])
          <5>1. \A u \in T : act[u] # act[t]
            BY <1>0, <3>1, <4>0 DEF SharedAreClosed
          <5>2. \A u \in Threads : act'[u] = act'[t] <=> act[u] = act[t]
            BY <1>2, <1>5, <4>0, <5>1
          <5>3. {u \in Threads : act'[u] = act'[t]} = {u \in Threads : act[u] = act[t]}
            BY <5>2
          <5>4. Overfull(act[t])'
            BY <4>2, <5>3 DEF Overfull
          <5> QED BY <5>4
        <4> QED BY <1>0, <2>1, <4>0, <4>1, <4>2 DEF NoneSkipped
      <3> QED BY <3>1
    <2>2. ASSUME NEW t \in T PROVE act'[t] > cursor
      BY <1>2, <1>4, <1>5
    <2> QED BY <1>2, <2>1, <2>2 DEF NoneSkipped
  <1> QED BY <1>6, <1>7, <1>8, <1>9, <1>10, <1>11, <1>12 DEF IInv

LEMMA TouchStep ==
  ASSUME IInv, NEW w, NEW t \in Threads, CommitTouch(w, t)
  PROVE  IInv'
  <1>1. Commits(w, {t})
    BY DEF CommitTouch, Commits, past, IInv, TypeOK
  <1>2. {t} \cap closed = {}
    BY DEF CommitTouch
  <1>3. closed' = closed /\ early' = early /\ closed \in SUBSET Threads /\ early \in SUBSET Threads
    BY DEF CommitTouch, IInv, TypeOK
  <1>4. cursor = 0 => closed \subseteq early
    BY DEF IInv, EarlyAreClosed
  <1>5. {t} \in SUBSET Threads
    OBVIOUS
  <1> QED BY <1>1, <1>2, <1>3, <1>4, <1>5, CommitStep

LEMMA CloseStep ==
  ASSUME IInv, NEW w, NEW T \in SUBSET Threads, CommitClose(w, T)
  PROVE  IInv'
  <1>1. Commits(w, T)
    BY DEF CommitClose, Commits, past
  <1>2. T \cap closed = {}
    BY DEF CommitClose
  <1>3. /\ closed' = closed \cup T /\ early' = (IF cursor = 0 THEN early \cup T ELSE early)
        /\ closed \in SUBSET Threads /\ early \in SUBSET Threads
    BY DEF CommitClose, IInv, TypeOK
  <1>4. cursor = 0 => closed \subseteq early
    BY DEF IInv, EarlyAreClosed
  <1>5. /\ closed' \in SUBSET Threads /\ early' \in SUBSET Threads /\ early \subseteq early'
        /\ closed \subseteq closed' /\ T \subseteq closed'
        /\ cursor = 0 => closed' \subseteq early'
    BY <1>3, <1>4
  <1> QED BY <1>1, <1>2, <1>5, CommitStep

LEMMA DropStep ==
  ASSUME IInv, NEW w, Drop(w)
  PROVE  IInv'
  <1>1. /\ flight' \subseteq flight
        /\ UNCHANGED <<wall, last, act, closed, horizon, cursor, unseen, early, floor, boots>>
    BY DEF Drop, rows, reader, past
  <1>2. TypeOK'
    BY <1>1 DEF IInv, TypeOK
  <1>3. BelowTop' /\ SharedAreClosed' /\ GivenIsBelow' /\ EarlyAreClosed' /\ NoneSkipped'
    BY <1>1 DEF IInv, BelowTop, SharedAreClosed, GivenIsBelow, EarlyAreClosed, NoneSkipped, Overfull, Top
  <1>4. StampsInFlight'
    BY <1>1 DEF IInv, StampsInFlight
  <1> QED BY <1>2, <1>3, <1>4 DEF IInv

\* The horizon is the oldest stamp in flight, or one the clock will not hand out
\* again.
LEMMA HorizonStep ==
  ASSUME IInv, Horizon
  PROVE  IInv'
  <1>0. TypeOK /\ BelowTop /\ StampsInFlight
    BY DEF IInv
  <1>1. UNCHANGED <<wall, flight, act, closed, cursor, unseen, early, floor, boots>>
    BY DEF Horizon, rows, past
  <1>2. /\ wall \in Nat /\ last \in Nat /\ cursor \in Nat /\ Fresh \in Nat \ {0} /\ Fresh >= last + 1
        /\ \A w \in flight : w.at \in Nat \ {0} /\ w.at <= last
    BY <1>0, Numbers DEF TypeOK, StampsInFlight
  <1>3. /\ last' \in Nat /\ last' >= last
        /\ horizon' \in 0 .. (last' + 1)
        /\ \A w \in flight : horizon' <= w.at
    <2>1. CASE flight # {}
      BY <1>2, <2>1 DEF Horizon
    <2>2. CASE flight = {}
      BY <1>2, <2>2 DEF Horizon, Greatest
    <2> QED BY <2>1, <2>2
  <1>4. TypeOK'
    BY <1>0, <1>1, <1>3 DEF TypeOK
  <1>5. BelowTop'
    <2>1. Top' >= Top /\ Top' \in Nat /\ Top \in Nat
      <3>1. floor \in Nat /\ floor' = floor
        BY <1>0, <1>1 DEF TypeOK
      <3>2. last \in Nat /\ last' \in Nat /\ last' >= last
        BY <1>2, <1>3
      <3>3. Top' = Greatest(last' + 1, floor) /\ Top = Greatest(last + 1, floor)
        BY <3>1 DEF Top
      <3>4. \A x, y, z \in Nat : y >= x => /\ Greatest(y + 1, z) >= Greatest(x + 1, z)
                                          /\ Greatest(y + 1, z) \in Nat /\ Greatest(x + 1, z) \in Nat
        BY DEF Greatest
      <3> QED BY <3>1, <3>2, <3>3, <3>4
    <2>2. cursor < Top' /\ \A t \in Threads : act[t] < Top'
      BY <1>0, <1>2, <2>1, Numbers DEF BelowTop
    <2> QED BY <1>0, <1>1, <2>2 DEF BelowTop
  <1>6. StampsInFlight'
    <2>1. \A w \in flight : w.at <= last'
      BY <1>2, <1>3
    <2> QED BY <1>0, <1>1, <1>3, <2>1 DEF StampsInFlight
  <1>7. SharedAreClosed' /\ GivenIsBelow' /\ EarlyAreClosed' /\ NoneSkipped'
    BY <1>1 DEF IInv, SharedAreClosed, GivenIsBelow, EarlyAreClosed, NoneSkipped, Overfull
  <1> QED BY <1>4, <1>5, <1>6, <1>7 DEF IInv

\* The page is given and the cursor moves to its last stamp: below the horizon,
\* and below everything the page left out.
LEMMA QueryStep ==
  ASSUME IInv, Query
  PROVE  IInv'
  <1>0. TypeOK /\ BelowTop /\ StampsInFlight /\ SharedAreClosed /\ GivenIsBelow /\ EarlyAreClosed /\ NoneSkipped
    BY DEF IInv
  <1>1. PICK P \in {Page(ActivityBefore)} : P = Page(ActivityBefore)
    OBVIOUS
  <1>2. PICK R \in {ActivityBefore} : R = ActivityBefore
    OBVIOUS
  <1>3. /\ horizon # 0 /\ horizon' = 0 /\ unseen' = unseen \ P
        /\ cursor' = IF P = {} THEN cursor
                     ELSE CHOOSE c \in {act[t] : t \in P} : \A t \in P : act[t] <= c
        /\ UNCHANGED <<wall, last, flight, act, closed, early, floor, boots>>
    BY <1>1 DEF Query, clock, rows, past
  <1>4. /\ act \in [Threads -> Nat] /\ \A t \in Threads : act[t] \in Nat
        /\ horizon \in Nat /\ cursor \in Nat /\ last \in Nat /\ horizon <= last + 1
        /\ \A w \in flight : w.at \in Nat
    BY <1>0, Numbers DEF TypeOK
  <1>5. \A t \in Threads : t \in R <=> /\ act[t] # 0 /\ act[t] < horizon
                                       /\ IF cursor = 0 THEN t \notin closed ELSE act[t] > cursor
    BY <1>2 DEF ActivityBefore
  <1>6. R \in SUBSET Threads /\ \A t \in R : act[t] # 0
    BY <1>2, <1>5 DEF ActivityBefore
  <1>7. /\ P \subseteq R
        /\ \A t \in P, u \in R \ P : act[t] < act[u] \/ (act[t] = act[u] /\ Overfull(act[u]))
    BY <1>1, <1>2, <1>4, <1>6, PageIsPrefix
  <1>8. P # {} => \E s \in P : cursor' = act[s] /\ \A t \in P : act[t] <= cursor'
    <2> SUFFICES ASSUME P # {} PROVE \E s \in P : cursor' = act[s] /\ \A t \in P : act[t] <= cursor'
      OBVIOUS
    <2>1. P \in SUBSET Threads
      BY <1>6, <1>7
    <2>2. \E s \in P : \A t \in P : act[t] <= act[s]
      BY <1>4, <2>1, GreatestStamp
    <2>3. \E c \in {act[t] : t \in P} : \A t \in P : act[t] <= c
      BY <2>2
    <2>4. cursor' \in {act[t] : t \in P} /\ \A t \in P : act[t] <= cursor'
      BY <1>3, <2>3
    <2> QED BY <2>4
  <1>9. /\ cursor' \in Nat /\ cursor <= cursor'
        /\ cursor' = cursor \/ (cursor' < horizon /\ cursor' # 0)
        /\ \A t \in P : cursor' # 0 /\ act[t] <= cursor'
    <2>1. CASE P = {}
      BY <1>3, <1>4, <2>1
    <2>2. CASE P # {}
      <3>1. PICK s \in P : cursor' = act[s] /\ \A t \in P : act[t] <= cursor'
        BY <1>8, <2>2
      <3>2. s \in R /\ s \in Threads
        BY <1>6, <1>7
      <3> QED BY <1>4, <1>5, <3>1, <3>2
    <2> QED BY <2>1, <2>2
  <1>10. TypeOK'
    BY <1>0, <1>3, <1>9 DEF TypeOK
  <1>11. BelowTop'
    <2>1. Top' = Top
      BY <1>3 DEF Top
    <2>2. cursor' < Top
      <3>1. cursor' < horizon => cursor' < Top
        BY <1>0, <1>4, <1>9, Numbers
      <3>2. cursor < Top
        BY <1>0 DEF BelowTop
      <3> QED BY <1>9, <3>1, <3>2
    <2> QED BY <1>0, <1>3, <2>1, <2>2 DEF BelowTop
  <1>12. StampsInFlight'
    <2>1. ASSUME NEW w \in flight PROVE cursor' < w.at
      <3>1. cursor < w.at /\ horizon <= w.at
        BY <1>0, <1>3 DEF StampsInFlight
      <3> QED BY <1>4, <1>9, <3>1
    <2> QED BY <1>0, <1>3, <2>1 DEF StampsInFlight
  <1>13. SharedAreClosed'
    BY <1>0, <1>3 DEF SharedAreClosed
  <1>14. GivenIsBelow'
    <2>1. ASSUME NEW t \in Threads, act[t] # 0, t \notin unseen \ P PROVE cursor' # 0 /\ act[t] <= cursor'
      <3>1. CASE t \in P
        BY <1>9, <3>1
      <3>2. CASE t \notin P
        BY <1>0, <1>4, <1>9, <2>1, <3>2 DEF GivenIsBelow
      <3> QED BY <3>1, <3>2
    <2> QED BY <1>0, <1>3, <2>1 DEF GivenIsBelow
  <1>15. EarlyAreClosed'
    BY <1>0, <1>3, <1>4, <1>9 DEF EarlyAreClosed
  <1>16. NoneSkipped'
    <2>1. ASSUME cursor' # 0, NEW t \in unseen, t \notin P, t \notin early
          PROVE  act[t] > cursor' \/ Overfull(act[t])
      <3>0. t \in Threads /\ act[t] # 0
        BY <1>0 DEF TypeOK, GivenIsBelow
      <3>1. CASE P = {}
        BY <1>0, <1>3, <2>1, <3>1 DEF NoneSkipped
      <3>2. CASE P # {} /\ t \in R
        BY <1>4, <1>7, <1>8, <2>1, <3>2
      <3>3. CASE P # {} /\ t \notin R
        <4>1. cursor = 0 => t \notin closed
          BY <1>0, <2>1 DEF EarlyAreClosed
        <4>2. cursor # 0 => act[t] > cursor \/ Overfull(act[t])
          BY <1>0, <2>1 DEF NoneSkipped
        <4>3. ~(act[t] < horizon) \/ Overfull(act[t])
          BY <1>5, <3>0, <3>3, <4>1, <4>2
        <4>4. cursor' < horizon
          <5>1. PICK s \in P : cursor' = act[s]
            BY <1>8, <3>3
          <5> QED BY <1>5, <1>6, <1>7, <5>1
        <4> QED BY <1>4, <1>9, <3>0, <4>3, <4>4
      <3> QED BY <3>1, <3>2, <3>3
    <2>2. \A t \in Threads : Overfull(act[t])' <=> Overfull(act[t])
      BY <1>3 DEF Overfull
    <2>3. unseen \in SUBSET Threads
      BY <1>0 DEF TypeOK
    <2> QED BY <1>3, <2>1, <2>2, <2>3 DEF NoneSkipped
  <1> QED BY <1>10, <1>11, <1>12, <1>13, <1>14, <1>15, <1>16 DEF IInv

\* The wall clock moves, or the broker starts again: the clock's next stamp stays
\* above all that was handed out.
LEMMA ClockSteps ==
  ASSUME IInv, Restart \/ \E w \in 0 .. MaxWall : SetWall(w)
  PROVE  IInv'
  <1>0. TypeOK /\ BelowTop /\ StampsInFlight
    BY DEF IInv
  <1>1. UNCHANGED <<act, closed, cursor, unseen, early>>
    BY DEF Restart, SetWall, rows, reader
  <1>2. SharedAreClosed' /\ GivenIsBelow' /\ EarlyAreClosed' /\ NoneSkipped'
    BY <1>1 DEF IInv, SharedAreClosed, GivenIsBelow, EarlyAreClosed, NoneSkipped, Overfull
  <1>3. wall \in Nat /\ last \in Nat /\ floor \in Nat /\ boots \in Nat
    BY <1>0 DEF TypeOK
  <1>4. CASE Restart
    <2>1. /\ last' = 0 /\ flight' = {} /\ horizon' = 0 /\ wall' = wall /\ boots' = boots + 1 /\ wall > last
          /\ floor' = Top
      <3>1. floor' = Greatest(floor, last + 1)
        BY <1>4 DEF Restart
      <3>2. floor' = Top
        BY <1>3, <3>1 DEF Top, Greatest
      <3> QED BY <1>4, <3>2 DEF Restart
    <2>2. Top \in Nat \ {0} /\ (Top = last + 1 \/ Top = floor)
      BY <1>0, Numbers
    <2>3. TypeOK'
      BY <1>0, <1>1, <1>3, <2>1, <2>2 DEF TypeOK
    <2>4. Top' = Top
      BY <1>3, <2>1, <2>2 DEF Top, Greatest
    <2>5. wall' >= floor'
      BY <1>0, <1>3, <2>1, <2>2 DEF BelowTop
    <2>6. BelowTop'
      BY <1>0, <1>1, <2>4, <2>5 DEF BelowTop
    <2>7. StampsInFlight'
      BY <2>1 DEF StampsInFlight
    <2> QED BY <1>2, <2>3, <2>6, <2>7 DEF IInv
  <1>5. ASSUME NEW w \in 0 .. MaxWall, SetWall(w) PROVE IInv'
    <2>1. wall' = w /\ w >= floor /\ w \in Nat /\ UNCHANGED <<last, flight, horizon, floor, boots>>
      BY <1>5, BoundAssumption DEF SetWall, clock, reader, past
    <2>2. TypeOK'
      BY <1>0, <1>1, <2>1 DEF TypeOK
    <2>3. BelowTop' /\ StampsInFlight'
      BY <1>0, <1>1, <2>1 DEF BelowTop, StampsInFlight, Top
    <2> QED BY <1>2, <2>2, <2>3 DEF IInv
  <1> QED BY <1>4, <1>5

(***************************************************************************)
(* The theorems.                                                           *)
(***************************************************************************)

\* The inductive invariant holds in every reachable state, for every finite set
\* of threads, page size, number of writers, restarts and clock steps.
THEOREM Invariance == Spec => []IInv
  <1>1. IInv /\ [Next]_vars => IInv'
    <2> SUFFICES ASSUME IInv, [Next]_vars PROVE IInv'
      OBVIOUS
    <2>1. CASE Stamp
      BY <2>1, StampStep
    <2>2. ASSUME NEW w \in flight, NEW t \in Threads, CommitTouch(w, t) PROVE IInv'
      BY <2>2, TouchStep
    <2>3. ASSUME NEW w \in flight, NEW T \in SUBSET Threads, CommitClose(w, T) PROVE IInv'
      BY <2>3, CloseStep
    <2>4. ASSUME NEW w \in flight, Drop(w) PROVE IInv'
      BY <2>4, DropStep
    <2>5. CASE Horizon
      BY <2>5, HorizonStep
    <2>6. CASE Query
      BY <2>6, QueryStep
    <2>7. CASE Restart \/ \E w \in 0 .. MaxWall : SetWall(w)
      BY <2>7, ClockSteps
    <2>8. CASE UNCHANGED vars
      BY <2>8 DEF vars, clock, rows, reader, past, IInv, TypeOK, BelowTop, StampsInFlight, SharedAreClosed,
                  GivenIsBelow, EarlyAreClosed, NoneSkipped, Overfull, Top
    <2> QED BY <2>1, <2>2, <2>3, <2>4, <2>5, <2>6, <2>7, <2>8 DEF Next
  <1> QED BY <1>1, InitEstablishes, PTL DEF Spec

\* The clock, the stamps in flight, the rows and the cursor have their types; the
\* horizon is never above what the clock hands out next (ActivityClock).
THEOREM TypeCorrect == Spec => []TypeOK
  <1>1. IInv => TypeOK
    BY DEF IInv
  <1> QED BY <1>1, Invariance, PTL

\* The reader's cursor passes activity it was not given only inside a stamp on
\* more threads than a page holds, in whatever order the stamped transactions
\* commit and wherever pages are cut (ActivityClock::horizon, activity_before,
\* events_snapshot_settling).
THEOREM NothingIsSkipped == Spec => []NoneSkipped
  <1>1. IInv => NoneSkipped
    BY DEF IInv
  <1> QED BY <1>1, Invariance, PTL

\* A poll never answers with activity it has already given (activity_before).
THEOREM NothingIsRepeated == Spec => []NoneRepeated
  <1>1. IInv => NoneRepeated
    <2> SUFFICES ASSUME IInv, horizon # 0, NEW t \in ActivityBefore PROVE t \in unseen
      BY DEF NoneRepeated
    <2>1. t \in Threads /\ act[t] # 0 /\ (cursor # 0 => act[t] > cursor) /\ act[t] \in Nat /\ cursor \in Nat
      BY DEF ActivityBefore, IInv, TypeOK
    <2> QED BY <2>1 DEF IInv, GivenIsBelow
  <1> QED BY <1>1, Invariance, PTL
=============================================================================
