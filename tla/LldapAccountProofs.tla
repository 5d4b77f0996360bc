------------------------- MODULE LldapAccountProofs --------------------------
(***************************************************************************)
(* Proofs about LldapAccount, for every set of agents that derive the same *)
(* LLDAP user id and every number of passwords.                            *)
(***************************************************************************)
EXTENDS LldapAccount, TLAPS

USE PasswordAssumption, AgentAssumption

\* The initial states satisfy the inductive invariant.
LEMMA InitEstablishes == Init => IInv
  <1> SUFFICES ASSUME Init PROVE IInv
    OBVIOUS
  <1>1. TypeOK
    <2>0. lost \in BOOLEAN
      BY Zenon DEF Init
    <2>1. 0 \in 0..MaxPasswords
      OBVIOUS
    <2>2. /\ stored \in [Agents -> 0..MaxPasswords] /\ fresh \in [Agents -> 0..MaxPasswords]
          /\ password \in 0..MaxPasswords /\ made \in 0..MaxPasswords
      BY <2>1 DEF Init
    <2>3. /\ row \in [Agents -> {"unborn", "none", "by_hand", "managed"}]
          /\ user \in {"absent", "stranger"} \cup Agents /\ setFor \in {NoAgent} \cup Agents
          /\ op \in [Agents -> {"idle", "lookup", "create", "password", "rotate", "store"}]
      BY DEF Init
    <2> QED BY <2>0, <2>2, <2>3 DEF TypeOK
  <1>2. OnlyItsOwnAccount /\ ManagedMeansOwned
    BY DEF Init, OnlyItsOwnAccount, ManagedMeansOwned
  <1>3. CallsOwnTheUser /\ StoredUnlessLost
    BY DEF Init, CallsOwnTheUser, StoredUnlessLost
  <1> QED BY <1>1, <1>2, <1>3 DEF IInv

\* A call that only moves on in its stages, towards no password of another's.
LEMMA StageMoves ==
  ASSUME IInv, NEW a \in Agents, NEW s \in {"idle", "lookup", "create", "password", "rotate"},
         To(a, s), s \in {"password", "rotate"} => user = a,
         op[a] = "store" => lost',
         lost => lost', lost' \in BOOLEAN,
         UNCHANGED <<row, stored, user, password, setFor, fresh, made>>
  PROVE  IInv'
  <1>0. op \in [Agents -> {"idle", "lookup", "create", "password", "rotate", "store"}]
    BY DEF IInv, TypeOK
  <1>1. op'[a] = s /\ \A b \in Agents \ {a} : op'[b] = op[b]
    BY <1>0 DEF To
  <1>2. TypeOK'
    BY <1>0 DEF IInv, TypeOK, To
  <1>3. OnlyItsOwnAccount' /\ ManagedMeansOwned'
    BY DEF IInv, OnlyItsOwnAccount, ManagedMeansOwned, HeldByOther
  <1>4. CallsOwnTheUser'
    BY <1>1 DEF IInv, CallsOwnTheUser
  <1>5. StoredUnlessLost'
    BY <1>1 DEF IInv, StoredUnlessLost
  <1> QED BY <1>2, <1>3, <1>4, <1>5 DEF IInv

\* Every step of a call, a registration or a crash keeps the invariant.
LEMMA StepPreserves == IInv /\ [Next]_vars => IInv'
  <1> SUFFICES ASSUME IInv, [Next]_vars PROVE IInv'
    OBVIOUS
  <1>0. /\ row \in [Agents -> {"unborn", "none", "by_hand", "managed"}]
        /\ stored \in [Agents -> 0..MaxPasswords] /\ fresh \in [Agents -> 0..MaxPasswords]
        /\ op \in [Agents -> {"idle", "lookup", "create", "password", "rotate", "store"}]
        /\ user \in {"absent", "stranger"} \cup Agents
        /\ password \in 0..MaxPasswords /\ made \in 0..MaxPasswords
        /\ setFor \in {NoAgent} \cup Agents /\ lost \in BOOLEAN
    BY DEF IInv, TypeOK
  <1>1. ASSUME NEW a \in Agents, Register(a) PROVE IInv'
    <2>1. /\ row'[a] \in {"none", "by_hand"} /\ \A b \in Agents \ {a} : row'[b] = row[b]
          /\ row'[a] = "by_hand" => ~HeldByOther(a)
          /\ row' \in [Agents -> {"unborn", "none", "by_hand", "managed"}]
          /\ UNCHANGED <<stored, user, password, setFor, op, fresh, made, lost>>
      BY <1>0, <1>1 DEF Register
    <2>2. TypeOK'
      BY <2>1 DEF IInv, TypeOK
    <2>3. ManagedMeansOwned'
      BY <2>1 DEF IInv, ManagedMeansOwned, HeldByOther
    <2>4. OnlyItsOwnAccount' /\ CallsOwnTheUser' /\ StoredUnlessLost'
      BY <2>1 DEF IInv, OnlyItsOwnAccount, CallsOwnTheUser, StoredUnlessLost
    <2> QED BY <2>2, <2>3, <2>4 DEF IInv
  <1>2. ASSUME NEW a \in Agents, EnsureBegin(a) PROVE IInv'
    BY <1>0, <1>2, StageMoves DEF EnsureBegin
  <1>3. ASSUME NEW a \in Agents, LookUp(a) PROVE IInv'
    <2> DEFINE s == IF user = "absent" THEN "create" ELSE IF user = a THEN "password" ELSE "idle"
    <2>1. s \in {"idle", "lookup", "create", "password", "rotate"}
          /\ (s \in {"password", "rotate"} => user = a)
      OBVIOUS
    <2>2. To(a, s) /\ op[a] = "lookup"
          /\ UNCHANGED <<row, stored, user, password, setFor, fresh, made, lost>>
      BY <1>3 DEF LookUp
    <2> HIDE DEF s
    <2> QED BY <1>0, <2>1, <2>2, StageMoves
  <1>4. ASSUME NEW a \in Agents, CreateUser(a) PROVE IInv'
    <2>1. CASE user' = user
      BY <1>0, <1>4, <2>1, StageMoves DEF CreateUser
    <2>2. CASE user = "absent" /\ user' = a
      <3>1. /\ op' \in [Agents -> {"idle", "lookup", "create", "password", "rotate", "store"}]
            /\ op'[a] \in {"idle", "password"} /\ \A b \in Agents \ {a} : op'[b] = op[b]
            /\ op[a] = "create"
            /\ UNCHANGED <<row, stored, password, setFor, fresh, made, lost>>
        BY <1>0, <1>4, <2>2 DEF CreateUser, To
      <3>2. setFor = NoAgent
        BY <1>0, <2>2 DEF IInv, OnlyItsOwnAccount
      <3>3. \A b \in Agents : row[b] # "managed" /\ op[b] \notin {"password", "rotate", "store"}
        BY <2>2 DEF IInv, ManagedMeansOwned, CallsOwnTheUser
      <3>4. TypeOK'
        BY <2>2, <3>1 DEF IInv, TypeOK
      <3> QED
        BY <2>2, <3>1, <3>2, <3>3, <3>4
           DEF IInv, OnlyItsOwnAccount, ManagedMeansOwned, CallsOwnTheUser, StoredUnlessLost
    <2> QED BY <1>4, <2>1, <2>2 DEF CreateUser
  <1>5. ASSUME NEW a \in Agents, RotateBegin(a) PROVE IInv'
    <2>1. user = a
      BY <1>5 DEF RotateBegin, IInv, ManagedMeansOwned
    <2> QED BY <1>0, <1>5, <2>1, StageMoves DEF RotateBegin
  <1>6. ASSUME NEW a \in Agents, PasswordSet(a) PROVE IInv'
    <2>1. user = a
      BY <1>6 DEF PasswordSet, IInv, CallsOwnTheUser
    <2>2. /\ \A b \in Agents \ {a} : op'[b] = op[b] /\ op[b] \notin {"password", "rotate", "store"}
          /\ op' \in [Agents -> {"idle", "lookup", "create", "password", "rotate", "store"}]
          /\ \A b \in Agents \ {a} : row[b] # "managed"
      BY <1>0, <1>6, <2>1 DEF PasswordSet, To, IInv, CallsOwnTheUser, ManagedMeansOwned
    <2>3. /\ password' = made + 1 /\ made' = made + 1 /\ setFor' = a
          /\ password' \in 0..MaxPasswords /\ made' \in 0..MaxPasswords
          /\ UNCHANGED <<row, stored, user>>
      BY <1>0, <1>6 DEF PasswordSet
    <2>4. /\ fresh' \in [Agents -> 0..MaxPasswords] /\ lost' \in BOOLEAN
          /\ \/ op'[a] = "store" /\ fresh'[a] = password'
             \/ op'[a] = "idle" /\ lost' = TRUE
      <3>1. CASE To(a, "store") /\ fresh' = [fresh EXCEPT ![a] = made + 1] /\ UNCHANGED lost
        BY <1>0, <2>3, <3>1 DEF To
      <3>2. CASE To(a, "idle") /\ lost' = TRUE /\ UNCHANGED fresh
        BY <1>0, <3>2 DEF To
      <3> QED BY <1>6, <3>1, <3>2 DEF PasswordSet
    <2>5. TypeOK'
      BY <1>0, <2>2, <2>3, <2>4 DEF TypeOK
    <2>6. OnlyItsOwnAccount' /\ ManagedMeansOwned'
      BY <2>1, <2>3 DEF IInv, OnlyItsOwnAccount, ManagedMeansOwned, HeldByOther
    <2>7. CallsOwnTheUser' /\ StoredUnlessLost'
      BY <2>1, <2>2, <2>3, <2>4 DEF CallsOwnTheUser, StoredUnlessLost
    <2> QED BY <2>5, <2>6, <2>7 DEF IInv
  <1>7. ASSUME NEW a \in Agents, PasswordNotSet(a) PROVE IInv'
    BY <1>0, <1>7, StageMoves DEF PasswordNotSet
  <1>8. ASSUME NEW a \in Agents, Store(a) PROVE IInv'
    <2>1. user = a /\ fresh[a] = password
      BY <1>8 DEF Store, IInv, CallsOwnTheUser
    <2>2. /\ row' \in [Agents -> {"unborn", "none", "by_hand", "managed"}]
          /\ stored' \in [Agents -> 0..MaxPasswords]
          /\ op' \in [Agents -> {"idle", "lookup", "create", "password", "rotate", "store"}]
          /\ row'[a] = "managed" /\ stored'[a] = password /\ op'[a] = "idle"
          /\ \A b \in Agents \ {a} : /\ row'[b] = row[b] /\ op'[b] = op[b]
                                     /\ row[b] \notin {"by_hand", "managed"}
          /\ UNCHANGED <<user, password, setFor, fresh, made, lost>>
      BY <1>0, <1>8, <2>1 DEF Store, To, HeldByOther
    <2>3. TypeOK'
      BY <1>0, <2>2 DEF TypeOK
    <2>4. OnlyItsOwnAccount' /\ ManagedMeansOwned'
      BY <2>1, <2>2 DEF IInv, OnlyItsOwnAccount, ManagedMeansOwned, HeldByOther
    <2>5. CallsOwnTheUser' /\ StoredUnlessLost'
      BY <2>2 DEF IInv, CallsOwnTheUser, StoredUnlessLost
    <2> QED BY <2>3, <2>4, <2>5 DEF IInv
  <1>9. ASSUME NEW a \in Agents, StoreFails(a) PROVE IInv'
    BY <1>0, <1>9, StageMoves DEF StoreFails
  <1>10. CASE Crash
    <2>1. /\ UNCHANGED <<row, stored, user, password, setFor, fresh, made>>
          /\ op' \in [Agents -> {"idle", "lookup", "create", "password", "rotate", "store"}]
          /\ \A b \in Agents : op'[b] = "idle"
          /\ lost' \in BOOLEAN /\ (lost => lost') /\ \A b \in Agents : op[b] = "store" => lost'
      BY <1>0, <1>10 DEF Crash
    <2>2. TypeOK'
      BY <1>0, <2>1 DEF TypeOK
    <2>3. OnlyItsOwnAccount' /\ ManagedMeansOwned'
      BY <2>1 DEF IInv, OnlyItsOwnAccount, ManagedMeansOwned, HeldByOther
    <2>4. CallsOwnTheUser' /\ StoredUnlessLost'
      BY <2>1 DEF IInv, CallsOwnTheUser, StoredUnlessLost
    <2> QED BY <2>2, <2>3, <2>4 DEF IInv
  <1>11. CASE UNCHANGED vars
    BY <1>11 DEF vars, IInv, TypeOK, OnlyItsOwnAccount, ManagedMeansOwned, HeldByOther,
                 CallsOwnTheUser, StoredUnlessLost
  <1> QED
    BY <1>1, <1>2, <1>3, <1>4, <1>5, <1>6, <1>7, <1>8, <1>9, <1>10, <1>11 DEF Next, Step

\* The inductive invariant holds in every reachable state.
THEOREM Invariance == Spec => []IInv
  BY InitEstablishes, StepPreserves, PTL DEF Spec

\* The variables keep their types: no more passwords than the bound, a user of
\* the agents' or a stranger's.
THEOREM TypeCorrect == Spec => []TypeOK
  <1>1. IInv => TypeOK
    BY DEF IInv
  <1> QED BY <1>1, Invariance, PTL

\* INV-L5: however many agents derive the same LLDAP user id, ensure_account and
\* rotate_password set the password of no user made for somebody else.
THEOREM PasswordsStayHome == Spec => []OnlyItsOwnAccount
  <1>1. IInv => OnlyItsOwnAccount
    BY DEF IInv
  <1> QED BY <1>1, Invariance, PTL

\* A row that set_lldap marked managed has its own user, and has it alone.
THEOREM ManagedAccountsAreOwned == Spec => []ManagedMeansOwned
  <1>1. IInv => ManagedMeansOwned
    BY DEF IInv
  <1> QED BY <1>1, Invariance, PTL

\* The sealed password is LLDAP's unless a call ended between setting one and
\* storing it.
THEOREM StoredPasswordIsCurrent == Spec => []StoredUnlessLost
  <1>1. IInv => StoredUnlessLost
    BY DEF IInv
  <1> QED BY <1>1, Invariance, PTL
=============================================================================
