---------------------------- MODULE LldapAccount -----------------------------
(***************************************************************************)
(* The LLDAP account the broker makes for an agent, and its password.  The *)
(* agents here are the ones whose names give the same LLDAP user id        *)
(* (managed_username lower-cases, and ids are case-insensitive), so they   *)
(* all derive the one account modelled.  ensure_account and                *)
(* rotate_password hold their own agent's row and call LLDAP in between;   *)
(* two agents' calls interleave freely.                                    *)
(***************************************************************************)
EXTENDS Naturals

CONSTANTS
    Agents,
    MaxPasswords   \* bound: passwords the broker ever makes

ASSUME PasswordAssumption == MaxPasswords \in Nat
\* An agent is none of the values that stand for no agent.
ASSUME AgentAssumption == {"absent", "stranger", "nobody"} \cap Agents = {}

VARIABLES
    row,       \* the agent row: not there, without account, by hand, managed
    stored,    \* the password sealed in the row; 0 is none
    user,      \* the LLDAP user: absent, a stranger's, or made for an agent
    password,  \* the password LLDAP has for it; 0 is one the broker did not set
    setFor,    \* the agent the broker set that password for
    op,        \* where the agent's ensure_account or rotate_password is
    fresh,     \* the password that call made
    made,      \* passwords made so far
    lost       \* did a call end between setting and storing a password?

vars == <<row, stored, user, password, setFor, op, fresh, made, lost>>

NoAgent == "nobody"

TypeOK ==
    /\ row \in [Agents -> {"unborn", "none", "by_hand", "managed"}]
    /\ stored \in [Agents -> 0..MaxPasswords] /\ fresh \in [Agents -> 0..MaxPasswords]
    /\ user \in {"absent", "stranger"} \cup Agents
    /\ password \in 0..MaxPasswords /\ made \in 0..MaxPasswords
    /\ setFor \in {NoAgent} \cup Agents
    /\ op \in [Agents -> {"idle", "lookup", "create", "password", "rotate", "store"}]
    /\ lost \in BOOLEAN

Init ==
    /\ row = [a \in Agents |-> "unborn"]
    /\ stored = [a \in Agents |-> 0] /\ fresh = [a \in Agents |-> 0]
    /\ user \in {"absent", "stranger"}
    /\ password = 0 /\ made = 0 /\ setFor = NoAgent
    /\ op = [a \in Agents |-> "idle"]
    /\ lost = FALSE

\* Another agent's row has the user id (lldap::holders; the unique index on it).
HeldByOther(a) == \E b \in Agents \ {a} : row[b] \in {"by_hand", "managed"}

To(a, stage) == op' = [op EXCEPT ![a] = stage]

\* Mutant: an empty account name is stored as a name.
RegisterEmptyName(a) ==
    /\ row[a] = "unborn"
    /\ row' = [row EXCEPT ![a] = ""]
    /\ UNCHANGED <<stored, user, password, setFor, op, fresh, made, lost>>

\* An agent is registered, with an account named by hand or without one.
Register(a) ==
    /\ row[a] = "unborn"
    /\ \/ row' = [row EXCEPT ![a] = "none"]
       \/ ~HeldByOther(a) /\ row' = [row EXCEPT ![a] = "by_hand"]
    /\ UNCHANGED <<stored, user, password, setFor, op, fresh, made, lost>>

(***************************************************************************)
(* ensure_account, in the transaction of prepare.                          *)
(***************************************************************************)

EnsureBegin(a) ==
    /\ row[a] = "none" /\ op[a] = "idle"
    /\ ~HeldByOther(a)
    /\ To(a, "lookup")
    /\ UNCHANGED <<row, stored, user, password, setFor, fresh, made, lost>>

\* Mutant: whatever user exists is adopted.
LookUpAdoptsAny(a) ==
    /\ op[a] = "lookup"
    /\ To(a, IF user = "absent" THEN "create" ELSE "password")
    /\ UNCHANGED <<row, stored, user, password, setFor, fresh, made, lost>>

\* Only the user made for this very agent (its display name) is adopted.
LookUp(a) ==
    /\ op[a] = "lookup"
    /\ To(a, IF user = "absent" THEN "create" ELSE IF user = a THEN "password" ELSE "idle")
    /\ UNCHANGED <<row, stored, user, password, setFor, fresh, made, lost>>

\* Mutant: the creation overwrites a user that appeared after the look-up.
CreateUserOverwrites(a) ==
    /\ op[a] = "create"
    /\ user' = a /\ To(a, "password")
    /\ UNCHANGED <<row, stored, password, setFor, fresh, made, lost>>

\* LLDAP creates the user, refuses a duplicate, or fails having acted or not.
CreateUser(a) ==
    /\ op[a] = "create"
    /\ \/ user = "absent" /\ user' = a /\ To(a, "password")
       \/ user = "absent" /\ user' = a /\ To(a, "idle")
       \/ user' = user /\ To(a, "idle")
    /\ UNCHANGED <<row, stored, password, setFor, fresh, made, lost>>

(***************************************************************************)
(* rotate_password, and what both calls end with.                          *)
(***************************************************************************)

RotateBegin(a) ==
    /\ row[a] = "managed" /\ op[a] = "idle"
    /\ To(a, "rotate")
    /\ UNCHANGED <<row, stored, user, password, setFor, fresh, made, lost>>

\* The Password Modify took effect; the call goes on, or saw only a failure.
PasswordSet(a) ==
    /\ op[a] \in {"password", "rotate"} /\ made < MaxPasswords
    /\ made' = made + 1
    /\ password' = made + 1 /\ setFor' = a
    /\ \/ To(a, "store") /\ fresh' = [fresh EXCEPT ![a] = made + 1] /\ UNCHANGED lost
       \/ To(a, "idle") /\ lost' = TRUE /\ UNCHANGED fresh
    /\ UNCHANGED <<row, stored, user>>

PasswordNotSet(a) ==
    /\ op[a] \in {"password", "rotate"}
    /\ To(a, "idle")
    /\ UNCHANGED <<row, stored, user, password, setFor, fresh, made, lost>>

\* Mutant: the name is stored and the new password forgotten.
StoreNameOnly(a) ==
    /\ op[a] = "store"
    /\ ~HeldByOther(a)
    /\ row' = [row EXCEPT ![a] = "managed"]
    /\ To(a, "idle")
    /\ UNCHANGED <<stored, user, password, setFor, fresh, made, lost>>

\* set_lldap and the commit; the unique index lets one holder through.
Store(a) ==
    /\ op[a] = "store"
    /\ ~HeldByOther(a)
    /\ row' = [row EXCEPT ![a] = "managed"]
    /\ stored' = [stored EXCEPT ![a] = fresh[a]]
    /\ To(a, "idle")
    /\ UNCHANGED <<user, password, setFor, fresh, made, lost>>

\* A store error or the unique index: the transaction rolls back.
StoreFails(a) ==
    /\ op[a] = "store"
    /\ To(a, "idle")
    /\ lost' = TRUE
    /\ UNCHANGED <<row, stored, user, password, setFor, fresh, made>>

Crash ==
    /\ op' = [a \in Agents |-> "idle"]
    /\ lost' = (lost \/ \E a \in Agents : op[a] = "store")
    /\ UNCHANGED <<row, stored, user, password, setFor, fresh, made>>

Step(a) ==
    \/ Register(a) \/ EnsureBegin(a) \/ LookUp(a) \/ CreateUser(a) \/ RotateBegin(a)
    \/ PasswordSet(a) \/ PasswordNotSet(a) \/ Store(a) \/ StoreFails(a)

Next == Crash \/ \E a \in Agents : Step(a)

Spec == Init /\ [][Next]_vars

(***************************************************************************)
(* Properties.                                                             *)
(***************************************************************************)

\* INV-L5: the broker sets a password only on an LLDAP user it made, and only
\* for the agent it made it for, however the look-ups and creations of agents
\* with the same user id interleave, crash and are retried.
OnlyItsOwnAccount == setFor # NoAgent => user = setFor

\* An agent whose row says it has a managed account has the LLDAP user made for
\* it, and nobody else has the same account.
ManagedMeansOwned ==
    \A a \in Agents : row[a] = "managed" => user = a /\ ~HeldByOther(a)

\* INV-L3 without faults: unless a call died between setting a password and
\* storing it, the stored one is the one LLDAP has.
StoredUnlessLost ==
    \A a \in Agents : row[a] = "managed" /\ op[a] # "store" => stored[a] = password \/ lost

\* INV-L3 as provisioners.md states it: "The stored ciphertext always
\* corresponds to the last password set by the broker."
StoredIsLastSet ==
    \A a \in Agents : row[a] = "managed" /\ op[a] = "idle" => stored[a] = password

(***************************************************************************)
(* The inductive invariant (see LldapAccountProofs).                       *)
(***************************************************************************)

\* A call that sets or stores a password works on the user made for its agent,
\* and what it is about to store is what LLDAP has.
CallsOwnTheUser ==
    \A a \in Agents : /\ op[a] \in {"password", "rotate", "store"} => user = a
                      /\ op[a] = "store" => fresh[a] = password

IInv ==
    /\ TypeOK
    /\ OnlyItsOwnAccount /\ ManagedMeansOwned /\ CallsOwnTheUser /\ StoredUnlessLost
==============================================================================
