--------------------------- MODULE LldapMembership ---------------------------
(***************************************************************************)
(* One LLDAP group membership of one agent, shared by every homelab grant  *)
(* the agent has on that group.  Provisioning a grant adds the membership; *)
(* revoking one removes it unless a live sibling still backs it.  Both     *)
(* call LLDAP inside their database transaction and hold the advisory lock *)
(* of the membership until that transaction ends.                          *)
(*                                                                         *)
(* Provisioning tells the grants' life in full; here a grant is its row,   *)
(* whether it has lapsed, and the transaction that works on it.            *)
(***************************************************************************)
CONSTANTS
    Grants,         \* the agent's grants on the group
    DirtyFailures   \* may an add fail although LLDAP applied it?

ASSUME DirtyAssumption == DirtyFailures \in BOOLEAN

VARIABLES
    row,      \* grants.status; "ended" is every final status
    lapsed,   \* grants whose expires_at is past
    member,   \* is the account in the group?
    op,       \* where the transaction working on a grant is
    seen,     \* what had lapsed at the time that transaction read the clock
    tried     \* grants whose own revocation began

vars == <<row, lapsed, member, op, seen, tried>>

Adding   == {"add", "added"}
Removing == {"remove", "done"}
Before   == {"begun", "add_wait"}
Stages   == {"none", "remove_wait"} \cup Before \cup Adding \cup Removing

TypeOK ==
    /\ row \in [Grants -> {"none", "provisioning", "active", "ended"}]
    /\ lapsed \in SUBSET Grants /\ tried \in SUBSET Grants
    /\ member \in BOOLEAN
    /\ op \in [Grants -> Stages]
    /\ seen \in [Grants -> SUBSET Grants]

Init ==
    /\ row = [g \in Grants |-> "none"]
    /\ lapsed = {} /\ tried = {}
    /\ member = FALSE
    /\ op = [g \in Grants |-> "none"]
    /\ seen = [g \in Grants |-> {}]

\* Mutant: the advisory lock is not taken.
NoLock == TRUE

\* lock_membership can be taken: nobody else holds it.
Free == \A g \in Grants : op[g] \notin Adding \cup Removing

To(g, stage) == op' = [op EXCEPT ![g] = stage]

\* begin_provision, and the finishing task that follows it.
Begin(g) ==
    /\ row[g] = "none"
    /\ row' = [row EXCEPT ![g] = "provisioning"]
    /\ To(g, "begun")
    /\ UNCHANGED <<lapsed, member, seen, tried>>

(***************************************************************************)
(* LldapProvisioner::provision_grant and what finish_inner does with it.   *)
(***************************************************************************)

\* finish_inner reads the clock, prepares and locks the row.
AddStart(g) ==
    /\ op[g] = "begun"
    /\ To(g, "add_wait")
    /\ seen' = [seen EXCEPT ![g] = lapsed]
    /\ UNCHANGED <<row, lapsed, member, tried>>

AddLock(g) ==
    /\ op[g] = "add_wait" /\ Free
    /\ To(g, "add")
    /\ UNCHANGED <<row, lapsed, member, seen, tried>>

Added(g) ==
    /\ op[g] = "add"
    /\ member' = TRUE
    /\ To(g, "added")
    /\ UNCHANGED <<row, lapsed, seen, tried>>

AddOk(g) ==
    /\ op[g] = "added"
    /\ row' = [row EXCEPT ![g] = "active"]
    /\ To(g, "none")
    /\ UNCHANGED <<lapsed, member, seen, tried>>

\* Mutant: a status of its own.
AddErrAsFailed(g) ==
    /\ op[g] \in {"add_wait", "add"}
    /\ row' = [row EXCEPT ![g] = "failed"]
    /\ To(g, "none")
    /\ UNCHANGED <<lapsed, member, seen, tried>>

\* mutate asks LLDAP for the end state before it reports an error; only when
\* that question fails too is an applied add reported as failed.  An error of
\* prepare, or of provision_grant before the lock, ends the grant as well.
AddErr(g) ==
    /\ op[g] \in {"add_wait", "add"} \/ (DirtyFailures /\ op[g] = "added")
    /\ row' = [row EXCEPT ![g] = "ended"]
    /\ To(g, "none")
    /\ UNCHANGED <<lapsed, member, seen, tried>>

\* Too slow: finish_inner reverts in the same transaction, so under the lock,
\* or once it gets it.
AddSlow(g) ==
    /\ \/ op[g] = "add_wait" /\ To(g, "remove_wait")
       \/ op[g] \in Adding /\ To(g, "remove")
    /\ UNCHANGED <<row, lapsed, member, seen, tried>>

\* The transaction is lost; the row stays PROVISIONING for the reaper.
AddLost(g) ==
    /\ op[g] \in Before \cup Adding
    /\ To(g, "none")
    /\ UNCHANGED <<row, lapsed, member, seen, tried>>

(***************************************************************************)
(* LldapProvisioner::revoke, from revoke_grant, expire_one and reap_one.   *)
(***************************************************************************)

\* The caller locks the row and reads the clock, then waits for the lock.
RevokeStart(g) ==
    /\ row[g] \in {"provisioning", "active"} /\ op[g] = "none"
    /\ To(g, "remove_wait")
    /\ seen' = [seen EXCEPT ![g] = lapsed]
    /\ tried' = tried \cup {g}
    /\ UNCHANGED <<row, lapsed, member>>

RevokeLock(g) ==
    /\ op[g] = "remove_wait" /\ Free
    /\ To(g, "remove")
    /\ UNCHANGED <<row, lapsed, member, seen, tried>>

\* Mutant: a sibling that is merely being provisioned keeps the membership.
KeptByAnyRow(g) == \E h \in Grants \ {g} : row[h] \in {"provisioning", "active"}

\* A live sibling (is_live with the clock read before the lock).
Kept(g) == \E h \in Grants \ {g} : row[h] = "active" /\ h \notin seen[g]

Remove(g) ==
    /\ op[g] = "remove"
    /\ member' = (member /\ Kept(g))
    /\ To(g, "done")
    /\ UNCHANGED <<row, lapsed, seen, tried>>

RevokeOk(g) ==
    /\ op[g] = "done"
    /\ row' = [row EXCEPT ![g] = "ended"]
    /\ To(g, "none")
    /\ UNCHANGED <<lapsed, member, seen, tried>>

\* LLDAP failed (having acted or not), or the transaction did not commit.
RevokeFails(g) ==
    /\ op[g] \in {"remove_wait"} \cup Removing
    /\ To(g, "none")
    /\ UNCHANGED <<row, lapsed, member, seen, tried>>

Lapse(g) ==
    /\ row[g] # "none" /\ g \notin lapsed
    /\ lapsed' = lapsed \cup {g}
    /\ UNCHANGED <<row, member, op, seen, tried>>

Crash ==
    /\ op' = [g \in Grants |-> "none"]
    /\ UNCHANGED <<row, lapsed, member, seen, tried>>

Step(g) ==
    \/ Begin(g) \/ AddStart(g) \/ AddLock(g) \/ Added(g)
    \/ AddOk(g) \/ AddErr(g) \/ AddSlow(g) \/ AddLost(g)
    \/ RevokeStart(g) \/ RevokeLock(g) \/ Remove(g) \/ RevokeOk(g) \/ RevokeFails(g) \/ Lapse(g)

Next == Crash \/ \E g \in Grants : Step(g)

Spec == Init /\ [][Next]_vars

(***************************************************************************)
(* Properties.                                                             *)
(***************************************************************************)

\* INV-L4 as its owner sees it: ending one grant, in whatever interleaving and
\* with whatever failure, never takes the group away from a live sibling that
\* nobody tried to revoke.
LiveSiblingsStayMembers ==
    \A g \in Grants \ (lapsed \cup tried) : row[g] = "active" => member

\* The membership goes with the last grant: two revokes that each see the
\* other's grant still live cannot both keep it ("no write skew keeping the
\* membership forever", lock_membership), and a grant that lapses while a
\* sibling's revoke decides still has its own removal ahead.
NoMembershipWithoutGrant ==
    member => \E g \in Grants : row[g] \in {"provisioning", "active"}

\* A grant that may have added the membership and has not ended.
Backs(g) ==
    row[g] = "active" \/ (row[g] = "provisioning" /\ op[g] \notin Before \cup {"add"})

\* The advisory lock: one transaction at a time is at the membership.
OneAtATime ==
    \A g, h \in Grants :
        op[g] \in Adding \cup Removing /\ op[h] \in Adding \cup Removing => g = h

\* What a transaction knows, or did, stays true until it ends.
TransactionsHold ==
    \A g \in Grants :
        /\ seen[g] \subseteq lapsed
        /\ op[g] \in Before \cup Adding => row[g] = "provisioning"
        /\ op[g] = "added" => member
        /\ op[g] \in {"remove_wait"} \cup Removing =>
             row[g] = "provisioning" \/ (row[g] = "active" /\ g \in tried)
        /\ op[g] = "done" /\ member => \E h \in Grants \ {g} : row[h] = "active"

\* Somebody who may have added the membership is left to remove it.
MembershipBacked == ~DirtyFailures /\ member => \E g \in Grants : Backs(g)

\* The inductive invariant.
IInv ==
    /\ TypeOK
    /\ LiveSiblingsStayMembers
    /\ OneAtATime
    /\ TransactionsHold
    /\ MembershipBacked
==============================================================================
