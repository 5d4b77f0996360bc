--------------------------- MODULE AccessPromise ----------------------------
(***************************************************************************)
(* What the broker promises about one access request and the access it     *)
(* gives, without tasks, locks, crashes or a scheduler: a request is       *)
(* refused or worked on; access can exist only while it is worked on or    *)
(* granted; and once it is over, it is over for good and without access.   *)
(***************************************************************************)
CONSTANT Grants

VARIABLES
    phase,   \* where the request is
    access   \* does the access exist on the platform?

Phase == {"asked", "refused", "working", "granted", "over", "abandoned"}

Init ==
    /\ phase = [g \in Grants |-> "asked"]
    /\ access = [g \in Grants |-> FALSE]

To(g, p) == phase' = [phase EXCEPT ![g] = p]

\* Refused (or failed before anything was written), or approved.
Decide(g) ==
    /\ phase[g] = "asked"
    /\ To(g, "refused") \/ To(g, "working")
    /\ UNCHANGED access

\* Access appears only while the request is worked on; an undo that is not
\* recorded yet may take it away again, from a granted request too.
Appear(g) ==
    /\ phase[g] = "working"
    /\ access' = [access EXCEPT ![g] = TRUE]
    /\ UNCHANGED phase

Vanish(g) ==
    /\ phase[g] \in {"working", "granted"}
    /\ access' = [access EXCEPT ![g] = FALSE]
    /\ UNCHANGED phase

Grant(g) ==
    /\ phase[g] = "working" /\ access[g]
    /\ To(g, "granted")
    /\ UNCHANGED access

\* A failure, a revocation or an expiry leaves no access behind.
Finish(g) ==
    /\ phase[g] \in {"working", "granted"}
    /\ To(g, IF phase[g] = "working" THEN "refused" ELSE "over")
    /\ access' = [access EXCEPT ![g] = FALSE]

\* A platform the broker can no longer reach: its access is the operator's.
Abandon(g) ==
    /\ phase[g] \in {"working", "granted"}
    /\ To(g, "abandoned")
    /\ UNCHANGED access

Next ==
    \E g \in Grants : \/ Decide(g) \/ Appear(g) \/ Vanish(g)
                      \/ Grant(g) \/ Finish(g) \/ Abandon(g)

Spec == Init /\ [][Next]_<<phase, access>>
=============================================================================
