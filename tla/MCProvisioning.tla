--------------------------- MODULE MCProvisioning ---------------------------
(* Instances of Provisioning for TLC. *)
EXTENDS Provisioning

CONSTANTS a1, a2, g1, g2

\* Both requests belong to one agent: siblings under one containment.
SameOwner == [g \in {g1, g2} |-> a1]

OneOwner == [g \in {g1} |-> a1]
=============================================================================
