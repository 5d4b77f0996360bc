------------------------- MODULE MCLldapMembership --------------------------
(* An instance of LldapMembership for TLC. *)
EXTENDS LldapMembership, TLC

CONSTANTS g1, g2, g3

Symmetry == Permutations({g1, g2, g3})
=============================================================================
