--------------------------- MODULE MCLldapAccount ---------------------------
(* An instance of LldapAccount for TLC. *)
EXTENDS LldapAccount

CONSTANTS a1, a2, a3
=============================================================================
