--------------------------- MODULE MCActivityFeed ---------------------------
(* An instance of ActivityFeed for TLC. *)
EXTENDS ActivityFeed
=============================================================================
