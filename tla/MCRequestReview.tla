--------------------------- MODULE MCRequestReview ---------------------------
(* An instance of RequestReview for TLC: one agent with one request, and the *)
(* review tasks that may work on it at once.                                 *)
EXTENDS RequestReview

CONSTANTS a1, r1, t1, t2, t3

OneRequest == [r \in {r1} |-> a1]
==============================================================================
