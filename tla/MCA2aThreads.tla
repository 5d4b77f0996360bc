---------------------------- MODULE MCA2aThreads ----------------------------
(* An instance of A2aThreads for TLC: agent a holds a grant to talk to the   *)
(* service agent b; the operator's chat with b needs none. *)
EXTENDS A2aThreads

CONSTANTS a, b, op, t1, g1, s1, none

MCResponder == [t \in Threads |-> b]
MCHolderOf  == [g \in {g1} |-> a]
MCTerm      == [g \in {g1} |-> 1]
MCSessionOf == [s \in Sessions |-> b]
=============================================================================
