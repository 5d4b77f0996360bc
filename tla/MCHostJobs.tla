----------------------------- MODULE MCHostJobs -----------------------------
(* An instance of HostJobs for TLC: one command, or one shell.              *)
EXTENDS HostJobs

CONSTANT j1
=============================================================================
