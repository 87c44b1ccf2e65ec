----------------------------- MODULE MCElection -----------------------------
(* Equal priorities: the id decides.                                       *)
EXTENDS Election

MCPriority == [i \in Instances |-> 0]
=============================================================================
