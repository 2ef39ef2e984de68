--------------------------- MODULE MCAgentSafety ---------------------------
(* One mount, one mission at a time, and small bounds on everything counted. *)
EXTENDS AgentSafety
=============================================================================
