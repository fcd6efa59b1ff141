---------------------------- MODULE AgentLoop_MC ----------------------------
(* The connection loop by itself, in units of ten seconds, with nothing      *)
(* assumed of the upstreams.                                                 *)
EXTENDS AgentLoop

=============================================================================
