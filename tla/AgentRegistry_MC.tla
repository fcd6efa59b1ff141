-------------------------- MODULE AgentRegistry_MC --------------------------
(* The registry with two connection objects that are used again and again: *)
(* a connection and its predecessor or its rival for the uuid.             *)
EXTENDS AgentRegistry

CONSTANTS c1, c2, u1

=============================================================================
