----------------------------- MODULE WsRelay_MC -----------------------------
(* One session with short queues and enough stream objects for the late      *)
(* frames of the session, for every pair of handlers.  A scenario has the    *)
(* faults that interact; all of them at once do not fit.                     *)
EXTENDS WsRelay

CONSTANTS o1, o2

Scenario(relay, client, up_, faults) ==
  [relay |-> relay, client |-> client, up |-> up_, faults |-> faults]

Sessions ==
  {Scenario("framed", 0, 0, {"timeout", "ping", "upgrade"}),
   Scenario("framed", 0, 1, {}),
   Scenario("tcp", 1, 0, {"dial"}),
   Scenario("tcp", 0, 0, {"break", "timeout"}),
   Scenario("raw", 1, 0, {"break"}),
   Scenario("raw", 1, 1, {"timeout", "upgrade"}),
   Scenario("raw", 0, 2, {})}

=============================================================================
