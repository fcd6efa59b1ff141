---------------------------- MODULE HttpRelay_MC ----------------------------
(* One request on small bodies and queues, with two stream objects on the    *)
(* agent: the request's and one made by late frames.  A scenario has the     *)
(* faults that interact; all of them at once do not fit.                     *)
EXTENDS HttpRelay

CONSTANTS o1, o2

Scenario(req, res, trailers, faults) ==
  [req |-> req, res |-> res, trailers |-> trailers, faults |-> faults]

Requests ==
  {Scenario(0, 0, FALSE, {"cancel", "timeout"}),
   Scenario(0, 0, FALSE, {"break", "refuse", "timeout"}),
   Scenario(1, 0, FALSE, {"body", "limit", "stops", "upstream"}),
   Scenario(2, 0, FALSE, {}),
   Scenario(0, 2, FALSE, {}),
   Scenario(0, 0, FALSE, {"interim"}),
   Scenario(0, 0, TRUE, {})}

FailingUpstream == {Scenario(0, 2, FALSE, {"upstream"})}

=============================================================================
