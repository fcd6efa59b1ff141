---------------------------- MODULE Heartbeat_MC ----------------------------
(* The heartbeat in units of 1.25 seconds, of which every constant of the  *)
(* code is a multiple; a message takes up to 2.5 s one way and a ping with *)
(* its pong 3.75 s, the longest that the properties allow for.             *)
EXTENDS Heartbeat

\* Missing or negative, off, below the clamp, the default and above it.
Timeouts == {-1, 0, 8, 60}
\* Missing, zero (which counts as missing), less and more than the agent's.
Hints == {-1, 0, 8, 20}
\* Missing, below the minimum, above it.
Graces == {-1, 2, 6}

=============================================================================
