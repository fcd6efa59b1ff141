------------------------------ MODULE Tunnel_MC ------------------------------
(* Buffers of one message, which fill at once.                               *)
EXTENDS Tunnel

CONSTANTS g1, a1

=============================================================================
