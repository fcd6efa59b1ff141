------------------------------ MODULE UuidLease ------------------------------
(***************************************************************************)
(* What the gateway's registry promises to agents: a uuid is leased to one *)
(* connection at a time, and a connection loses its lease only after it is *)
(* doomed (its read loop ended or its heartbeat expired).  Nobody takes a  *)
(* lease over from a holder.                                               *)
(***************************************************************************)
CONSTANTS Uuids, Conns, None

VARIABLES holder,  \* uuid -> the connection that has the lease, or None
          doomed   \* connections that will never serve again

vars == <<holder, doomed>>

Init ==
  /\ holder = [u \in Uuids |-> None]
  /\ doomed = {}

HoldsNothing(c) == \A u \in Uuids : holder[u] # c

Acquire(u, c) ==
  /\ holder[u] = None
  /\ c \notin doomed /\ HoldsNothing(c)
  /\ holder' = [holder EXCEPT ![u] = c]
  /\ UNCHANGED doomed

Doom(c) ==
  /\ c \notin doomed
  /\ doomed' = doomed \cup {c}
  /\ UNCHANGED holder

Free(u) ==
  /\ holder[u] \in doomed
  /\ holder' = [holder EXCEPT ![u] = None]
  /\ UNCHANGED doomed

\* The connection object is garbage; the name may stand for a new one.
Recycle(c) ==
  /\ HoldsNothing(c)
  /\ doomed' = doomed \ {c}
  /\ UNCHANGED holder

Next ==
  \/ \E u \in Uuids, c \in Conns : Acquire(u, c)
  \/ \E u \in Uuids : Free(u)
  \/ \E c \in Conns : Doom(c) \/ Recycle(c)

Spec == Init /\ [][Next]_vars

=============================================================================
