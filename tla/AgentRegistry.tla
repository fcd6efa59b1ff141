---------------------------- MODULE AgentRegistry ----------------------------
(***************************************************************************)
(* The gateway's registry of agent connections: handleRegister,            *)
(* removeAgentIfMatch and the goroutines handleRegister starts             *)
(* (internal/gateway/server.go), with readLoop and closeWithErr of the     *)
(* connection (internal/gateway/agentconn.go).                             *)
(*                                                                         *)
(* Each accepted connection has three goroutines: readLoop, a watcher that *)
(* waits for closedCh, and, with a heartbeat timeout, a monitor.  A step   *)
(* is what one of them does between two operations others can observe.     *)
(* The network may lose a peer silently (reads block for ever) or visibly  *)
(* (reads fail).  Conns is a pool: an object is reused once all of its     *)
(* goroutines have ended and the registry no longer holds it.              *)
(*                                                                         *)
(* Time is reduced to the question the monitor asks, "is idleFor() over    *)
(* the timeout?": stale.  Time may pass at any moment between two frames.  *)
(***************************************************************************)
EXTENDS Naturals

CONSTANTS Uuids, Conns, None,
          HeartbeatOn   \* heartbeatTimeout > 0

ASSUME RegistryAssumption ==
  /\ None \notin Conns
  /\ HeartbeatOn \in BOOLEAN

VARIABLES
  agentByUUID, \* Server.agentByUUID
  uuid,        \* agentConn.uuid, None for an unused object
  hs,          \* handleRegister of the connection: "idle" (object unused),
               \* "upgraded", "refused", "installed", "returned"
  sock,        \* its socket: "open", "silent", "broken" (seen from the peer's
               \* side), "closed" (by the gateway)
  rl,          \* readLoop: "off", "run", "exit"
  closedCh,    \* the connections whose closedCh is closed
  watch,       \* the watcher: "off", "wait", "done"
  hb,          \* the monitor: "off", "tick", "expired", "removed",
               \* "wsClosed", "done"
  stale        \* the connections idle for longer than heartbeatTimeout

vars == <<agentByUUID, uuid, hs, sock, rl, closedCh, watch, hb, stale>>

TypeOK ==
  /\ agentByUUID \in [Uuids -> Conns \cup {None}]
  /\ uuid \in [Conns -> Uuids \cup {None}]
  /\ hs \in [Conns -> {"idle", "upgraded", "refused", "installed", "returned"}]
  /\ sock \in [Conns -> {"open", "silent", "broken", "closed"}]
  /\ rl \in [Conns -> {"off", "run", "exit"}]
  /\ closedCh \in SUBSET Conns
  /\ watch \in [Conns -> {"off", "wait", "done"}]
  /\ hb \in [Conns -> {"off", "tick", "expired", "removed", "wsClosed", "done"}]
  /\ stale \in SUBSET Conns

Init ==
  /\ agentByUUID = [u \in Uuids |-> None]
  /\ uuid = [c \in Conns |-> None]
  /\ hs = [c \in Conns |-> "idle"]
  /\ sock = [c \in Conns |-> "closed"]
  /\ rl = [c \in Conns |-> "off"]
  /\ closedCh = {}
  /\ watch = [c \in Conns |-> "off"]
  /\ hb = [c \in Conns |-> "off"]
  /\ stale = {}

-----------------------------------------------------------------------------
(* handleRegister.                                                         *)

\* An agent with a valid token and a uuid dials, and Upgrade succeeds.
Upgrade(c, u) ==
  /\ hs[c] = "idle"
  /\ hs' = [hs EXCEPT ![c] = "upgraded"]
  /\ uuid' = [uuid EXCEPT ![c] = u]
  /\ sock' = [sock EXCEPT ![c] = "open"]
  /\ UNCHANGED <<agentByUUID, rl, closedCh, watch, hb, stale>>

\* Seeded fault: a newcomer takes the uuid over.
InstallAlways(c) ==
  /\ hs[c] = "upgraded"
  /\ agentByUUID' = [agentByUUID EXCEPT ![uuid[c]] = c]
  /\ hs' = [hs EXCEPT ![c] = "installed"]
  /\ UNCHANGED <<uuid, sock, rl, closedCh, watch, hb, stale>>

\* Under s.mu, with no connection registered for the uuid.
Install(c) ==
  /\ hs[c] = "upgraded"
  /\ agentByUUID[uuid[c]] = None
  /\ agentByUUID' = [agentByUUID EXCEPT ![uuid[c]] = c]
  /\ hs' = [hs EXCEPT ![c] = "installed"]
  /\ UNCHANGED <<uuid, sock, rl, closedCh, watch, hb, stale>>

\* Under s.mu, with one: the close frame 4009 follows after the unlock.
Refuse(c) ==
  /\ hs[c] = "upgraded"
  /\ agentByUUID[uuid[c]] # None
  /\ hs' = [hs EXCEPT ![c] = "refused"]
  /\ UNCHANGED <<agentByUUID, uuid, sock, rl, closedCh, watch, hb, stale>>

\* WriteControl(4009), ws.Close.
CloseRefused(c) ==
  /\ hs[c] = "refused" /\ sock[c] # "closed"
  /\ sock' = [sock EXCEPT ![c] = "closed"]
  /\ UNCHANGED <<agentByUUID, uuid, hs, rl, closedCh, watch, hb, stale>>

\* Seeded fault: no monitor is started.
StartLoopsNoMonitor(c) ==
  /\ hs[c] = "installed"
  /\ hs' = [hs EXCEPT ![c] = "returned"]
  /\ rl' = [rl EXCEPT ![c] = "run"]
  /\ watch' = [watch EXCEPT ![c] = "wait"]
  /\ UNCHANGED <<agentByUUID, uuid, sock, closedCh, hb, stale>>

\* go readLoop, go watcher and, if s.heartbeatTimeout > 0, go monitor.
StartLoops(c) ==
  /\ hs[c] = "installed"
  /\ hs' = [hs EXCEPT ![c] = "returned"]
  /\ rl' = [rl EXCEPT ![c] = "run"]
  /\ watch' = [watch EXCEPT ![c] = "wait"]
  /\ hb' = [hb EXCEPT ![c] = IF HeartbeatOn THEN "tick" ELSE "off"]
  /\ UNCHANGED <<agentByUUID, uuid, sock, closedCh, stale>>

-----------------------------------------------------------------------------
(* readLoop.                                                               *)

\* A ping or a frame arrives: markActive.
Receive(c) ==
  /\ rl[c] = "run" /\ sock[c] = "open"
  /\ stale' = stale \ {c}
  /\ UNCHANGED <<agentByUUID, uuid, hs, sock, rl, closedCh, watch, hb>>

\* ReadMessage fails (the peer is gone, the socket was closed, or the message
\* breaks the read limit or the protocol); deferred closeWithErr.  The socket
\* is not closed here.
ReadError(c) ==
  /\ rl[c] = "run" /\ sock[c] # "silent"
  /\ rl' = [rl EXCEPT ![c] = "exit"]
  /\ closedCh' = closedCh \cup {c}
  /\ UNCHANGED <<agentByUUID, uuid, hs, sock, watch, hb, stale>>

-----------------------------------------------------------------------------
(* The watcher and the monitor.                                            *)

\* Seeded fault: the entry is deleted whoever holds it.
RemoveAlways(c) == [agentByUUID EXCEPT ![uuid[c]] = None]

\* removeAgentIfMatch, one critical section of s.mu.
removeAgentIfMatch(c) ==
  IF agentByUUID[uuid[c]] = c
    THEN [agentByUUID EXCEPT ![uuid[c]] = None]
    ELSE agentByUUID

\* Seeded fault: the watcher of a closed connection forgets the registry.
WatcherForgets(c) ==
  /\ watch[c] = "wait" /\ c \in closedCh
  /\ watch' = [watch EXCEPT ![c] = "done"]
  /\ UNCHANGED <<agentByUUID, uuid, hs, sock, rl, closedCh, hb, stale>>

Watcher(c) ==
  /\ watch[c] = "wait" /\ c \in closedCh
  /\ agentByUUID' = removeAgentIfMatch(c)
  /\ watch' = [watch EXCEPT ![c] = "done"]
  /\ UNCHANGED <<uuid, hs, sock, rl, closedCh, hb, stale>>

MonitorQuits(c) ==
  /\ hb[c] = "tick" /\ c \in closedCh
  /\ hb' = [hb EXCEPT ![c] = "done"]
  /\ UNCHANGED <<agentByUUID, uuid, hs, sock, rl, closedCh, watch, stale>>

\* The ticker fires and idleFor() is over the timeout; select may take this
\* case although closedCh is ready too.
MonitorExpires(c) ==
  /\ hb[c] = "tick" /\ c \in stale
  /\ hb' = [hb EXCEPT ![c] = "expired"]
  /\ UNCHANGED <<agentByUUID, uuid, hs, sock, rl, closedCh, watch, stale>>

MonitorRemoves(c) ==
  /\ hb[c] = "expired"
  /\ agentByUUID' = removeAgentIfMatch(c)
  /\ hb' = [hb EXCEPT ![c] = "removed"]
  /\ UNCHANGED <<uuid, hs, sock, rl, closedCh, watch, stale>>

\* Seeded fault: the monitor leaves the socket to readLoop.
MonitorKeepsWs(c) ==
  /\ hb[c] = "removed"
  /\ hb' = [hb EXCEPT ![c] = "wsClosed"]
  /\ UNCHANGED <<agentByUUID, uuid, hs, sock, rl, closedCh, watch, stale>>

\* ws.Close: readLoop's blocked read fails.
MonitorClosesWs(c) ==
  /\ hb[c] = "removed"
  /\ hb' = [hb EXCEPT ![c] = "wsClosed"]
  /\ sock' = [sock EXCEPT ![c] = "closed"]
  /\ UNCHANGED <<agentByUUID, uuid, hs, rl, closedCh, watch, stale>>

\* c.closeWithErr and return.
MonitorCloses(c) ==
  /\ hb[c] = "wsClosed"
  /\ hb' = [hb EXCEPT ![c] = "done"]
  /\ closedCh' = closedCh \cup {c}
  /\ UNCHANGED <<agentByUUID, uuid, hs, sock, rl, watch, stale>>

-----------------------------------------------------------------------------
(* The network, the clock and the garbage collector.                       *)

PeerVanishes(c) ==
  /\ sock[c] = "open"
  /\ sock' = [sock EXCEPT ![c] = "silent"]
  /\ UNCHANGED <<agentByUUID, uuid, hs, rl, closedCh, watch, hb, stale>>

PeerCloses(c) ==
  /\ sock[c] \in {"open", "silent"}
  /\ sock' = [sock EXCEPT ![c] = "broken"]
  /\ UNCHANGED <<agentByUUID, uuid, hs, rl, closedCh, watch, hb, stale>>

TimePasses(c) ==
  /\ hb[c] = "tick" /\ c \notin stale
  /\ stale' = stale \cup {c}
  /\ UNCHANGED <<agentByUUID, uuid, hs, sock, rl, closedCh, watch, hb>>

\* No goroutine of the connection is left.
Ended(c) ==
  \/ hs[c] = "refused" /\ sock[c] = "closed"
  \/ /\ hs[c] = "returned" /\ rl[c] = "exit" /\ watch[c] = "done"
     /\ hb[c] \in {"off", "done"}

Collect(c) ==
  /\ Ended(c)
  /\ \A u \in Uuids : agentByUUID[u] # c
  /\ uuid' = [uuid EXCEPT ![c] = None]
  /\ hs' = [hs EXCEPT ![c] = "idle"]
  /\ sock' = [sock EXCEPT ![c] = "closed"]
  /\ rl' = [rl EXCEPT ![c] = "off"]
  /\ closedCh' = closedCh \ {c}
  /\ watch' = [watch EXCEPT ![c] = "off"]
  /\ hb' = [hb EXCEPT ![c] = "off"]
  /\ stale' = stale \ {c}
  /\ UNCHANGED agentByUUID

-----------------------------------------------------------------------------
Handler(c) == Install(c) \/ Refuse(c) \/ CloseRefused(c) \/ StartLoops(c)

Monitor(c) ==
  \/ MonitorQuits(c) \/ MonitorExpires(c) \/ MonitorRemoves(c)
  \/ MonitorClosesWs(c) \/ MonitorCloses(c)

Next ==
  \E c \in Conns :
    \/ \E u \in Uuids : Upgrade(c, u)
    \/ Handler(c)
    \/ Receive(c) \/ ReadError(c)
    \/ Watcher(c)
    \/ Monitor(c)
    \/ PeerVanishes(c) \/ PeerCloses(c) \/ TimePasses(c)
    \/ Collect(c)

Spec == Init /\ [][Next]_vars

\* A read of a socket that failed returns; one of an open socket need not.
ReadFails(c) == sock[c] \in {"broken", "closed"} /\ ReadError(c)

\* Goroutines are scheduled, time passes for a connection that receives
\* nothing, unused objects are collected and agents keep dialling
\* (Agent.Run never gives up).  Peers need not fail, and need not be heard.
Fairness ==
  /\ \A c \in Conns :
       /\ WF_vars(Handler(c))
       /\ WF_vars(ReadFails(c))
       /\ WF_vars(Watcher(c))
       /\ WF_vars(Monitor(c))
       /\ WF_vars(sock[c] # "open" /\ TimePasses(c))
       /\ WF_vars(Collect(c))
  /\ \A u \in Uuids : WF_vars(\E c \in Conns : Upgrade(c, u))

FairSpec == Spec /\ Fairness

-----------------------------------------------------------------------------
(* Properties.                                                             *)

\* closeWithErr has run or the monitor has decided to evict the connection.
Doomed(c) == c \in closedCh \/ hb[c] \in {"expired", "removed", "wsClosed", "done"}

\* An accepted connection that is not doomed is the one clients are sent to.
HealthyIsRegistered ==
  \A c \in Conns :
    hs[c] \in {"installed", "returned"} /\ ~Doomed(c) => agentByUUID[uuid[c]] = c

\* A client is sent to an accepted connection of its uuid.
EntryIsAccepted ==
  \A u \in Uuids : agentByUUID[u] # None =>
    /\ uuid[agentByUUID[u]] = u
    /\ hs[agentByUUID[u]] \in {"installed", "returned"}

\* The registry is exact however handlers, watchers and monitors interleave: no
\* late removal by a predecessor's watcher or monitor and no second registration
\* pushes a healthy connection out, and no client reaches another uuid's agent
\* or an object no longer accepted (server.go:408-416, 463, 479-483).
RegistryExact == HealthyIsRegistered /\ EntryIsAccepted

Lease == INSTANCE UuidLease WITH holder <- agentByUUID,
                                 doomed <- {c \in Conns : Doomed(c)}

\* The registry implements the lease: a uuid is never taken over from a
\* connection and only given up by a doomed one (README.md:235, server.go:408).
LeaseSpec == Lease!Spec

\* With the heartbeat monitor on, a connection whose peer is gone loses its
\* uuid, even if no read ever fails (server.go:434-453).
DeadIsReleased ==
  \A u \in Uuids, c \in Conns :
    agentByUUID[u] = c /\ sock[c] # "open" ~> agentByUUID[u] # c

\* The goroutines of a closed connection all end (server.go:428-453).
GoroutinesEnd ==
  \A c \in Conns : c \in closedCh ~> Ended(c) \/ hs[c] = "idle"

\* An agent that keeps dialling gets its uuid back whatever happened to its
\* earlier connections: again and again the uuid is with a connection that is
\* not doomed (server.go:408-416, 431-432, agent.go:283-295).
UuidComesBack ==
  \A u \in Uuids : []<>(agentByUUID[u] # None /\ ~Doomed(agentByUUID[u]))

=============================================================================
