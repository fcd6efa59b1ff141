------------------------------ MODULE Heartbeat ------------------------------
(***************************************************************************)
(* The heartbeat of one agent connection in time: the agent's pinger and   *)
(* read deadline (pingLoop and run, internal/agent/agent.go), markActive,  *)
(* idleFor and the ping handler (internal/gateway/agentconn.go), and the   *)
(* monitor with the configuration it is given (NewServerFromEnv and        *)
(* handleRegister, internal/gateway/server.go).                            *)
(*                                                                         *)
(* A variable per timer counts the time since it was set.  Time may not    *)
(* pass while something is due: a ticker, a deadline, or a message whose   *)
(* longest delay is over.  A delay covers all from the tick of the ticker  *)
(* to the handler at the other end, waits for writeMu included.            *)
(*                                                                         *)
(* A setting of the environment is a number of time units, or a negative   *)
(* number if it is missing, malformed or negative.                         *)
(***************************************************************************)
EXTENDS Integers

CONSTANTS
  PingEvery,      \* 20 s: the agent's ticker
  ReadWait,       \* 90 s: the agent's read deadline
  MonitorEvery,   \* 5 s: the monitor's ticker
  DefaultTimeout, \* 60 s
  DefaultHint,    \* 20 s: defaultAgentPingInterval
  MinGrace,       \* 5 s: minHeartbeatGrace
  TimeoutEnv, HintEnv, GraceEnv, \* values of the three settings
  OneWay,         \* the longest delay from the agent to the gateway or back
  RoundTrip       \* the longest delay of a ping and its pong together

ASSUME HeartbeatAssumption ==
  /\ PingEvery \in Nat \ {0} /\ ReadWait \in Nat /\ MonitorEvery \in Nat \ {0}
  /\ DefaultTimeout \in Nat \ {0} /\ DefaultHint \in Nat \ {0} /\ MinGrace \in Nat
  /\ TimeoutEnv \subseteq Int /\ HintEnv \subseteq Int /\ GraceEnv \subseteq Int
  /\ OneWay \in Nat /\ RoundTrip \in Nat

\* The network these results are about: a ping is answered before the next
\* one is due, and long before the agent's read deadline; the least grace
\* covers the answer to the upgrade and the first ping together.
ASSUME NetworkAssumption ==
  /\ OneWay <= RoundTrip /\ RoundTrip < PingEvery
  /\ PingEvery + RoundTrip < ReadWait
  /\ 2 * OneWay <= MinGrace

VARIABLES
  env,       \* the settings
  gconn,     \* the gateway's side: "none", "up" (registered), "evicted" (by the
             \* monitor), "gone" (readLoop has failed)
  aconn,     \* the agent's side: "none", "dialing" (the answer to the upgrade is
             \* under way), "up", "deadline" (given up for silence), "closed"
  link,      \* "up", or "lost" without a sign to either side
  idle,      \* idleFor of the connection
  sinceMon,  \* since the last tick of the monitor
  quiet,     \* since the agent's read deadline was set
  sincePing, \* since the last tick of the agent's pinger
  ping       \* the last ping: "none" (answered), "sent", "read" (pong under way)

vars == <<env, gconn, aconn, link, idle, sinceMon, quiet, sincePing, ping>>

-----------------------------------------------------------------------------
(* NewServerFromEnv.                                                       *)

envDuration(v, def) == IF v < 0 THEN def ELSE v

Hint(e) ==
  LET h == envDuration(e.hint, DefaultHint)
  IN  IF h <= 0 THEN DefaultHint ELSE h

Grace(e) ==
  LET g == envDuration(e.grace, MinGrace)
  IN  IF g < MinGrace THEN MinGrace ELSE g

\* Seeded fault: the timeout is raised to the hint alone.
TimeoutNoGrace(e) ==
  LET t == envDuration(e.timeout, DefaultTimeout)
  IN  IF t > 0 /\ t < Hint(e) THEN Hint(e) ELSE t

\* heartbeatTimeout: 0 turns the monitor off, anything else is raised to what
\* an agent that pings every Hint needs.
Timeout(e) ==
  LET t == envDuration(e.timeout, DefaultTimeout)
  IN  IF t > 0 /\ t < Hint(e) + Grace(e) THEN Hint(e) + Grace(e) ELSE t

Monitored == Timeout(env) > 0

TypeOK ==
  /\ env \in [timeout : TimeoutEnv, hint : HintEnv, grace : GraceEnv]
  /\ gconn \in {"none", "up", "evicted", "gone"}
  /\ aconn \in {"none", "dialing", "up", "deadline", "closed"}
  /\ link \in {"up", "lost"}
  /\ idle \in Nat /\ sinceMon \in 0..MonitorEvery
  /\ quiet \in 0..ReadWait /\ sincePing \in 0..PingEvery
  /\ ping \in {"none", "sent", "read"}

Init ==
  /\ env \in [timeout : TimeoutEnv, hint : HintEnv, grace : GraceEnv]
  /\ gconn = "none" /\ aconn = "none" /\ link = "up"
  /\ idle = 0 /\ sinceMon = 0 /\ quiet = 0 /\ sincePing = 0 /\ ping = "none"

-----------------------------------------------------------------------------
(* The gateway.                                                            *)

\* The agent dials while no connection of its uuid is registered: newAgentConn
\* marks the connection active, handleRegister starts the monitor.
Register ==
  /\ aconn \in {"none", "deadline", "closed"} /\ gconn # "up"
  /\ gconn' = "up" /\ aconn' = "dialing" /\ link' = "up"
  /\ idle' = 0 /\ sinceMon' = 0 /\ ping' = "none"
  /\ UNCHANGED <<env, quiet, sincePing>>

\* The ping handler: markActive, then the pong.
ReceivePing ==
  /\ gconn = "up" /\ aconn = "up" /\ link = "up" /\ ping = "sent"
  /\ idle' = 0 /\ ping' = "read"
  /\ UNCHANGED <<env, gconn, aconn, link, sinceMon, quiet, sincePing>>

\* readLoop: any other message marks the connection active too.
ReceiveFrame ==
  /\ gconn = "up" /\ aconn = "up" /\ link = "up"
  /\ idle' = 0
  /\ UNCHANGED <<env, gconn, aconn, link, sinceMon, quiet, sincePing, ping>>

\* Seeded fault: the grace, part of the timeout, is granted a second time.
MonitorGraceTwice ==
  /\ gconn = "up" /\ Monitored /\ sinceMon = MonitorEvery
  /\ gconn' = IF idle > Timeout(env) + Grace(env) THEN "evicted" ELSE "up"
  /\ sinceMon' = 0
  /\ UNCHANGED <<env, aconn, link, idle, quiet, sincePing, ping>>

\* A tick of the monitor.
Monitor ==
  /\ gconn = "up" /\ Monitored /\ sinceMon = MonitorEvery
  /\ gconn' = IF idle > Timeout(env) THEN "evicted" ELSE "up"
  /\ sinceMon' = 0
  /\ UNCHANGED <<env, aconn, link, idle, quiet, sincePing, ping>>

\* readLoop fails: the agent has closed its side, or the kernel gives a lost
\* link up, of which nothing says when.
GatewaySeesClose ==
  /\ gconn = "up"
  /\ link = "lost" \/ aconn \in {"deadline", "closed"}
  /\ gconn' = "gone"
  /\ UNCHANGED <<env, aconn, link, idle, sinceMon, quiet, sincePing, ping>>

-----------------------------------------------------------------------------
(* The agent.                                                              *)

\* The upgrade's answer arrives: run sets the read deadline, pingLoop starts.
Connected ==
  /\ aconn = "dialing" /\ link = "up"
  /\ aconn' = "up" /\ quiet' = 0 /\ sincePing' = 0
  /\ UNCHANGED <<env, gconn, link, idle, sinceMon, ping>>

\* The handshake times out.
DialFails ==
  /\ aconn = "dialing" /\ link = "lost"
  /\ aconn' = "closed"
  /\ UNCHANGED <<env, gconn, link, idle, sinceMon, quiet, sincePing, ping>>

\* A tick of the pinger; a ping on a lost link goes nowhere.
PingTick ==
  /\ aconn = "up" /\ sincePing = PingEvery
  /\ sincePing' = 0
  /\ ping' = IF link = "up" THEN "sent" ELSE ping
  /\ UNCHANGED <<env, gconn, aconn, link, idle, sinceMon, quiet>>

\* WriteControl of the ping fails, and the pinger closes the socket.
PingFails ==
  /\ aconn = "up" /\ sincePing = PingEvery /\ link = "lost"
  /\ aconn' = "closed"
  /\ UNCHANGED <<env, gconn, link, idle, sinceMon, quiet, sincePing, ping>>

\* Seeded fault: the pong handler does not move the read deadline.
ReceivePongNoDeadline ==
  /\ aconn = "up" /\ link = "up" /\ ping = "read"
  /\ ping' = "none"
  /\ UNCHANGED <<env, gconn, aconn, link, idle, sinceMon, quiet, sincePing>>

\* The pong handler.
ReceivePong ==
  /\ aconn = "up" /\ link = "up" /\ ping = "read"
  /\ ping' = "none" /\ quiet' = 0
  /\ UNCHANGED <<env, gconn, aconn, link, idle, sinceMon, sincePing>>

\* ReadMessage runs into the deadline.
ReadDeadline ==
  /\ aconn = "up" /\ quiet = ReadWait
  /\ aconn' = "deadline"
  /\ UNCHANGED <<env, gconn, link, idle, sinceMon, quiet, sincePing, ping>>

\* ReadMessage fails after the gateway has closed its side.
AgentSeesClose ==
  /\ aconn \in {"dialing", "up"} /\ gconn \in {"evicted", "gone"} /\ link = "up"
  /\ aconn' = "closed"
  /\ UNCHANGED <<env, gconn, link, idle, sinceMon, quiet, sincePing, ping>>

-----------------------------------------------------------------------------
(* The network and the clock.                                              *)

\* The two sides lose each other; what is under way is lost.
Lose ==
  /\ gconn = "up" /\ link = "up"
  /\ link' = "lost" /\ ping' = "none"
  /\ UNCHANGED <<env, gconn, aconn, idle, sinceMon, quiet, sincePing>>

Due ==
  \/ gconn = "up" /\ Monitored /\ sinceMon = MonitorEvery
  \/ aconn = "up" /\ (sincePing = PingEvery \/ quiet = ReadWait)
  \/ /\ link = "up" /\ gconn = "up"
     /\ \/ aconn = "dialing" /\ idle >= OneWay
        \/ aconn = "up" /\ ping = "sent" /\ sincePing >= OneWay
        \/ aconn = "up" /\ ping = "read" /\ sincePing >= RoundTrip

\* The idle time is only counted for the monitor and while it is the age of the
\* answer to the upgrade.
Tick ==
  /\ ~Due /\ (gconn = "up" \/ aconn = "up")
  /\ idle' = IF gconn = "up" /\ (Monitored \/ (aconn = "dialing" /\ link = "up"))
             THEN idle + 1 ELSE idle
  /\ sinceMon' = IF gconn = "up" /\ Monitored THEN sinceMon + 1 ELSE sinceMon
  /\ quiet' = IF aconn = "up" THEN quiet + 1 ELSE quiet
  /\ sincePing' = IF aconn = "up" THEN sincePing + 1 ELSE sincePing
  /\ UNCHANGED <<env, gconn, aconn, link, ping>>

Next ==
  \/ Register \/ ReceivePing \/ ReceiveFrame \/ Monitor \/ GatewaySeesClose
  \/ Connected \/ DialFails \/ PingTick \/ PingFails \/ ReceivePong
  \/ ReadDeadline \/ AgentSeesClose \/ Lose \/ Tick

Spec == Init /\ [][Next]_vars

-----------------------------------------------------------------------------
(* Properties.                                                             *)

Alive == link = "up" /\ aconn \in {"dialing", "up"}

\* The settings the code does not mend: the timeout is shorter than the time from
\* the upgrade to the first ping, and the hint, to which it is raised, is below
\* the interval at which the agent really pings.
SetTooShort ==
  /\ envDuration(env.timeout, DefaultTimeout) < PingEvery + 2 * OneWay
  /\ Hint(env) < PingEvery

\* The monitor evicts a connection whose agent is alive only if both the timeout
\* and the hint are set too short: one of them alone, a grace of any value, zero,
\* missing and negative settings do no harm.  And the agent's read deadline never
\* ends a connection that the gateway still serves
\* (server.go:86-106, 434-451, agentconn.go:157-163, agent.go:393-438).
NoFalseAlarm ==
  [][/\ gconn = "up" /\ gconn' = "evicted" /\ Alive => SetTooShort
     /\ aconn = "up" /\ aconn' = "deadline" => link = "lost" \/ gconn # "up"]_vars

\* A connection that says nothing loses its uuid at most one turn of the monitor
\* after the timeout: no interleaving of pings, frames and losses makes the
\* monitor miss it (server.go:434-451, agentconn.go:84-96).
SilentIsEvicted == gconn = "up" /\ Monitored => idle <= Timeout(env) + MonitorEvery

\* With the defaults, and whenever a timeout, a turn of the monitor, a ping
\* interval and a round trip fit into the agent's read deadline: an agent that
\* gives up a silent connection finds its uuid free and is not refused with
\* 4009 by its own dead connection (server.go:410-418, agent.go:396, 414).
NoSelfConflict ==
  /\ Monitored /\ Timeout(env) + MonitorEvery + PingEvery + RoundTrip < ReadWait
  /\ aconn = "deadline" /\ link = "lost"
  => gconn # "up"

=============================================================================
